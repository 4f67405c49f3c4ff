---------------------------- MODULE HelperRelayProofs ----------------------------
(* Proofs about HelperRelay, for any output and any size of the ptys and pipes. *)
EXTENDS HelperRelay, TLAPS

USE RelayAssumption

\* A step keeps every variable in its range and the counters in their order.
LEMMA TypeStep == RelayInv /\ [Next]_vars => TypeOK'
<1> SUFFICES ASSUME RelayInv, [Next]_vars PROVE TypeOK'
  OBVIOUS
<1> USE DEF RelayInv, TypeOK, Streams, PipeOpen, MasterOpen, counters, PhaseInv, ThreadInv
<1>1. CASE CreatePtys
  BY <1>1 DEF CreatePtys
<1>2. CASE Open
  BY <1>2 DEF Open
<1>3. CASE StartThreads
  BY <1>3 DEF StartThreads
<1>4. CASE Watch
  BY <1>4 DEF Watch
<1>5. CASE ParentExit
  BY <1>5 DEF ParentExit
<1>6. CASE Join
  BY <1>6 DEF Join
<1>7. CASE Claim
  BY <1>7 DEF Claim
<1>8. CASE GiveUp
  BY <1>8 DEF GiveUp
<1>9. CASE Diagnosed
  BY <1>9 DEF Diagnosed
<1>10. CASE ParentDies
  BY <1>10 DEF ParentDies
<1>11. CASE AppExits
  BY <1>11 DEF AppExits
<1>12. ASSUME NEW s \in Streams, ReadLine(s) PROVE TypeOK'
  BY <1>12 DEF ReadLine, Take, Relay
<1>13. ASSUME NEW s \in Streams, WriteLine(s) PROVE TypeOK'
  BY <1>13 DEF WriteLine, Relay
<1>14. ASSUME NEW s \in Streams, ReadSink(s) PROVE TypeOK'
  BY <1>14 DEF ReadSink, Take, Relay
<1>15. ASSUME NEW s \in Streams, ReadEnd(s) PROVE TypeOK'
  BY <1>15 DEF ReadEnd, Relay
<1>16. ASSUME NEW s \in Streams, Drain(s) PROVE TypeOK'
  BY <1>16 DEF Drain
<1>17. ASSUME NEW s \in Streams, AppWrites(s) PROVE TypeOK'
  BY <1>17 DEF AppWrites
<1>18. CASE UNCHANGED vars
  BY <1>18 DEF vars
<1> QED
  BY <1>1, <1>2, <1>3, <1>4, <1>5, <1>6, <1>7, <1>8, <1>9, <1>10, <1>11, <1>12, <1>13, <1>14, <1>15, <1>16, <1>17, <1>18 DEF Next, HelperStep, RelayStep

\* A step keeps what the helper's progress implies.
LEMMA PhaseStep == RelayInv /\ [Next]_vars => PhaseInv'
<1> SUFFICES ASSUME RelayInv, [Next]_vars PROVE PhaseInv'
  OBVIOUS
<1> USE DEF RelayInv, TypeOK, Streams, PipeOpen, MasterOpen, counters, PhaseInv
<1>1. CASE CreatePtys
  BY <1>1 DEF CreatePtys
<1>2. CASE Open
  BY <1>2 DEF Open
<1>3. CASE StartThreads
  BY <1>3 DEF StartThreads
<1>4. CASE Watch
  BY <1>4 DEF Watch
<1>5. CASE ParentExit
  BY <1>5 DEF ParentExit
<1>6. CASE Join
  BY <1>6 DEF Join
<1>7. CASE Claim
  BY <1>7 DEF Claim
<1>8. CASE GiveUp
  BY <1>8 DEF GiveUp
<1>9. CASE Diagnosed
  BY <1>9 DEF Diagnosed
<1>10. CASE ParentDies
  BY <1>10 DEF ParentDies
<1>11. CASE AppExits
  BY <1>11 DEF AppExits
<1>12. ASSUME NEW s \in Streams, ReadLine(s) PROVE PhaseInv'
  BY <1>12 DEF ReadLine, Take, Relay
<1>13. ASSUME NEW s \in Streams, WriteLine(s) PROVE PhaseInv'
  BY <1>13 DEF WriteLine, Relay
<1>14. ASSUME NEW s \in Streams, ReadSink(s) PROVE PhaseInv'
  BY <1>14 DEF ReadSink, Take, Relay
<1>15. ASSUME NEW s \in Streams, ReadEnd(s) PROVE PhaseInv'
  BY <1>15 DEF ReadEnd, Relay
<1>16. ASSUME NEW s \in Streams, Drain(s) PROVE PhaseInv'
  BY <1>16 DEF Drain
<1>17. ASSUME NEW s \in Streams, AppWrites(s) PROVE PhaseInv'
  BY <1>17 DEF AppWrites
<1>18. CASE UNCHANGED vars
  BY <1>18 DEF vars
<1> QED
  BY <1>1, <1>2, <1>3, <1>4, <1>5, <1>6, <1>7, <1>8, <1>9, <1>10, <1>11, <1>12, <1>13, <1>14, <1>15, <1>16, <1>17, <1>18 DEF Next, HelperStep, RelayStep

\* A step keeps what the end of a relay thread, or of the helper, implies.
LEMMA ThreadStep == RelayInv /\ [Next]_vars => ThreadInv'
<1> SUFFICES ASSUME RelayInv, [Next]_vars PROVE ThreadInv'
  OBVIOUS
<1> USE DEF RelayInv, TypeOK, Streams, PipeOpen, MasterOpen, counters, PhaseInv, ThreadInv, NoLineLost
<1>1. CASE CreatePtys
  BY <1>1 DEF CreatePtys
<1>2. CASE Open
  BY <1>2 DEF Open
<1>3. CASE StartThreads
  BY <1>3 DEF StartThreads
<1>4. CASE Watch
  BY <1>4 DEF Watch
<1>5. CASE ParentExit
  BY <1>5 DEF ParentExit
<1>6. CASE Join
  BY <1>6 DEF Join
<1>7. CASE Claim
  BY <1>7 DEF Claim
<1>8. CASE GiveUp
  BY <1>8 DEF GiveUp
<1>9. CASE Diagnosed
  BY <1>9 DEF Diagnosed
<1>10. CASE ParentDies
  BY <1>10 DEF ParentDies
<1>11. CASE AppExits
  BY <1>11 DEF AppExits
<1>12. ASSUME NEW s \in Streams, ReadLine(s) PROVE ThreadInv'
  BY <1>12 DEF ReadLine, Take, Relay
<1>13. ASSUME NEW s \in Streams, WriteLine(s) PROVE ThreadInv'
  BY <1>13 DEF WriteLine, Relay
<1>14. ASSUME NEW s \in Streams, ReadSink(s) PROVE ThreadInv'
  BY <1>14 DEF ReadSink, Take, Relay
<1>15. ASSUME NEW s \in Streams, ReadEnd(s) PROVE ThreadInv'
  BY <1>15 DEF ReadEnd, Relay
<1>16. ASSUME NEW s \in Streams, Drain(s) PROVE ThreadInv'
  BY <1>16 DEF Drain
<1>17. ASSUME NEW s \in Streams, AppWrites(s) PROVE ThreadInv'
  BY <1>17 DEF AppWrites
<1>18. CASE UNCHANGED vars
  BY <1>18 DEF vars
<1> QED
  BY <1>1, <1>2, <1>3, <1>4, <1>5, <1>6, <1>7, <1>8, <1>9, <1>10, <1>11, <1>12, <1>13, <1>14, <1>15, <1>16, <1>17, <1>18 DEF Next, HelperStep, RelayStep

\* A step loses no line.
LEMMA LineStep == RelayInv /\ [Next]_vars => NoLineLost'
<1> SUFFICES ASSUME RelayInv, [Next]_vars PROVE NoLineLost'
  OBVIOUS
<1> USE DEF RelayInv, TypeOK, Streams, PipeOpen, MasterOpen, counters, PhaseInv, ThreadInv, NoLineLost
<1>1. CASE CreatePtys
  BY <1>1 DEF CreatePtys
<1>2. CASE Open
  BY <1>2 DEF Open
<1>3. CASE StartThreads
  BY <1>3 DEF StartThreads
<1>4. CASE Watch
  BY <1>4 DEF Watch
<1>5. CASE ParentExit
  BY <1>5 DEF ParentExit
<1>6. CASE Join
  BY <1>6 DEF Join
<1>7. CASE Claim
  BY <1>7 DEF Claim
<1>8. CASE GiveUp
  BY <1>8 DEF GiveUp
<1>9. CASE Diagnosed
  BY <1>9 DEF Diagnosed
<1>10. CASE ParentDies
  BY <1>10 DEF ParentDies
<1>11. CASE AppExits
  BY <1>11 DEF AppExits
<1>12. ASSUME NEW s \in Streams, ReadLine(s) PROVE NoLineLost'
  BY <1>12 DEF ReadLine, Take, Relay
<1>13. ASSUME NEW s \in Streams, WriteLine(s) PROVE NoLineLost'
  BY <1>13 DEF WriteLine, Relay
<1>14. ASSUME NEW s \in Streams, ReadSink(s) PROVE NoLineLost'
  BY <1>14 DEF ReadSink, Take, Relay
<1>15. ASSUME NEW s \in Streams, ReadEnd(s) PROVE NoLineLost'
  BY <1>15 DEF ReadEnd, Relay
<1>16. ASSUME NEW s \in Streams, Drain(s) PROVE NoLineLost'
  BY <1>16 DEF Drain
<1>17. ASSUME NEW s \in Streams, AppWrites(s) PROVE NoLineLost'
  BY <1>17 DEF AppWrites
<1>18. CASE UNCHANGED vars
  BY <1>18 DEF vars
<1> QED
  BY <1>1, <1>2, <1>3, <1>4, <1>5, <1>6, <1>7, <1>8, <1>9, <1>10, <1>11, <1>12, <1>13, <1>14, <1>15, <1>16, <1>17, <1>18 DEF Next, HelperStep, RelayStep

\* The inductive invariant holds in every reachable state.
THEOREM Invariance == Spec => []RelayInv
<1>1. Init => RelayInv
  <2> SUFFICES ASSUME Init PROVE RelayInv
    OBVIOUS
  <2>1. \A s \in Streams : Output[s] \in Nat
    BY DEF RelayAssumption
  <2>2. \A s \in Streams : got[s] = 0 /\ put[s] = 0 /\ took[s] = 0 /\ wrote[s] = 0
    BY DEF Init
  <2>3. \A s \in Streams : wrote[s] <= Output[s] /\ put[s] - got[s] <= PipeCap /\ wrote[s] - took[s] <= PtyCap
    BY <2>1, <2>2 DEF RelayAssumption
  <2>4. TypeOK
    <3>1. /\ wrote \in [Streams -> Nat] /\ took \in [Streams -> Nat]
          /\ put \in [Streams -> Nat] /\ got \in [Streams -> Nat]
          /\ relay \in [Streams -> {"off", "line", "write", "sink", "done"}]
      BY DEF Init
    <3>2. \A s \in Streams : got[s] <= put[s] /\ put[s] <= took[s] /\ took[s] <= wrote[s]
      BY <2>2
    <3> QED
      BY <2>3, <3>1, <3>2 DEF Init, TypeOK
  <2>5. PhaseInv
    BY DEF Init, PhaseInv
  <2>6. ThreadInv
    BY DEF Init, ThreadInv
  <2>7. NoLineLost
    BY DEF Init, NoLineLost
  <2> QED
    BY <2>4, <2>5, <2>6, <2>7 DEF RelayInv
<1>2. RelayInv /\ [Next]_vars => RelayInv'
  BY TypeStep, PhaseStep, ThreadStep, LineStep DEF RelayInv
<1> QED
  BY <1>1, <1>2, PTL DEF Spec

\* Every variable keeps its range, a stream's counters their order, and the ptys and
\* pipes their bounds.
THEOREM TypeCorrect == Spec => []TypeOK
<1>1. RelayInv => TypeOK
  BY DEF RelayInv
<1> QED
  BY <1>1, Invariance, PTL

\* While the parent is there, the relay loses no line and the helper exits after the
\* last one.
THEOREM LinesKept == Spec => []NoLineLost
<1>1. RelayInv => NoLineLost
  BY DEF RelayInv
<1> QED
  BY <1>1, Invariance, PTL

\* The helper's exit hangs up no app but a dead parent's that is not detached.
THEOREM HangUps == Spec => []HangsUpOnlyOrphans
<1>1. RelayInv => HangsUpOnlyOrphans
  BY DEF RelayInv, ThreadInv, HangsUpOnlyOrphans, TypeOK
<1> QED
  BY <1>1, Invariance, PTL
-------------------------------------------------------------------------------
\* Where a stream has ended for the parent, the app is gone and every line was received.
LEMMA EndedIsComplete ==
  ASSUME RelayInv', NEW s \in Streams, CapturedEnd(s)' = "ended", Bad[s] = {}
  PROVE  app' # "running" /\ got'[s] = wrote'[s]
<1>1. PipeOpen' /\ helper' = "exited" /\ got'[s] = put'[s]
  BY DEF CapturedEnd
<1>2. got'[s] = wrote'[s]
  BY <1>1 DEF RelayInv, NoLineLost
<1>3. app' # "running"
  BY <1>1 DEF RelayInv, ThreadInv, PipeOpen
<1> QED
  BY <1>2, <1>3

\* A step that ends streams while the app and the counters stand still is the abstract
\* end of all of them at once.
LEMMA EndTogether ==
  ASSUME RelayInv', UNCHANGED <<app, counters>>,
         \A s \in Streams : CapturedEnd(s)' # CapturedEnd(s) =>
                              CapturedEnd(s) = "open" /\ CapturedEnd(s)' = "ended"
  PROVE  [Captured!Next]_(Captured!vars)
<1> DEFINE S == {s \in Streams : CapturedEnd(s)' # CapturedEnd(s)}
           end == [s \in Streams |-> CapturedEnd(s)]
<1>1. \A s \in S : CapturedEnd(s) = "open" /\ CapturedEnd(s)' = "ended"
  OBVIOUS
<1>2. \A s \in S : Bad[s] = {} => app # "running" /\ got'[s] = wrote[s]
  BY <1>1, EndedIsComplete DEF counters
<1>3. end' = [s \in Streams |-> IF s \in S THEN "ended" ELSE end[s]]
  BY <1>1
<1>4. S \in SUBSET Streams
  OBVIOUS
<1> HIDE DEF S
<1>5. Captured!Finish(S)
  BY <1>1, <1>2, <1>3, <1>4 DEF Captured!Finish, Captured!End, counters
<1> QED
  BY <1>4, <1>5 DEF Captured!Next

\* A step of the parent that closes its pipes is the abstract leaving of both streams.
LEMMA LeaveTogether ==
  ASSUME UNCHANGED <<app, helper, counters>>, PipeOpen' => PipeOpen
  PROVE  [Captured!Next]_(Captured!vars)
<1>1. CASE PipeOpen' = PipeOpen
  <2>1. \A s \in Streams : CapturedEnd(s)' = CapturedEnd(s)
    BY <1>1 DEF CapturedEnd, counters
  <2> QED
    BY <2>1 DEF Captured!vars, counters
<1>2. CASE PipeOpen' # PipeOpen
  <2>1. \A s \in Streams : CapturedEnd(s)' = "gone"
    BY <1>2 DEF CapturedEnd, PipeOpen
  <2>2. Captured!Leave(Streams)
    BY <2>1 DEF Captured!Leave, counters
  <2> QED
    BY <2>2 DEF Captured!Next
<1> QED
  BY <1>1, <1>2

\* Every step of the relay is a step of the abstract stream, or none.
LEMMA CaptureStep == RelayInv /\ RelayInv' /\ [Next]_vars => [Captured!Next]_(Captured!vars)
<1> SUFFICES ASSUME RelayInv, RelayInv', [Next]_vars PROVE [Captured!Next]_(Captured!vars)
  OBVIOUS
<1> USE DEF counters
<1>1. ASSUME UNCHANGED <<parent, app, counters>>, helper' = helper \/ helper # "exited"
      PROVE  [Captured!Next]_(Captured!vars)
  <2>1. \A s \in Streams : CapturedEnd(s)' # CapturedEnd(s) =>
                             CapturedEnd(s) = "open" /\ CapturedEnd(s)' = "ended"
    BY <1>1 DEF CapturedEnd, PipeOpen
  <2> QED
    BY <1>1, <2>1, EndTogether
<1>2. CASE CreatePtys \/ StartThreads \/ Watch \/ ParentExit \/ Join
  BY <1>1, <1>2 DEF CreatePtys, StartThreads, Watch, ParentExit, Join
<1>3. CASE Open
  <2>1. CASE UNCHANGED app
    BY <1>1, <1>3, <2>1 DEF Open
  <2>2. CASE helper' = "threads" /\ app' = "running"
    <3>1. \A s \in Streams : CapturedEnd(s)' = CapturedEnd(s) /\ CapturedEnd(s) # "ended"
      BY <1>3, <2>2 DEF Open, CapturedEnd, PipeOpen
    <3>2. app = "none"
      BY <1>3 DEF Open, RelayInv, PhaseInv
    <3>3. Captured!AppStarts(Streams)
      BY <1>3, <2>2, <3>1, <3>2 DEF Open, Captured!AppStarts
    <3> QED
      BY <3>3 DEF Captured!Next
  <2> QED
    BY <1>3, <2>1, <2>2 DEF Open
<1>4. CASE Claim \/ GiveUp \/ Diagnosed \/ ParentDies
  <2>1. UNCHANGED <<app, helper, counters>> /\ (PipeOpen' => PipeOpen)
    BY <1>4 DEF Claim, GiveUp, Diagnosed, ParentDies, PipeOpen, RelayInv, TypeOK
  <2> QED
    BY <2>1, LeaveTogether
<1>5. CASE AppExits
  <2>1. \A s \in Streams : CapturedEnd(s)' = CapturedEnd(s)
    BY <1>5 DEF AppExits, CapturedEnd, PipeOpen
  <2>2. Captured!AppExits(Streams)
    BY <1>5, <2>1 DEF AppExits, Captured!AppExits
  <2> QED
    BY <2>2 DEF Captured!Next
<1>6. ASSUME NEW s \in Streams, ReadLine(s) \/ WriteLine(s) \/ ReadSink(s) \/ ReadEnd(s)
      PROVE  [Captured!Next]_(Captured!vars)
  <2>1. UNCHANGED <<parent, helper, app, wrote, got>> /\ helper # "exited"
    BY <1>6 DEF ReadLine, WriteLine, ReadSink, ReadEnd, Relay
  <2>2. \A t \in Streams : CapturedEnd(t)' = CapturedEnd(t)
    BY <2>1 DEF CapturedEnd, PipeOpen
  <2> QED
    BY <2>1, <2>2 DEF Captured!vars
<1>7. ASSUME NEW s \in Streams, Drain(s) PROVE [Captured!Next]_(Captured!vars)
  <2>1. UNCHANGED <<parent, helper, app, wrote, took, put>> /\ PipeOpen
        /\ got[s] < put[s] /\ got' = [got EXCEPT ![s] = @ + 1]
    BY <1>7 DEF Drain, PipeOpen
  <2>2. CapturedEnd(s) = "open" /\ got[s] < wrote[s]
    BY <2>1 DEF CapturedEnd, RelayInv, TypeOK
  <2>3. \A t \in Streams \ {s} : CapturedEnd(t)' = CapturedEnd(t)
    BY <2>1 DEF CapturedEnd, PipeOpen, RelayInv, TypeOK
  <2>4. CASE CapturedEnd(s)' = CapturedEnd(s)
    <3>1. Captured!End({})
      BY <2>1, <2>3, <2>4 DEF Captured!End
    <3>2. Captured!Receive(s)
      BY <2>1, <2>2, <3>1 DEF Captured!Receive
    <3> QED
      BY <3>2 DEF Captured!Next
  <2>5. CASE CapturedEnd(s)' # CapturedEnd(s)
    <3>1. CapturedEnd(s)' = "ended"
      BY <2>1, <2>2, <2>5 DEF CapturedEnd, PipeOpen
    <3>2. Bad[s] = {} => app # "running" /\ got'[s] = wrote[s]
      BY <2>1, <3>1, EndedIsComplete
    <3>3. Captured!End({s})
      BY <2>1, <2>2, <2>3, <3>1, <3>2 DEF Captured!End
    <3>4. Captured!Receive(s)
      BY <2>1, <2>2, <3>3 DEF Captured!Receive
    <3> QED
      BY <3>4 DEF Captured!Next
  <2> QED
    BY <2>4, <2>5
<1>8. ASSUME NEW s \in Streams, AppWrites(s) PROVE [Captured!Next]_(Captured!vars)
  <2>1. \A t \in Streams : CapturedEnd(t)' = CapturedEnd(t)
    BY <1>8 DEF AppWrites, CapturedEnd, PipeOpen
  <2>2. Captured!Write(s)
    BY <1>8, <2>1 DEF AppWrites, Captured!Write
  <2> QED
    BY <2>2 DEF Captured!Next
<1>9. CASE UNCHANGED vars
  <2>1. \A t \in Streams : CapturedEnd(t)' = CapturedEnd(t)
    BY <1>9 DEF vars, CapturedEnd, PipeOpen
  <2> QED
    BY <1>9, <2>1 DEF vars, Captured!vars
<1> QED
  BY <1>2, <1>3, <1>4, <1>5, <1>6, <1>7, <1>8, <1>9 DEF Next, HelperStep, RelayStep

\* The helper, its relay and the pipes implement what CapturedOutput promises: the parent
\* gets every line once and in order, and a stream without a line that is not UTF-8 ends
\* for it when the app is gone and the last line was received.
THEOREM Refinement == Spec => ImplementsCapturedOutput
<1>1. Init => Captured!Init
  <2> SUFFICES ASSUME Init PROVE Captured!Init
    OBVIOUS
  <2>1. \A s \in Streams : CapturedEnd(s) = "open"
    BY DEF Init, CapturedEnd, PipeOpen
  <2> QED
    BY <2>1 DEF Init, Captured!Init
<1>2. RelayInv /\ RelayInv' /\ [Next]_vars => [Captured!Next]_(Captured!vars)
  BY CaptureStep
<1> QED
  BY <1>1, <1>2, Invariance, PTL DEF Spec, ImplementsCapturedOutput, Captured!Spec
===============================================================================

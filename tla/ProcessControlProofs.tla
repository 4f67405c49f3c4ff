--------------------------- MODULE ProcessControlProofs ---------------------------
(* Proofs about ProcessControl, for any Children, strangers, pids and exit codes. *)
EXTENDS ProcessControl, TLAPS

USE ControlAssumption

\* A step keeps every variable in its range, a pid with its process and a handle's pid free.
LEMMA TypeStep == ControlInv /\ [Next]_vars => TypeOK'
<1> SUFFICES ASSUME ControlInv, [Next]_vars PROVE TypeOK'
  OBVIOUS
<1> USE DEF ControlInv, TypeOK, DoomedInv, setup, Synth, KillCode
<1>1. ASSUME NEW c \in Children, Spawned(c) PROVE TypeOK'
  BY <1>1 DEF Spawned, Occupy, Free, Pinned, Goto
<1>2. ASSUME NEW c \in Children, KillLooks(c) PROVE TypeOK'
  BY <1>2 DEF KillLooks, Alive, Goto
<1>3. ASSUME NEW c \in Children, KillActs(c) PROVE TypeOK'
  BY <1>3 DEF KillActs, Alive, Target, Goto
<1>4. ASSUME NEW c \in Children, TryWait(c) PROVE TypeOK'
  BY <1>4 DEF TryWait, Seen, Alive, Target
<1>5. ASSUME NEW c \in Children, Wait(c) PROVE TypeOK'
  BY <1>5 DEF Wait, Goto
<1>6. ASSUME NEW c \in Children, Poll(c) PROVE TypeOK'
  BY <1>6 DEF Poll, Seen, Alive, Target, Goto
<1>7. ASSUME NEW c \in Children, Drop(c) PROVE TypeOK'
  BY <1>7 DEF Drop, Goto
<1>8. ASSUME NEW c \in Children, Exits(c) PROVE TypeOK'
  BY <1>8 DEF Exits, End
<1>9. ASSUME NEW h \in Strangers, StrangerStarts(h) PROVE TypeOK'
  BY <1>9 DEF StrangerStarts, Occupy, Free, Pinned
<1>10. ASSUME NEW h \in Children \cup Strangers, Dies(h) PROVE TypeOK'
  BY <1>10 DEF Dies, End
<1>11. CASE UNCHANGED vars
  BY <1>11 DEF vars
<1> QED
  BY <1>1, <1>2, <1>3, <1>4, <1>5, <1>6, <1>7, <1>8, <1>9, <1>10, <1>11 DEF Next

\* A step returns no status that is early, or on Windows not the exit code.
LEMMA StatusStep == ControlInv /\ [Next]_vars => StatusIsReal'
<1> SUFFICES ASSUME ControlInv, [Next]_vars PROVE StatusIsReal'
  OBVIOUS
<1> USE DEF ControlInv, TypeOK, DoomedInv, setup, StatusIsReal, Synth, KillCode
<1>1. ASSUME NEW c \in Children, Spawned(c) PROVE StatusIsReal'
  BY <1>1 DEF Spawned, Occupy, Free, Pinned, Goto
<1>2. ASSUME NEW c \in Children, KillLooks(c) PROVE StatusIsReal'
  BY <1>2 DEF KillLooks, Alive, Goto
<1>3. ASSUME NEW c \in Children, KillActs(c) PROVE StatusIsReal'
  BY <1>3 DEF KillActs, Alive, Target, Goto
<1>4. ASSUME NEW c \in Children, TryWait(c) PROVE StatusIsReal'
  BY <1>4 DEF TryWait, Seen, Alive, Target
<1>5. ASSUME NEW c \in Children, Wait(c) PROVE StatusIsReal'
  BY <1>5 DEF Wait, Goto
<1>6. ASSUME NEW c \in Children, Poll(c) PROVE StatusIsReal'
  BY <1>6 DEF Poll, Seen, Alive, Target, Goto
<1>7. ASSUME NEW c \in Children, Drop(c) PROVE StatusIsReal'
  BY <1>7 DEF Drop, Goto
<1>8. ASSUME NEW c \in Children, Exits(c) PROVE StatusIsReal'
  BY <1>8 DEF Exits, End
<1>9. ASSUME NEW h \in Strangers, StrangerStarts(h) PROVE StatusIsReal'
  BY <1>9 DEF StrangerStarts, Occupy, Free, Pinned
<1>10. ASSUME NEW h \in Children \cup Strangers, Dies(h) PROVE StatusIsReal'
  BY <1>10 DEF Dies, End
<1>11. CASE UNCHANGED vars
  BY <1>11 DEF vars
<1> QED
  BY <1>1, <1>2, <1>3, <1>4, <1>5, <1>6, <1>7, <1>8, <1>9, <1>10, <1>11 DEF Next

\* A step dooms only a process that runs.
LEMMA DoomedStep == ControlInv /\ [Next]_vars => DoomedInv'
<1> SUFFICES ASSUME ControlInv, [Next]_vars PROVE DoomedInv'
  OBVIOUS
<1> USE DEF ControlInv, TypeOK, DoomedInv, setup
<1>1. ASSUME NEW c \in Children, Spawned(c) PROVE DoomedInv'
  BY <1>1 DEF Spawned, Occupy, Free, Pinned, Goto
<1>2. ASSUME NEW c \in Children, KillLooks(c) PROVE DoomedInv'
  BY <1>2 DEF KillLooks, Alive, Goto
<1>3. ASSUME NEW c \in Children, KillActs(c) PROVE DoomedInv'
  BY <1>3 DEF KillActs, Alive, Target, Goto
<1>4. ASSUME NEW c \in Children, TryWait(c) PROVE DoomedInv'
  BY <1>4 DEF TryWait, Seen, Alive, Target
<1>5. ASSUME NEW c \in Children, Wait(c) PROVE DoomedInv'
  BY <1>5 DEF Wait, Goto
<1>6. ASSUME NEW c \in Children, Poll(c) PROVE DoomedInv'
  BY <1>6 DEF Poll, Seen, Alive, Target, Goto
<1>7. ASSUME NEW c \in Children, Drop(c) PROVE DoomedInv'
  BY <1>7 DEF Drop, Goto
<1>8. ASSUME NEW c \in Children, Exits(c) PROVE DoomedInv'
  BY <1>8 DEF Exits, End
<1>9. ASSUME NEW h \in Strangers, StrangerStarts(h) PROVE DoomedInv'
  BY <1>9 DEF StrangerStarts, Occupy, Free, Pinned
<1>10. ASSUME NEW h \in Children \cup Strangers, Dies(h) PROVE DoomedInv'
  BY <1>10 DEF Dies, End
<1>11. CASE UNCHANGED vars
  BY <1>11 DEF vars
<1> QED
  BY <1>1, <1>2, <1>3, <1>4, <1>5, <1>6, <1>7, <1>8, <1>9, <1>10, <1>11 DEF Next

\* The inductive invariant holds in every reachable state.
THEOREM Invariance == Spec => []ControlInv
<1>1. Init => ControlInv
  <2> SUFFICES ASSUME Init PROVE ControlInv
    OBVIOUS
  <2>1. TypeOK
    BY DEF Init, TypeOK
  <2>2. StatusIsReal /\ DoomedInv
    BY DEF Init, StatusIsReal, DoomedInv
  <2> QED
    BY <2>1, <2>2 DEF ControlInv
<1>2. ControlInv /\ [Next]_vars => ControlInv'
  BY TypeStep, StatusStep, DoomedStep DEF ControlInv
<1> QED
  BY <1>1, <1>2, PTL DEF Spec

\* Every variable keeps its range; a pid is its process's, and an open handle's pid
\* is nobody else's.
THEOREM TypeCorrect == Spec => []TypeOK
<1>1. ControlInv => TypeOK
  BY DEF ControlInv
<1> QED
  BY <1>1, Invariance, PTL

\* A status is never returned before the exit, and on Windows it is the exit code.
THEOREM StatusCorrect == Spec => []StatusIsReal
<1>1. ControlInv => StatusIsReal
  BY DEF ControlInv
<1> QED
  BY <1>1, Invariance, PTL
-------------------------------------------------------------------------------
\* What a Child's calls act on is its own process, or no process any more.
LEMMA OwnTarget ==
  ASSUME ControlInv, OwnInv, byHandle \/ ~reuse, NEW c \in Children, pc[c] \notin {"none", "dropped"}
  PROVE  Target(c) \in {c, Nobody} /\ (Alive(Target(c)) <=> code[c] = Live)
<1>1. pid[c] \in Pids
  BY DEF ControlInv, DoomedInv
<1>2. Target(c) \in {c, Nobody}
  BY <1>1 DEF Target, OwnInv
<1>3. ~byHandle => (Target(c) = c <=> code[c] = Live)
  BY <1>1 DEF Target, ControlInv, TypeOK
<1>4. ~Alive(Nobody)
  BY DEF Alive
<1>5. Alive(c) <=> code[c] = Live
  BY DEF Alive
<1>6. byHandle => Target(c) = c
  BY DEF Target
<1> QED
  BY <1>2, <1>3, <1>4, <1>5, <1>6

\* A step takes no pid from under a Child, and an Ok of kill stands.
LEMMA OwnStep == ControlInv /\ OwnInv /\ [Next]_vars => OwnInv'
<1> SUFFICES ASSUME ControlInv, OwnInv, [Next]_vars PROVE OwnInv'
  OBVIOUS
<1> USE DEF ControlInv, TypeOK, DoomedInv, OwnInv, setup
<1>1. ASSUME NEW c \in Children, Spawned(c) PROVE OwnInv'
  BY <1>1 DEF Spawned, Occupy, Free, Pinned, Goto
<1>2. ASSUME NEW c \in Children, KillLooks(c) PROVE OwnInv'
  BY <1>2 DEF KillLooks, Alive, Goto
<1>3. ASSUME NEW c \in Children, KillActs(c) PROVE OwnInv'
  BY <1>3 DEF KillActs, Alive, Target, Goto
<1>4. ASSUME NEW c \in Children, TryWait(c) PROVE OwnInv'
  BY <1>4 DEF TryWait, Seen, Alive, Target
<1>5. ASSUME NEW c \in Children, Wait(c) PROVE OwnInv'
  BY <1>5 DEF Wait, Goto
<1>6. ASSUME NEW c \in Children, Poll(c) PROVE OwnInv'
  BY <1>6 DEF Poll, Seen, Alive, Target, Goto
<1>7. ASSUME NEW c \in Children, Drop(c) PROVE OwnInv'
  BY <1>7 DEF Drop, Goto
<1>8. ASSUME NEW c \in Children, Exits(c) PROVE OwnInv'
  BY <1>8 DEF Exits, End
<1>9. ASSUME NEW h \in Strangers, StrangerStarts(h) PROVE OwnInv'
  BY <1>9 DEF StrangerStarts, Occupy, Free, Pinned
<1>10. ASSUME NEW h \in Children \cup Strangers, Dies(h) PROVE OwnInv'
  BY <1>10 DEF Dies, End
<1>11. CASE UNCHANGED vars
  BY <1>11 DEF vars
<1> QED
  BY <1>1, <1>2, <1>3, <1>4, <1>5, <1>6, <1>7, <1>8, <1>9, <1>10, <1>11 DEF Next

\* Only a kill dooms, and what it dooms is the process of its own Child.
LEMMA OwnDoom ==
  ControlInv /\ OwnInv /\ (byHandle \/ ~reuse) /\ [Next]_vars
    => \A h \in doomed' \ doomed : h \in Children /\ pc[h] = "killing"
<1> SUFFICES ASSUME ControlInv, OwnInv, byHandle \/ ~reuse, [Next]_vars,
                    NEW h \in doomed' \ doomed
             PROVE  h \in Children /\ pc[h] = "killing"
  OBVIOUS
<1>1. PICK c \in Children : KillActs(c)
  BY DEF Next, vars, setup, Spawned, KillLooks, TryWait, Wait, Poll, Drop, Exits, Dies,
         StrangerStarts, End
<1>2. pc[c] = "killing" /\ h = Target(c) /\ Alive(Target(c))
  BY <1>1 DEF KillActs
<1>3. Target(c) \in {c, Nobody} /\ ~Alive(Nobody)
  BY <1>2, OwnTarget, ControlAssumption DEF Alive
<1> QED
  BY <1>2, <1>3

\* A call that looks again after the exit sees what was seen before.
LEMMA SeenStands ==
  ASSUME ControlInv, OwnInv, byHandle \/ ~reuse, NEW c \in Children,
         pc[c] \notin {"none", "dropped"}, status[c] \in Codes
  PROVE  Seen(c) = status[c]
<1>1. code[c] # Live
  BY ControlAssumption DEF ControlInv, StatusIsReal, TypeOK
<1>2. ~Alive(Target(c))
  BY <1>1, OwnTarget
<1>3. ~byHandle => status[c] = Synth
  BY ControlAssumption DEF OwnInv
<1> QED
  BY <1>2, <1>3 DEF Seen, ControlInv, StatusIsReal

\* Through a handle, or while no pid is given out again, the pid is the Child's until it is
\* dropped, a kill dooms the process of its own Child only, an Ok of kill is kept and a
\* reported exit is not taken back.
THEOREM OwnProcess == Spec => KeepsToItsOwn
<1> DEFINE Keeps ==
             byHandle \/ ~reuse =>
               /\ \A c \in Children :
                    pc'[c] \notin {"none", "dropped"} => holder'[pid'[c]] \in {c, Nobody}
               /\ \A h \in doomed' \ doomed : h \in Children /\ pc[h] = "killing"
               /\ \A c \in Children : kill'[c] = "ok" => c \in doomed' \/ code'[c] # Live
               /\ \A c \in Children : status[c] \in Codes => status'[c] = status[c]
<1>1. Init => OwnInv
  BY DEF Init, OwnInv
<1>2. ControlInv /\ OwnInv /\ [Next]_vars => OwnInv'
  BY OwnStep
<1>3. ControlInv /\ ControlInv' /\ OwnInv /\ OwnInv' /\ [Next]_vars => [Keeps]_vars
  <2> SUFFICES ASSUME ControlInv, ControlInv', OwnInv, OwnInv', [Next]_vars, byHandle \/ ~reuse,
                      NEW c \in Children
               PROVE  /\ pc'[c] \notin {"none", "dropped"} => holder'[pid'[c]] \in {c, Nobody}
                      /\ kill'[c] = "ok" => c \in doomed' \/ code'[c] # Live
                      /\ status[c] \in Codes => status'[c] = status[c]
    BY OwnDoom
  <2>1. byHandle' = byHandle /\ reuse' = reuse
    BY DEF Next, vars, setup, Spawned, KillLooks, KillActs, TryWait, Wait, Poll, Drop, Exits,
           Dies, StrangerStarts
  <2>4. pc'[c] \notin {"none", "dropped"} => holder'[pid'[c]] \in {c, Nobody}
    BY <2>1 DEF OwnInv, ControlInv, TypeOK
  <2>2. kill'[c] = "ok" => c \in doomed' \/ code'[c] # Live
    BY <2>1 DEF OwnInv
  <2>3. ASSUME status[c] \in Codes, status' # status PROVE status'[c] = status[c]
    <3>1. PICK d \in Children : /\ pc[d] \notin {"none", "dropped"}
                               /\ status' = [status EXCEPT ![d] = Seen(d)]
      BY <2>3 DEF Next, vars, Spawned, KillLooks, KillActs, TryWait, Wait, Poll, Drop, Exits,
                  Dies, StrangerStarts
    <3>2. status[d] \in Codes => Seen(d) = status[d]
      BY <3>1, SeenStands
    <3> QED
      BY <2>3, <3>1, <3>2 DEF ControlInv, TypeOK
  <2> QED
    BY <2>2, <2>3, <2>4
<1> QED
  BY <1>1, <1>2, <1>3, Invariance, PTL DEF Spec, KeepsToItsOwn
===============================================================================

--------------------------- MODULE AdoptWindowsProofs ---------------------------
(* Proofs about AdoptWindows, for any launches, processes, arguments and times. *)
EXTENDS AdoptWindows, TLAPS

USE LaunchAssumption, PidAssumption, TimeAssumption, FailureAssumption

\* A step keeps every variable in its range.
LEMMA TypeStep == AdoptInv /\ [Next]_vars => TypeOK'
<1> SUFFICES ASSUME AdoptInv, [Next]_vars PROVE TypeOK'
  OBVIOUS
<1> USE DEF AdoptInv, TypeOK, SearchInv, Looping, procVars, locals, result, callerVars
<1>1. ASSUME NEW l \in Launches, caller = "up", Snapshot(l) PROVE TypeOK'
  BY <1>1 DEF Snapshot, Listing, Instances, Running, Goto
<1>2. ASSUME NEW l \in Launches, caller = "up", CreateProcess(l) PROVE TypeOK'
  <2>1. CASE Goto(l, "failed") /\ UNCHANGED <<procVars, boot>>
    BY <1>2, <2>1 DEF CreateProcess, Goto
  <2>2. ASSUME NEW p \in Pids, Start(l, p), boot' = [boot EXCEPT ![l] = p], Goto(l, "alive")
        PROVE TypeOK'
    BY <1>2, <2>2 DEF CreateProcess, Start, Unused, Goto
  <2> QED
    BY <1>2, <2>1, <2>2 DEF CreateProcess
<1>3. ASSUME NEW l \in Launches, caller = "up", ReadAlive(l) PROVE TypeOK'
  BY <1>3 DEF ReadAlive, Running, Goto
<1>4. ASSUME NEW l \in Launches, caller = "up", FastPath(l) PROVE TypeOK'
  <2>1. boot[l] \in Pids /\ tracked[l] = NoPid
    BY <1>4 DEF FastPath
  <2>2. CASE Track(l, boot[l], "window")
    BY <1>4, <2>1, <2>2 DEF FastPath, Track, Goto
  <2>3. CASE Goto(l, "list") /\ UNCHANGED <<locals, result>>
    BY <1>4, <2>1, <2>3 DEF FastPath, Goto
  <2> QED
    BY <1>4, <2>2, <2>3 DEF FastPath
<1>5. ASSUME NEW l \in Launches, caller = "up", List(l) PROVE TypeOK'
  BY <1>5 DEF List, Listing, Instances, Running, Goto
<1>6. ASSUME NEW l \in Launches, caller = "up", Pick(l) PROVE TypeOK'
  <2>1. ASSUME NEW p \in siblings[l], NEW why \in {"verified", "unverified"},
               Track(l, p, why), UNCHANGED sawOwn
        PROVE TypeOK'
    BY <1>6, <2>1 DEF Pick, Track, Goto
  <2>2. ASSUME Goto(l, "rules"), UNCHANGED <<locals, result>>, sawOwn' \in [Launches -> BOOLEAN]
        PROVE TypeOK'
    BY <1>6, <2>2 DEF Pick, Goto
  <2> QED
    BY <1>6, <2>1, <2>2 DEF Pick, Eligible
<1>7. ASSUME NEW l \in Launches, caller = "up", Rules(l) PROVE TypeOK'
  <2>1. boot[l] \in Pids
    BY <1>7 DEF Rules
  <2>2. ASSUME NEW why \in {"grace", "early", "deadline"}, Track(l, boot[l], why)
        PROVE TypeOK'
    BY <1>7, <2>1, <2>2 DEF Rules, Track, Goto
  <2>3. CASE /\ siblings' = [siblings EXCEPT ![l] = {}]
             /\ alive' = [alive EXCEPT ![l] = FALSE]
             /\ Goto(l, "alive")
             /\ UNCHANGED <<pre, time, result>>
    BY <1>7, <2>1, <2>3 DEF Rules, Goto
  <2> QED
    BY <1>7, <2>2, <2>3 DEF Rules
<1>8. ASSUME NEW l \in Launches, caller = "up", Bind(l) PROVE TypeOK'
  BY <1>8 DEF Bind, Running, Goto
<1>9. ASSUME NEW l \in Launches, caller = "up", Tick(l) PROVE TypeOK'
  BY <1>9 DEF Tick, Looping
<1>10. ASSUME NEW l \in Launches, caller = "up", StartEditor(l) PROVE TypeOK'
  BY <1>10 DEF StartEditor, Start, Unused, EditorsOf, Running
<1>11. ASSUME NEW p \in Pids, caller = "up", HumanStarts(p) PROVE TypeOK'
  BY <1>11 DEF HumanStarts, Start, Unused
<1>12. ASSUME NEW p \in Pids, caller = "up", ShowsWindow(p) PROVE TypeOK'
  BY <1>12 DEF ShowsWindow
<1>13. ASSUME NEW p \in Pids, caller = "up", Exits(p) PROVE TypeOK'
  BY <1>13 DEF Exits, Running
<1>14. ASSUME caller = "up", CallerDies PROVE TypeOK'
  BY <1>14 DEF CallerDies, Running
<1>15. CASE UNCHANGED vars
  BY <1>15 DEF vars
<1> QED
  BY <1>1, <1>2, <1>3, <1>4, <1>5, <1>6, <1>7, <1>8, <1>9, <1>10, <1>11, <1>12, <1>13, <1>14, <1>15 DEF Next, LaunchStep

\* A step gives no process a second owner.
LEMMA ProcStep == AdoptInv /\ [Next]_vars => ProcInv'
<1> SUFFICES ASSUME AdoptInv, [Next]_vars PROVE ProcInv'
  OBVIOUS
<1> USE DEF AdoptInv, TypeOK, ProcInv, Looping, procVars, locals, result, callerVars
<1>1. ASSUME NEW l \in Launches, caller = "up", Snapshot(l) PROVE ProcInv'
  BY <1>1 DEF Snapshot, Listing, Instances, Running, Goto
<1>2. ASSUME NEW l \in Launches, caller = "up", CreateProcess(l) PROVE ProcInv'
  BY <1>2 DEF CreateProcess, Start, Unused, Goto
<1>3. ASSUME NEW l \in Launches, caller = "up", ReadAlive(l) PROVE ProcInv'
  BY <1>3 DEF ReadAlive, Running, Goto
<1>4. ASSUME NEW l \in Launches, caller = "up", FastPath(l) PROVE ProcInv'
  BY <1>4 DEF FastPath, Track, Goto
<1>5. ASSUME NEW l \in Launches, caller = "up", List(l) PROVE ProcInv'
  BY <1>5 DEF List, Listing, Instances, Running, Goto
<1>6. ASSUME NEW l \in Launches, caller = "up", Pick(l) PROVE ProcInv'
  BY <1>6 DEF Pick, Eligible, Track, Goto
<1>7. ASSUME NEW l \in Launches, caller = "up", Rules(l) PROVE ProcInv'
  BY <1>7 DEF Rules, Settled, Failed, Alone, Track, Goto
<1>8. ASSUME NEW l \in Launches, caller = "up", Bind(l) PROVE ProcInv'
  BY <1>8 DEF Bind, Running, Goto
<1>9. ASSUME NEW l \in Launches, caller = "up", Tick(l) PROVE ProcInv'
  BY <1>9 DEF Tick, Looping
<1>10. ASSUME NEW l \in Launches, caller = "up", StartEditor(l) PROVE ProcInv'
  BY <1>10 DEF StartEditor, Start, Unused, EditorsOf, Running
<1>11. ASSUME NEW p \in Pids, caller = "up", HumanStarts(p) PROVE ProcInv'
  BY <1>11 DEF HumanStarts, Start, Unused
<1>12. ASSUME NEW p \in Pids, caller = "up", ShowsWindow(p) PROVE ProcInv'
  BY <1>12 DEF ShowsWindow
<1>13. ASSUME NEW p \in Pids, caller = "up", Exits(p) PROVE ProcInv'
  BY <1>13 DEF Exits, Running
<1>14. ASSUME caller = "up", CallerDies PROVE ProcInv'
  BY <1>14 DEF CallerDies, Running
<1>15. CASE UNCHANGED vars
  BY <1>15 DEF vars
<1> QED
  BY <1>1, <1>2, <1>3, <1>4, <1>5, <1>6, <1>7, <1>8, <1>9, <1>10, <1>11, <1>12, <1>13, <1>14, <1>15 DEF Next, LaunchStep

\* A step adds nothing to a search that ran before the launch.
LEMMA SearchStep == AdoptInv /\ [Next]_vars => SearchInv'
<1> SUFFICES ASSUME AdoptInv, [Next]_vars PROVE SearchInv'
  OBVIOUS
<1> USE DEF AdoptInv, TypeOK, ProcInv, SearchInv, Looping, procVars, locals, result, callerVars
<1>1. ASSUME NEW l \in Launches, caller = "up", Snapshot(l) PROVE SearchInv'
  BY <1>1 DEF Snapshot, Listing, Instances, Running, Goto
<1>2. ASSUME NEW l \in Launches, caller = "up", CreateProcess(l) PROVE SearchInv'
  BY <1>2 DEF CreateProcess, Start, Unused, Goto
<1>3. ASSUME NEW l \in Launches, caller = "up", ReadAlive(l) PROVE SearchInv'
  BY <1>3 DEF ReadAlive, Running, Goto
<1>4. ASSUME NEW l \in Launches, caller = "up", FastPath(l) PROVE SearchInv'
  BY <1>4 DEF FastPath, Track, Goto
<1>5. ASSUME NEW l \in Launches, caller = "up", List(l) PROVE SearchInv'
  BY <1>5 DEF List, Listing, Instances, Running, Goto
<1>6. ASSUME NEW l \in Launches, caller = "up", Pick(l) PROVE SearchInv'
  BY <1>6 DEF Pick, Eligible, Track, Goto
<1>7. ASSUME NEW l \in Launches, caller = "up", Rules(l) PROVE SearchInv'
  BY <1>7 DEF Rules, Settled, Failed, Alone, Track, Goto
<1>8. ASSUME NEW l \in Launches, caller = "up", Bind(l) PROVE SearchInv'
  BY <1>8 DEF Bind, Running, Goto
<1>9. ASSUME NEW l \in Launches, caller = "up", Tick(l) PROVE SearchInv'
  BY <1>9 DEF Tick, Looping
<1>10. ASSUME NEW l \in Launches, caller = "up", StartEditor(l) PROVE SearchInv'
  BY <1>10 DEF StartEditor, Start, Unused, EditorsOf, Running
<1>11. ASSUME NEW p \in Pids, caller = "up", HumanStarts(p) PROVE SearchInv'
  BY <1>11 DEF HumanStarts, Start, Unused
<1>12. ASSUME NEW p \in Pids, caller = "up", ShowsWindow(p) PROVE SearchInv'
  BY <1>12 DEF ShowsWindow
<1>13. ASSUME NEW p \in Pids, caller = "up", Exits(p) PROVE SearchInv'
  BY <1>13 DEF Exits, Running
<1>14. ASSUME caller = "up", CallerDies PROVE SearchInv'
  BY <1>14 DEF CallerDies, Running
<1>15. CASE UNCHANGED vars
  BY <1>15 DEF vars
<1> QED
  BY <1>1, <1>2, <1>3, <1>4, <1>5, <1>6, <1>7, <1>8, <1>9, <1>10, <1>11, <1>12, <1>13, <1>14, <1>15 DEF Next, LaunchStep

\* A step leaves no editor of a launched process that has ended out of sight.
LEMMA EndStep == AdoptInv /\ [Next]_vars => EndInv'
<1> SUFFICES ASSUME AdoptInv, [Next]_vars PROVE EndInv'
  OBVIOUS
<1> USE DEF AdoptInv, TypeOK, ProcInv, SearchInv, EndInv, Looping, procVars, locals, result, callerVars
<1>1. ASSUME NEW l \in Launches, caller = "up", Snapshot(l) PROVE EndInv'
  BY <1>1 DEF Snapshot, Listing, Instances, Running, Goto
<1>2. ASSUME NEW l \in Launches, caller = "up", CreateProcess(l) PROVE EndInv'
  BY <1>2 DEF CreateProcess, Start, Unused, Goto
<1>3. ASSUME NEW l \in Launches, caller = "up", ReadAlive(l) PROVE EndInv'
  <2>1. boot[l] \in Pids /\ app[boot[l]] # "none"
    BY <1>3 DEF ReadAlive
  <2>2. ~alive'[l] => app[boot[l]] = "gone"
    <3>1. alive'[l] = (boot[l] \in Running)
      BY <1>3 DEF ReadAlive
    <3>2. boot[l] \notin Running => app[boot[l]] = "gone"
      BY <2>1 DEF Running
    <3> QED
      BY <3>1, <3>2
  <2> QED
    BY <1>3, <2>1, <2>2 DEF ReadAlive, Goto
<1>4. ASSUME NEW l \in Launches, caller = "up", FastPath(l) PROVE EndInv'
  BY <1>4 DEF FastPath, Track, Goto
<1>5. ASSUME NEW l \in Launches, caller = "up", List(l) PROVE EndInv'
  BY <1>5 DEF List, Listing, Instances, Running, Goto
<1>6. ASSUME NEW l \in Launches, caller = "up", Pick(l) PROVE EndInv'
  BY <1>6 DEF Pick, Eligible, Track, Goto
<1>7. ASSUME NEW l \in Launches, caller = "up", Rules(l) PROVE EndInv'
  BY <1>7 DEF Rules, Settled, Failed, Alone, Track, Goto
<1>8. ASSUME NEW l \in Launches, caller = "up", Bind(l) PROVE EndInv'
  BY <1>8 DEF Bind, Running, Goto
<1>9. ASSUME NEW l \in Launches, caller = "up", Tick(l) PROVE EndInv'
  BY <1>9 DEF Tick, Looping
<1>10. ASSUME NEW l \in Launches, caller = "up", StartEditor(l) PROVE EndInv'
  BY <1>10 DEF StartEditor, Start, Unused, EditorsOf, Running
<1>11. ASSUME NEW p \in Pids, caller = "up", HumanStarts(p) PROVE EndInv'
  BY <1>11 DEF HumanStarts, Start, Unused
<1>12. ASSUME NEW p \in Pids, caller = "up", ShowsWindow(p) PROVE EndInv'
  BY <1>12 DEF ShowsWindow
<1>13. ASSUME NEW p \in Pids, caller = "up", Exits(p) PROVE EndInv'
  BY <1>13 DEF Exits, Running
<1>14. ASSUME caller = "up", CallerDies PROVE EndInv'
  BY <1>14 DEF CallerDies, Running
<1>15. CASE UNCHANGED vars
  BY <1>15 DEF vars
<1> QED
  BY <1>1, <1>2, <1>3, <1>4, <1>5, <1>6, <1>7, <1>8, <1>9, <1>10, <1>11, <1>12, <1>13, <1>14, <1>15 DEF Next, LaunchStep

\* A step reports no early exit that is not one.
LEMMA EarlyStep == AdoptInv /\ [Next]_vars => EarlyExitIsGenuine'
<1> SUFFICES ASSUME AdoptInv, [Next]_vars PROVE EarlyExitIsGenuine'
  OBVIOUS
<1> USE DEF AdoptInv, TypeOK, ProcInv, SearchInv, EndInv, EarlyExitIsGenuine, Looping, procVars, locals, result, callerVars
<1>1. ASSUME NEW l \in Launches, caller = "up", Snapshot(l) PROVE EarlyExitIsGenuine'
  BY <1>1 DEF Snapshot, Listing, Instances, Running, Goto
<1>2. ASSUME NEW l \in Launches, caller = "up", CreateProcess(l) PROVE EarlyExitIsGenuine'
  BY <1>2 DEF CreateProcess, Start, Unused, Goto
<1>3. ASSUME NEW l \in Launches, caller = "up", ReadAlive(l) PROVE EarlyExitIsGenuine'
  BY <1>3 DEF ReadAlive, Running, Goto
<1>4. ASSUME NEW l \in Launches, caller = "up", FastPath(l) PROVE EarlyExitIsGenuine'
  BY <1>4 DEF FastPath, Track, Goto
<1>5. ASSUME NEW l \in Launches, caller = "up", List(l) PROVE EarlyExitIsGenuine'
  BY <1>5 DEF List, Listing, Instances, Running, Goto
<1>6. ASSUME NEW l \in Launches, caller = "up", Pick(l) PROVE EarlyExitIsGenuine'
  BY <1>6 DEF Pick, Eligible, Track, Goto
<1>7. ASSUME NEW l \in Launches, caller = "up", Rules(l) PROVE EarlyExitIsGenuine'
  BY <1>7 DEF Rules, Settled, Failed, Alone, Track, Goto
<1>8. ASSUME NEW l \in Launches, caller = "up", Bind(l) PROVE EarlyExitIsGenuine'
  BY <1>8 DEF Bind, Running, Goto
<1>9. ASSUME NEW l \in Launches, caller = "up", Tick(l) PROVE EarlyExitIsGenuine'
  BY <1>9 DEF Tick, Looping
<1>10. ASSUME NEW l \in Launches, caller = "up", StartEditor(l) PROVE EarlyExitIsGenuine'
  BY <1>10 DEF StartEditor, Start, Unused, EditorsOf, Running
<1>11. ASSUME NEW p \in Pids, caller = "up", HumanStarts(p) PROVE EarlyExitIsGenuine'
  BY <1>11 DEF HumanStarts, Start, Unused
<1>12. ASSUME NEW p \in Pids, caller = "up", ShowsWindow(p) PROVE EarlyExitIsGenuine'
  BY <1>12 DEF ShowsWindow
<1>13. ASSUME NEW p \in Pids, caller = "up", Exits(p) PROVE EarlyExitIsGenuine'
  BY <1>13 DEF Exits, Running
<1>14. ASSUME caller = "up", CallerDies PROVE EarlyExitIsGenuine'
  BY <1>14 DEF CallerDies, Running
<1>15. CASE UNCHANGED vars
  BY <1>15 DEF vars
<1> QED
  BY <1>1, <1>2, <1>3, <1>4, <1>5, <1>6, <1>7, <1>8, <1>9, <1>10, <1>11, <1>12, <1>13, <1>14, <1>15 DEF Next, LaunchStep

\* A step tracks no process of others.
LEMMA OwnStep == AdoptInv /\ [Next]_vars => TracksOwn'
<1> SUFFICES ASSUME AdoptInv, [Next]_vars PROVE TracksOwn'
  OBVIOUS
<1> USE DEF AdoptInv, TypeOK, ProcInv, SearchInv, TracksOwn, Looping, procVars, locals, result, callerVars
<1>1. ASSUME NEW l \in Launches, caller = "up", Snapshot(l) PROVE TracksOwn'
  BY <1>1 DEF Snapshot, Listing, Instances, Running, Goto
<1>2. ASSUME NEW l \in Launches, caller = "up", CreateProcess(l) PROVE TracksOwn'
  BY <1>2 DEF CreateProcess, Start, Unused, Goto
<1>3. ASSUME NEW l \in Launches, caller = "up", ReadAlive(l) PROVE TracksOwn'
  BY <1>3 DEF ReadAlive, Running, Goto
<1>4. ASSUME NEW l \in Launches, caller = "up", FastPath(l) PROVE TracksOwn'
  BY <1>4 DEF FastPath, Track, Goto
<1>5. ASSUME NEW l \in Launches, caller = "up", List(l) PROVE TracksOwn'
  BY <1>5 DEF List, Listing, Instances, Running, Goto
<1>6. ASSUME NEW l \in Launches, caller = "up", Pick(l) PROVE TracksOwn'
  <2> SUFFICES ASSUME UniqueArgs, Unreadable = {}, NEW m \in Launches, tracked'[m] # NoPid
                PROVE  owner'[tracked'[m]] = m
    BY DEF TracksOwn
  <2>1. CASE UNCHANGED <<tracked>>
    BY <1>6, <2>1 DEF Pick
  <2>2. ASSUME NEW p \in Eligible(l, {}), tracked' = [tracked EXCEPT ![l] = p]
        PROVE owner'[tracked'[m]] = m
    <3>1. p \in Pids /\ owner[p] \in Launches \cup {Human}
      BY <2>2 DEF Eligible
    <3>2. Args[l] \subseteq Cmdline(owner[p])
      BY <2>2 DEF Eligible
    <3>3. owner[p] = l
      BY <3>1, <3>2 DEF UniqueArgs
    <3> QED
      BY <1>6, <2>2, <3>3 DEF Pick
  <2>3. siblings[l] \cap Unreadable = {}
    OBVIOUS
  <2>4. PICK unread \in SUBSET (siblings[l] \cap Unreadable) :
          \/ UNCHANGED <<locals, result>>
          \/ \E p \in Eligible(l, unread), why \in {"verified", "unverified"} : Track(l, p, why)
    BY <1>6 DEF Pick
  <2>5. unread = {}
    BY <2>3, <2>4
  <2> QED
    BY <2>1, <2>2, <2>4, <2>5 DEF Track
<1>7. ASSUME NEW l \in Launches, caller = "up", Rules(l) PROVE TracksOwn'
  BY <1>7 DEF Rules, Settled, Failed, Alone, Track, Goto
<1>8. ASSUME NEW l \in Launches, caller = "up", Bind(l) PROVE TracksOwn'
  BY <1>8 DEF Bind, Running, Goto
<1>9. ASSUME NEW l \in Launches, caller = "up", Tick(l) PROVE TracksOwn'
  BY <1>9 DEF Tick, Looping
<1>10. ASSUME NEW l \in Launches, caller = "up", StartEditor(l) PROVE TracksOwn'
  BY <1>10 DEF StartEditor, Start, Unused, EditorsOf, Running
<1>11. ASSUME NEW p \in Pids, caller = "up", HumanStarts(p) PROVE TracksOwn'
  BY <1>11 DEF HumanStarts, Start, Unused
<1>12. ASSUME NEW p \in Pids, caller = "up", ShowsWindow(p) PROVE TracksOwn'
  BY <1>12 DEF ShowsWindow
<1>13. ASSUME NEW p \in Pids, caller = "up", Exits(p) PROVE TracksOwn'
  BY <1>13 DEF Exits, Running
<1>14. ASSUME caller = "up", CallerDies PROVE TracksOwn'
  BY <1>14 DEF CallerDies, Running
<1>15. CASE UNCHANGED vars
  BY <1>15 DEF vars
<1> QED
  BY <1>1, <1>2, <1>3, <1>4, <1>5, <1>6, <1>7, <1>8, <1>9, <1>10, <1>11, <1>12, <1>13, <1>14, <1>15 DEF Next, LaunchStep

\* A step keeps in the job what it tracks, and nothing else.
LEMMA JobStep == AdoptInv /\ [Next]_vars => JobInv'
<1> SUFFICES ASSUME AdoptInv, [Next]_vars PROVE JobInv'
  OBVIOUS
<1> USE DEF AdoptInv, TypeOK, ProcInv, SearchInv, TracksOwn, JobInv, Looping, UniqueArgs, Cmdline, procVars, locals, result, callerVars
<1>1. ASSUME NEW l \in Launches, caller = "up", Snapshot(l) PROVE JobInv'
  BY <1>1 DEF Snapshot, Listing, Instances, Running, Goto
<1>2. ASSUME NEW l \in Launches, caller = "up", CreateProcess(l) PROVE JobInv'
  BY <1>2 DEF CreateProcess, Start, Unused, Goto
<1>3. ASSUME NEW l \in Launches, caller = "up", ReadAlive(l) PROVE JobInv'
  BY <1>3 DEF ReadAlive, Running, Goto
<1>4. ASSUME NEW l \in Launches, caller = "up", FastPath(l) PROVE JobInv'
  BY <1>4 DEF FastPath, Track, Goto
<1>5. ASSUME NEW l \in Launches, caller = "up", List(l) PROVE JobInv'
  BY <1>5 DEF List, Listing, Instances, Running, Goto
<1>6. ASSUME NEW l \in Launches, caller = "up", Pick(l) PROVE JobInv'
  BY <1>6 DEF Pick, Eligible, Track, Goto
<1>7. ASSUME NEW l \in Launches, caller = "up", Rules(l) PROVE JobInv'
  BY <1>7 DEF Rules, Settled, Failed, Alone, Track, Goto
<1>8. ASSUME NEW l \in Launches, caller = "up", Bind(l) PROVE JobInv'
  BY <1>8 DEF Bind, Running, Goto
<1>9. ASSUME NEW l \in Launches, caller = "up", Tick(l) PROVE JobInv'
  BY <1>9 DEF Tick, Looping
<1>10. ASSUME NEW l \in Launches, caller = "up", StartEditor(l) PROVE JobInv'
  BY <1>10 DEF StartEditor, Start, Unused, EditorsOf, Running
<1>11. ASSUME NEW p \in Pids, caller = "up", HumanStarts(p) PROVE JobInv'
  BY <1>11 DEF HumanStarts, Start, Unused
<1>12. ASSUME NEW p \in Pids, caller = "up", ShowsWindow(p) PROVE JobInv'
  BY <1>12 DEF ShowsWindow
<1>13. ASSUME NEW p \in Pids, caller = "up", Exits(p) PROVE JobInv'
  BY <1>13 DEF Exits, Running
<1>14. ASSUME caller = "up", CallerDies PROVE JobInv'
  BY <1>14 DEF CallerDies, Running
<1>15. CASE UNCHANGED vars
  BY <1>15 DEF vars
<1> QED
  BY <1>1, <1>2, <1>3, <1>4, <1>5, <1>6, <1>7, <1>8, <1>9, <1>10, <1>11, <1>12, <1>13, <1>14, <1>15 DEF Next, LaunchStep

\* A step that is the caller's death kills what it should.
LEMMA CallerStep == AdoptInv /\ [Next]_vars => CallerTakesItsOwn'
<1> SUFFICES ASSUME AdoptInv, [Next]_vars PROVE CallerTakesItsOwn'
  OBVIOUS
<1> USE DEF AdoptInv, TypeOK, ProcInv, SearchInv, TracksOwn, JobInv, CallerTakesItsOwn, Looping, UniqueArgs, Cmdline, procVars, locals, result, callerVars
<1>1. ASSUME NEW l \in Launches, caller = "up", Snapshot(l) PROVE CallerTakesItsOwn'
  BY <1>1 DEF Snapshot, Listing, Instances, Running, Goto
<1>2. ASSUME NEW l \in Launches, caller = "up", CreateProcess(l) PROVE CallerTakesItsOwn'
  BY <1>2 DEF CreateProcess, Start, Unused, Goto
<1>3. ASSUME NEW l \in Launches, caller = "up", ReadAlive(l) PROVE CallerTakesItsOwn'
  BY <1>3 DEF ReadAlive, Running, Goto
<1>4. ASSUME NEW l \in Launches, caller = "up", FastPath(l) PROVE CallerTakesItsOwn'
  BY <1>4 DEF FastPath, Track, Goto
<1>5. ASSUME NEW l \in Launches, caller = "up", List(l) PROVE CallerTakesItsOwn'
  BY <1>5 DEF List, Listing, Instances, Running, Goto
<1>6. ASSUME NEW l \in Launches, caller = "up", Pick(l) PROVE CallerTakesItsOwn'
  BY <1>6 DEF Pick, Eligible, Track, Goto
<1>7. ASSUME NEW l \in Launches, caller = "up", Rules(l) PROVE CallerTakesItsOwn'
  BY <1>7 DEF Rules, Settled, Failed, Alone, Track, Goto
<1>8. ASSUME NEW l \in Launches, caller = "up", Bind(l) PROVE CallerTakesItsOwn'
  BY <1>8 DEF Bind, Running, Goto
<1>9. ASSUME NEW l \in Launches, caller = "up", Tick(l) PROVE CallerTakesItsOwn'
  BY <1>9 DEF Tick, Looping
<1>10. ASSUME NEW l \in Launches, caller = "up", StartEditor(l) PROVE CallerTakesItsOwn'
  BY <1>10 DEF StartEditor, Start, Unused, EditorsOf, Running
<1>11. ASSUME NEW p \in Pids, caller = "up", HumanStarts(p) PROVE CallerTakesItsOwn'
  BY <1>11 DEF HumanStarts, Start, Unused
<1>12. ASSUME NEW p \in Pids, caller = "up", ShowsWindow(p) PROVE CallerTakesItsOwn'
  BY <1>12 DEF ShowsWindow
<1>13. ASSUME NEW p \in Pids, caller = "up", Exits(p) PROVE CallerTakesItsOwn'
  BY <1>13 DEF Exits, Running
<1>14. ASSUME caller = "up", CallerDies PROVE CallerTakesItsOwn'
  BY <1>14 DEF CallerDies, Running
<1>15. CASE UNCHANGED vars
  BY <1>15 DEF vars
<1> QED
  BY <1>1, <1>2, <1>3, <1>4, <1>5, <1>6, <1>7, <1>8, <1>9, <1>10, <1>11, <1>12, <1>13, <1>14, <1>15 DEF Next, LaunchStep

\* The inductive invariant holds in every reachable state.
THEOREM Invariance == Spec => []AdoptInv
<1>1. Init => AdoptInv
  <2> SUFFICES ASSUME Init PROVE AdoptInv
    OBVIOUS
  <2>1. TypeOK
    BY DEF Init, TypeOK, Looping
  <2>2. ProcInv /\ SearchInv /\ EndInv
    BY DEF Init, ProcInv, SearchInv, EndInv
  <2>3. JobInv /\ EarlyExitIsGenuine /\ TracksOwn /\ CallerTakesItsOwn
    BY DEF Init, JobInv, EarlyExitIsGenuine, TracksOwn, CallerTakesItsOwn
  <2> QED
    BY <2>1, <2>2, <2>3 DEF AdoptInv
<1>2. AdoptInv /\ [Next]_vars => AdoptInv'
  BY TypeStep, ProcStep, SearchStep, EndStep, EarlyStep, OwnStep, JobStep, CallerStep DEF AdoptInv
<1> QED
  BY <1>1, <1>2, PTL DEF Spec

\* Every variable keeps its range, and a launch that has returned tracks a process.
THEOREM TypeCorrect == Spec => []TypeOK
<1>1. AdoptInv => TypeOK
  BY DEF AdoptInv
<1> QED
  BY <1>1, Invariance, PTL

\* Where listings do not fail, an early exit is reported only when nothing of the launch
\* is left.
THEOREM EarlyExits == Spec => []EarlyExitIsGenuine
<1>1. AdoptInv => EarlyExitIsGenuine
  BY DEF AdoptInv
<1> QED
  BY <1>1, Invariance, PTL

\* With unique arguments and readable command lines a launch tracks a process of its
\* own.
THEOREM OwnTracked == Spec => []TracksOwn
<1>1. AdoptInv => TracksOwn
  BY DEF AdoptInv
<1> QED
  BY <1>1, Invariance, PTL

\* The caller's death kills what its launches that are not detached track, and nothing
\* that is a person's or detached.
THEOREM CallersDeath == Spec => []CallerTakesItsOwn
<1>1. AdoptInv => CallerTakesItsOwn
  BY DEF AdoptInv
<1> QED
  BY <1>1, Invariance, PTL

\* A process that ran before the launch is tracked only where the snapshot before the
\* launch missed it.
THEOREM NewTracked == Spec => TracksNew
<1>1. AdoptInv /\ [Next]_vars =>
        [\A l \in Launches : OldPids \subseteq pre[l] /\ tracked'[l] # tracked[l] =>
           tracked'[l] \notin OldPids]_vars
  <2> SUFFICES ASSUME AdoptInv, Next, NEW m \in Launches,
                      OldPids \subseteq pre[m], tracked'[m] # tracked[m]
               PROVE  tracked'[m] \notin OldPids
    BY DEF vars
  <2> USE DEF AdoptInv, TypeOK, ProcInv, SearchInv, procVars, locals, result, callerVars
  <2>1. PICK l \in Launches : FastPath(l) \/ Pick(l) \/ Rules(l)
    BY DEF Next, LaunchStep, Snapshot, CreateProcess, ReadAlive, List, Bind, Tick, StartEditor,
           HumanStarts, ShowsWindow, Exits, CallerDies
  <2>2. \A p \in siblings[l] : p \notin pre[l]
    OBVIOUS
  <2>3. boot[l] \in Pids => owner[boot[l]] = l
    OBVIOUS
  <2>4. pc[l] \in Looping => boot[l] \notin OldPids
    BY <2>3
  <2>5. CASE FastPath(l)
    BY <2>4, <2>5 DEF FastPath, Track, Looping
  <2>6. CASE Pick(l)
    BY <2>2, <2>6 DEF Pick, Eligible, Track
  <2>7. CASE Rules(l)
    BY <2>4, <2>7 DEF Rules, Track, Looping
  <2> QED
    BY <2>1, <2>5, <2>6, <2>7
<1> QED
  BY <1>1, Invariance, PTL DEF Spec, TracksNew

\* A launch whose arguments can be found in the command line it made (no quotes, and
\* for a shell-open no more than was passed on) and that looks at its own editor,
\* adopts it at once.
THEOREM OwnAdopted ==
  ASSUME \A l \in Launches : Args[l] \subseteq Cmdline(l)
  PROVE  Spec => []OwnNeverPassedOver
<1> DEFINE NonePassed == Unreadable = {} => \A l \in Launches : ~sawOwn[l]
<1>1. Init => NonePassed
  BY DEF Init
<1>2. TypeOK /\ NonePassed /\ [Next]_vars => NonePassed'
  <2> SUFFICES ASSUME TypeOK, NonePassed, [Next]_vars, Unreadable = {}, NEW m \in Launches
               PROVE  ~sawOwn'[m]
    OBVIOUS
  <2>1. ASSUME NEW l \in Launches, Pick(l) PROVE ~sawOwn'[m]
    <3>1. PICK unread \in SUBSET (siblings[l] \cap Unreadable) :
            \/ /\ Eligible(l, unread) = {}
               /\ sawOwn' = [sawOwn EXCEPT ![l] =
                    @ \/ \E p \in siblings[l] \ unread : app[p] = "windowed" /\ owner[p] = l]
            \/ UNCHANGED sawOwn
      BY <2>1 DEF Pick
    <3>2. unread = {}
      BY <3>1
    <3>3. ASSUME NEW p \in siblings[l], app[p] = "windowed", owner[p] = l
          PROVE  p \in Eligible(l, unread)
      BY <3>2, <3>3 DEF Eligible
    <3> QED
      BY <3>1, <3>3 DEF TypeOK
  <2>2. CASE UNCHANGED sawOwn
    BY <2>2
  <2> QED
    BY <2>1, <2>2 DEF Next, LaunchStep, Snapshot, CreateProcess, ReadAlive, FastPath, List, Rules,
       Bind, Tick, StartEditor, HumanStarts, ShowsWindow, Exits, CallerDies, vars, callerVars
<1>3. NonePassed => OwnNeverPassedOver
  BY DEF OwnNeverPassedOver
<1> QED
  BY <1>1, <1>2, <1>3, TypeCorrect, PTL DEF Spec
-------------------------------------------------------------------------------
\* Whether arguments are unique is no matter of state.
LEMMA UniqueForGood == UniqueArgs' = UniqueArgs
BY DEF UniqueArgs, Cmdline

\* What the abstract launch has no name for changes nothing of it.
LEMMA SamePromise ==
  ASSUME UNCHANGED <<owner, tracked>>, \A l \in Launches : Outcome(l)' = Outcome(l)
  PROVE  UNCHANGED Promise!vars
BY UniqueForGood DEF Promise!vars, Sure

\* A process of one more owner is the abstract start of it.
LEMMA StartStarts ==
  ASSUME ProcInv, NEW o \in Launches \cup {Human}, NEW p \in Pids, Start(o, p),
         UNCHANGED tracked, \A l \in Launches : Outcome(l)' = Outcome(l)
  PROVE  Promise!Next
<1>1. owner[p] = NoOwner /\ owner' = [owner EXCEPT ![p] = o]
  BY DEF Start, Unused, ProcInv
<1>2. {m \in Launches : Sure(m)}' = {m \in Launches : Sure(m)}
  BY UniqueForGood DEF Sure
<1>3. Promise!Start(o, p)
  BY <1>1, <1>2 DEF Promise!Start
<1> QED
  BY <1>3 DEF Promise!Next

\* What adopt_real_process returns is the abstract naming of a process that somebody
\* started, the launch's own where the arguments decide it.
LEMMA TrackNames ==
  ASSUME AdoptInv, AdoptInv', NEW l \in Launches, NEW p \in Pids, NEW why,
         Track(l, p, why), pc[l] \notin {"bind", "done", "failed"}, UNCHANGED owner
  PROVE  Promise!Next
<1>1. /\ tracked \in [Launches -> Pids \cup {NoPid}]
      /\ pc' = [pc EXCEPT ![l] = "bind"] /\ DOMAIN pc = Launches
      /\ tracked' = [tracked EXCEPT ![l] = p] /\ tracked[l] = NoPid
  BY DEF Track, Goto, AdoptInv, TypeOK, SearchInv
<1>2. Outcome(l) = "pending" /\ \A m \in Launches : Outcome(m)' = Outcome(m)
  BY <1>1 DEF Outcome
<1>3. tracked'[l] = p /\ p # NoPid
  BY <1>1
<1>4. owner[p] # NoOwner
  BY <1>3 DEF AdoptInv, SearchInv
<1>5. Sure(l)' => owner[p] = l
  BY <1>3, UniqueForGood DEF Sure, AdoptInv, TracksOwn
<1>6. ~Sure(l) /\ \A m \in Launches \ {l} : Sure(m)' = Sure(m)
  BY <1>1, UniqueForGood DEF Sure
<1> DEFINE sure == {m \in Launches : Sure(m)}
<1>7. sure' = sure \/ (owner[p] = l /\ sure' = sure \cup {l})
  <2>1. CASE Sure(l)'
    <3>1. sure' = sure \cup {l}
      BY <1>6, <2>1
    <3> QED
      BY <1>5, <2>1, <3>1
  <2>2. CASE ~Sure(l)'
    <3>1. sure' = sure
      BY <1>6, <2>2
    <3> QED
      BY <3>1
  <2> QED
    BY <2>1, <2>2
<1> HIDE DEF sure
<1>8. Promise!Name(l, p)
  BY <1>1, <1>2, <1>4, <1>7 DEF Promise!Name, sure
<1>9. Promise!NameOnly(l, p)
  BY <1>2, <1>8 DEF Promise!NameOnly
<1> QED
  BY <1>9 DEF Promise!Next

\* A call that returns tracks a process exactly if it returns a Child.
LEMMA CallReturns ==
  ASSUME TypeOK, NEW l \in Launches, NEW there \in {"done", "failed"},
         pc[l] \notin {"done", "failed"}, Goto(l, there), UNCHANGED <<owner, tracked>>,
         tracked[l] = NoPid <=> there = "failed"
  PROVE  Promise!Next
<1>1. Outcome(l) = "pending" /\ Outcome(l)' = IF tracked[l] = NoPid THEN "error" ELSE "child"
  BY DEF TypeOK, Outcome, Goto
<1>2. \A m \in Launches \ {l} : Outcome(m)' = Outcome(m)
  BY DEF TypeOK, Outcome, Goto
<1>3. {m \in Launches : Sure(m)}' = {m \in Launches : Sure(m)}
  BY UniqueForGood DEF Sure
<1>4. Promise!Return(l)
  BY <1>1, <1>2, <1>3 DEF Promise!Return
<1> QED
  BY <1>4 DEF Promise!Next

\* Every step of the launches, the processes and the caller's death is a step of the
\* abstract launch, or none.
LEMMA PromiseStep == AdoptInv /\ AdoptInv' /\ [Next]_vars => [Promise!Next]_(Promise!vars)
<1> SUFFICES ASSUME AdoptInv, AdoptInv', [Next]_vars PROVE [Promise!Next]_(Promise!vars)
  OBVIOUS
<1> USE DEF procVars, locals, result, callerVars
<1>1. TypeOK /\ ProcInv
  BY DEF AdoptInv
<1>2. ASSUME UNCHANGED <<pc, tracked>> PROVE \A l \in Launches : Outcome(l)' = Outcome(l)
  BY <1>2 DEF Outcome
<1>3. ASSUME UNCHANGED <<owner, tracked>>, NEW l \in Launches, NEW there, Goto(l, there),
             pc[l] \notin {"done", "failed"}, there \notin {"done", "failed"}
      PROVE  UNCHANGED Promise!vars
  <2>1. \A m \in Launches : Outcome(m)' = Outcome(m)
    BY <1>1, <1>3 DEF TypeOK, Outcome, Goto
  <2> QED
    BY <1>3, <2>1, SamePromise
<1>4. ASSUME NEW l \in Launches, Goto(l, "failed"), pc[l] \in {"idle", "create"},
             UNCHANGED <<owner, tracked>>
      PROVE  Promise!Next
  <2>1. tracked[l] = NoPid
    BY <1>4 DEF AdoptInv, SearchInv
  <2> QED
    BY <1>1, <1>4, <2>1, CallReturns
<1>5. ASSUME NEW l \in Launches, Snapshot(l) PROVE [Promise!Next]_(Promise!vars)
  <2>1. pc[l] = "idle" /\ UNCHANGED <<owner, tracked>> /\ (Goto(l, "create") \/ Goto(l, "failed"))
    BY <1>5 DEF Snapshot
  <2> QED
    BY <1>3, <1>4, <2>1
<1>6. ASSUME NEW l \in Launches, CreateProcess(l) PROVE [Promise!Next]_(Promise!vars)
  <2>1. pc[l] = "create" /\ UNCHANGED tracked
    BY <1>6 DEF CreateProcess
  <2>2. CASE Goto(l, "failed") /\ UNCHANGED owner
    BY <1>4, <2>1, <2>2
  <2>3. ASSUME NEW p \in Pids, Start(l, p), Goto(l, "alive") PROVE Promise!Next
    <3>1. \A m \in Launches : Outcome(m)' = Outcome(m)
      BY <1>1, <2>1, <2>3 DEF TypeOK, Outcome, Goto
    <3> QED
      BY <1>1, <2>1, <2>3, <3>1, StartStarts
  <2> QED
    BY <1>6, <2>2, <2>3 DEF CreateProcess
<1>7. ASSUME NEW l \in Launches, ReadAlive(l) \/ List(l) PROVE UNCHANGED Promise!vars
  BY <1>3, <1>7 DEF ReadAlive, List
<1>8. ASSUME NEW l \in Launches, FastPath(l) PROVE [Promise!Next]_(Promise!vars)
  <2>1. pc[l] = "window" /\ UNCHANGED owner /\ boot[l] \in Pids
    BY <1>1, <1>8 DEF FastPath, TypeOK, Looping
  <2>2. Track(l, boot[l], "window") \/ (Goto(l, "list") /\ UNCHANGED tracked)
    BY <1>8 DEF FastPath
  <2> QED
    BY <1>3, <2>1, <2>2, TrackNames
<1>9. ASSUME NEW l \in Launches, Pick(l) PROVE [Promise!Next]_(Promise!vars)
  <2>1. pc[l] = "pick" /\ UNCHANGED owner
    BY <1>9 DEF Pick
  <2>2. \/ Goto(l, "rules") /\ UNCHANGED tracked
        \/ \E p \in siblings[l], why \in {"unverified", "verified"} : Track(l, p, why)
    BY <1>9 DEF Pick, Eligible
  <2>3. siblings[l] \subseteq Pids
    BY <1>1 DEF TypeOK
  <2> QED
    BY <1>3, <2>1, <2>2, <2>3, TrackNames
<1>10. ASSUME NEW l \in Launches, Rules(l) PROVE [Promise!Next]_(Promise!vars)
  <2>1. pc[l] = "rules" /\ UNCHANGED owner /\ boot[l] \in Pids
    BY <1>1, <1>10 DEF Rules, TypeOK, Looping
  <2>2. \/ Goto(l, "alive") /\ UNCHANGED tracked
        \/ \E why \in {"grace", "early", "deadline"} : Track(l, boot[l], why)
    BY <1>10 DEF Rules
  <2> QED
    BY <1>3, <2>1, <2>2, TrackNames
<1>11. ASSUME NEW l \in Launches, Bind(l) PROVE Promise!Next
  <2>1. pc[l] = "bind" /\ Goto(l, "done") /\ UNCHANGED <<owner, tracked>>
    BY <1>11 DEF Bind
  <2>2. tracked[l] # NoPid
    BY <1>1, <2>1 DEF TypeOK
  <2> QED
    BY <1>1, <2>1, <2>2, CallReturns
<1>12. ASSUME NEW l \in Launches, Tick(l) PROVE UNCHANGED Promise!vars
  BY <1>2, <1>12, SamePromise DEF Tick
<1>13. ASSUME NEW l \in Launches, StartEditor(l) PROVE Promise!Next
  BY <1>1, <1>2, <1>13, StartStarts DEF StartEditor
<1>14. ASSUME NEW p \in Pids, HumanStarts(p) PROVE Promise!Next
  BY <1>1, <1>2, <1>14, StartStarts DEF HumanStarts
<1>15. ASSUME NEW p \in Pids, ShowsWindow(p) \/ Exits(p) PROVE UNCHANGED Promise!vars
  BY <1>2, <1>15, SamePromise DEF ShowsWindow, Exits
<1>16. CASE CallerDies
  BY <1>2, <1>16, SamePromise DEF CallerDies
<1>17. CASE UNCHANGED vars
  BY <1>2, <1>17, SamePromise DEF vars
<1> QED
  BY <1>5, <1>6, <1>7, <1>8, <1>9, <1>10, <1>11, <1>12, <1>13, <1>14, <1>15, <1>16, <1>17
     DEF Next, LaunchStep

\* Adoption implements what Launch promises: a call tracks one process, once and before it
\* returns, and returns a Child exactly then; where arguments are unique and command lines
\* readable it is its own.
THEOREM Refinement == Spec => ImplementsLaunch
<1>1. Init => Promise!Init
  <2> SUFFICES ASSUME Init PROVE Promise!Init
    OBVIOUS
  <2>1. owner \in [Pids -> {Human} \cup {NoOwner}]
    BY DEF Init
  <2>2. \A l \in Launches : ~Sure(l) /\ Outcome(l) = "pending"
    BY DEF Init, Sure, Outcome
  <2> QED
    BY <2>1, <2>2 DEF Init, Promise!Init
<1>2. AdoptInv /\ AdoptInv' /\ [Next]_vars => [Promise!Next]_(Promise!vars)
  BY PromiseStep
<1> QED
  BY <1>1, <1>2, Invariance, PTL DEF Spec, ImplementsLaunch, Promise!Spec
===============================================================================

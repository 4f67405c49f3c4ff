--------------------------- MODULE SpawnMacOSProofs ---------------------------
(***************************************************************************)
(* Proofs about SpawnMacOS for any number of launches, processes and pids  *)
(* and any bounds on the attempts: the lock of a process is its section,   *)
(* no two launches of a process claim one instance, and a claim made by    *)
(* argv is the launch's own app.                                           *)
(***************************************************************************)
EXTENDS SpawnMacOS, TLAPS

\* The three ways an attempt ends: a claim of a new instance, a claim of the
\* fallback of an earlier attempt, or no claim yet.
ScanClaims(l) ==
  \E p \in Candidates(l), byArgv \in BOOLEAN :
    /\ Claim(l, p, byArgv)
    /\ byArgv => Args[l] # <<>> /\ ArgvContainsArgs(Argv(owner[p]), Args[l])

ScanFallsBack(l) ==
  /\ fallback[l] # NoPid
  /\ Claim(l, fallback[l], FALSE)

ScanMisses(l) ==
  /\ Goto(l, "poll")
  /\ UNCHANGED <<before, attempt, claim, verified>>
  /\ \E seen \in Candidates(l) \cup {fallback[l]} :
       fallback' = [fallback EXCEPT ![l] = seen]

LEMMA ScanCases ==
  ASSUME TypeOK, NEW l \in Launches, Scan(l)
  PROVE  ScanClaims(l) \/ ScanFallsBack(l) \/ ScanMisses(l)
<1>1. PICK readable \in SUBSET Candidates(l) :
        \/ \E p \in Candidates(l) : Claim(l, p, FALSE)
        \/ /\ Args[l] # <<>>
           /\ \E p \in Matching(l, readable) : Claim(l, p, TRUE)
        \/ \E seen \in IF Candidates(l) = {} THEN {fallback[l]} ELSE Candidates(l) :
             \/ seen # NoPid /\ Claim(l, seen, FALSE)
             \/ /\ fallback' = [fallback EXCEPT ![l] = seen]
                /\ Goto(l, "poll")
                /\ UNCHANGED <<before, attempt, claim, verified>>
  BY DEF Scan
<1>2. CASE \E p \in Candidates(l) : Claim(l, p, FALSE)
  BY <1>2 DEF ScanClaims
<1>3. CASE /\ Args[l] # <<>>
           /\ \E p \in Matching(l, readable) : Claim(l, p, TRUE)
  BY <1>3 DEF ScanClaims, Matching
<1>4. ASSUME NEW seen \in IF Candidates(l) = {} THEN {fallback[l]} ELSE Candidates(l),
             seen # NoPid, Claim(l, seen, FALSE)
      PROVE  ScanClaims(l) \/ ScanFallsBack(l)
  BY <1>4 DEF ScanClaims, ScanFallsBack
<1>5. ASSUME NEW seen \in IF Candidates(l) = {} THEN {fallback[l]} ELSE Candidates(l),
             fallback' = [fallback EXCEPT ![l] = seen],
             Goto(l, "poll"),
             UNCHANGED <<before, attempt, claim, verified>>
      PROVE  ScanMisses(l)
  BY <1>5 DEF ScanMisses
<1> QED
  BY <1>1, <1>2, <1>3, <1>4, <1>5

\* Every variable of SpawnMacOS stays in its range.
THEOREM TypeCorrect == Spec => []TypeOK
<1>1. Init => TypeOK
  BY LaunchAssumption, PidAssumption, AttemptAssumption
     DEF Init, TypeOK, InLock, Returned, Starters
<1>2. TypeOK /\ [Next]_vars => TypeOK'
  <2> SUFFICES ASSUME TypeOK, [Next]_vars PROVE TypeOK'
    OBVIOUS
  <2> USE AttemptAssumption
      DEF TypeOK, launchVars, search, result, InLock, Returned, Goto, Unlock, EndSearch
  <2>1. ASSUME NEW l \in Launches, Call(l) PROVE TypeOK'
    BY <2>1 DEF Call
  <2>2. ASSUME NEW l \in Launches, Acquire(l) PROVE TypeOK'
    BY <2>2 DEF Acquire
  <2>3. ASSUME NEW l \in Launches, Snapshot(l) PROVE TypeOK'
    BY <2>3 DEF Snapshot, Listed
  <2>4. ASSUME NEW l \in Launches, SpawnHelper(l) PROVE TypeOK'
    <3>1. CASE Goto(l, "scan") /\ UNCHANGED <<lock, search>>
      BY <2>4, <3>1 DEF SpawnHelper
    <3>2. CASE Goto(l, "failed") /\ Unlock(l) /\ EndSearch(l) /\ UNCHANGED helper
      <4>1. /\ before' \in [Launches -> SUBSET Pids]
            /\ attempt' \in [Launches -> 0 .. MaxAttempts - 1]
            /\ fallback' \in [Launches -> Pids \cup {NoPid}]
        BY <3>2
      <4> QED  BY <2>4, <3>2, <4>1 DEF SpawnHelper
    <3> QED  BY <2>4, <3>1, <3>2 DEF SpawnHelper
  <2>5. ASSUME NEW l \in Launches, Scan(l) PROVE TypeOK'
    <3>1. Candidates(l) \subseteq Pids
      BY DEF Candidates, Listed
    <3>2. UNCHANGED <<app, owner, lock, handle, helper>>
      BY <2>5 DEF Scan
    <3>3. sawOwn' \in [Launches -> BOOLEAN]
      BY <2>5 DEF Scan
    <3>4. CASE ScanClaims(l)
      BY <3>1, <3>2, <3>3, <3>4 DEF ScanClaims, Claim
    <3>5. CASE ScanFallsBack(l)
      BY <3>2, <3>3, <3>5 DEF ScanFallsBack, Claim
    <3>6. CASE ScanMisses(l)
      BY <3>1, <3>2, <3>3, <3>6 DEF ScanMisses
    <3> QED  BY <2>5, <3>4, <3>5, <3>6, ScanCases
  <2>6. ASSUME NEW l \in Launches, Poll(l) PROVE TypeOK'
    BY <2>6 DEF Poll
  <2>7. ASSUME NEW l \in Launches, GiveUp(l) PROVE TypeOK'
    BY <2>7 DEF GiveUp
  <2>8. ASSUME NEW l \in Launches, Finish(l) PROVE TypeOK'
    BY <2>8 DEF Finish
  <2>9. ASSUME NEW l \in Launches, Request(l) \/ TimeOut(l) PROVE TypeOK'
    BY <2>9 DEF Request, TimeOut
  <2>10. ASSUME NEW l \in Launches, Receive(l) PROVE TypeOK'
    BY <2>10 DEF Receive
  <2>11. ASSUME NEW l \in Launches, HelperOpens(l) PROVE TypeOK'
    BY <2>11 DEF HelperOpens, Start, Starters
  <2>12. ASSUME NEW l \in Launches, HelperExits(l) \/ Complete(l) PROVE TypeOK'
    BY <2>12 DEF HelperExits, Complete
  <2>13. ASSUME NEW o \in Others, NEW p \in Pids, OtherStarts(o, p) PROVE TypeOK'
    BY <2>13 DEF OtherStarts, Start, Starters
  <2>14. ASSUME NEW p \in Pids, AppListed(p) \/ AppExits(p) PROVE TypeOK'
    BY <2>14 DEF AppListed, AppExits
  <2>15. CASE UNCHANGED vars
    BY <2>15 DEF vars
  <2> QED
    BY <2>1, <2>2, <2>3, <2>4, <2>5, <2>6, <2>7, <2>8, <2>9, <2>10, <2>11,
       <2>12, <2>13, <2>14, <2>15 DEF Next, LaunchStep
<1>3. QED
  BY <1>1, <1>2, PTL DEF Spec
-------------------------------------------------------------------------------
LEMMA LockStep ==
  ASSUME TypeOK, LockIsSection, [Next]_vars
  PROVE  LockIsSection'
<1> USE LaunchAssumption
    DEF TypeOK, LockIsSection, InLock, Returned, launchVars, search, result, Goto, Unlock
<1>1. ASSUME UNCHANGED lock,
             \A l \in Launches : pc'[l] \in InLock <=> pc[l] \in InLock
      PROVE  LockIsSection'
  BY <1>1
<1>2. ASSUME NEW l \in Launches, pc[l] \in InLock,
             \A m \in Launches \ {l} : pc'[m] = pc[m],
             pc'[l] \notin InLock, Unlock(l)
      PROVE  LockIsSection'
  <2>1. ASSUME NEW m \in Launches, ProcessOf[m] = ProcessOf[l] PROVE pc'[m] \notin InLock
    <3>1. CASE m = l
      BY <1>2, <3>1
    <3>2. CASE m # l
      <4>1. ProcessOf[l] \in Processes
        OBVIOUS
      <4>2. pc[m] \notin InLock
        BY <1>2, <2>1, <3>2, <4>1
      <4> QED  BY <1>2, <3>2, <4>2
    <3> QED  BY <3>1, <3>2
  <2>2. /\ lock'[ProcessOf[l]] = FALSE
        /\ \A q \in Processes \ {ProcessOf[l]} : lock'[q] = lock[q]
    BY <1>2
  <2>3. ASSUME NEW q \in Processes
        PROVE  /\ lock'[q] <=> \E k \in Launches : ProcessOf[k] = q /\ pc'[k] \in InLock
               /\ \A k, m \in Launches :
                    /\ ProcessOf[k] = q /\ ProcessOf[m] = q
                    /\ pc'[k] \in InLock /\ pc'[m] \in InLock
                    => k = m
    <3>1. CASE q = ProcessOf[l]
      BY <2>1, <2>2, <3>1
    <3>2. CASE q # ProcessOf[l]
      <4>1. \A k \in Launches : ProcessOf[k] = q => pc'[k] = pc[k]
        BY <1>2, <3>2
      <4>2. lock'[q] <=> \E k \in Launches : ProcessOf[k] = q /\ pc'[k] \in InLock
        <5>1. lock'[q] = lock[q]
          BY <2>2, <3>2
        <5>2. lock[q] <=> \E k \in Launches : ProcessOf[k] = q /\ pc[k] \in InLock
          OBVIOUS
        <5>3. (\E k \in Launches : ProcessOf[k] = q /\ pc'[k] \in InLock)
                <=> \E k \in Launches : ProcessOf[k] = q /\ pc[k] \in InLock
          BY <4>1
        <5> QED  BY <5>1, <5>2, <5>3
      <4> QED  BY <4>1, <4>2
    <3> QED  BY <3>1, <3>2
  <2> QED  BY <2>3
<1>3. ASSUME NEW l \in Launches, Call(l) PROVE LockIsSection'
  BY <1>1, <1>3 DEF Call
<1>4. ASSUME NEW l \in Launches, Acquire(l) PROVE LockIsSection'
  BY <1>4 DEF Acquire
<1>5. ASSUME NEW l \in Launches, Snapshot(l) PROVE LockIsSection'
  BY <1>1, <1>5 DEF Snapshot
<1>6. ASSUME NEW l \in Launches, SpawnHelper(l) PROVE LockIsSection'
  <2>1. CASE Goto(l, "scan") /\ UNCHANGED lock
    BY <1>1, <1>6, <2>1 DEF SpawnHelper
  <2>2. CASE Goto(l, "failed") /\ Unlock(l)
    BY <1>2, <1>6, <2>2 DEF SpawnHelper
  <2> QED  BY <1>6, <2>1, <2>2 DEF SpawnHelper
<1>7. ASSUME NEW l \in Launches, Scan(l) PROVE LockIsSection'
  <2>1. pc[l] = "scan" /\ lock' = lock
    BY <1>7 DEF Scan
  <2>2. pc' = [pc EXCEPT ![l] = "claimed"] \/ pc' = [pc EXCEPT ![l] = "poll"]
    BY <1>7, ScanCases DEF ScanClaims, ScanFallsBack, ScanMisses, Claim
  <2> QED  BY <1>1, <2>1, <2>2
<1>8. ASSUME NEW l \in Launches, Poll(l) PROVE LockIsSection'
  BY <1>1, <1>8 DEF Poll
<1>9. ASSUME NEW l \in Launches, GiveUp(l) PROVE LockIsSection'
  BY <1>2, <1>9 DEF GiveUp
<1>10. ASSUME NEW l \in Launches, Finish(l) PROVE LockIsSection'
  BY <1>2, <1>10 DEF Finish
<1>11. ASSUME NEW l \in Launches, HelperOpens(l) \/ HelperExits(l) \/ Complete(l)
       PROVE  LockIsSection'
  BY <1>1, <1>11 DEF HelperOpens, HelperExits, Complete
<1>12. ASSUME NEW l \in Launches, Request(l) \/ Receive(l) \/ TimeOut(l) PROVE LockIsSection'
  BY <1>1, <1>12 DEF Request, Receive, TimeOut
<1>13. ASSUME NEW p \in Pids,
              (\E o \in Others : OtherStarts(o, p)) \/ AppListed(p) \/ AppExits(p)
       PROVE  LockIsSection'
  BY <1>1, <1>13 DEF OtherStarts, AppListed, AppExits
<1>14. CASE UNCHANGED vars
  BY <1>1, <1>14 DEF vars
<1> QED
  BY <1>3, <1>4, <1>5, <1>6, <1>7, <1>8, <1>9, <1>10, <1>11, <1>12, <1>13, <1>14
     DEF Next, LaunchStep

LEMMA SeenStep ==
  ASSUME TypeOK, SeenInv, [Next]_vars
  PROVE  SeenInv'
<1> USE LaunchAssumption, PidAssumption
    DEF TypeOK, SeenInv, SeenBy, launchVars, search, result, Goto, EndSearch, Piped, Starters,
        InLock
<1>1. ASSUME NEW l \in Launches,
             NEW there \in {"request", "waiting", "lock", "snapshot", "spawn", "scan",
                            "poll", "stderr", "failed"},
             claim[l] = NoPid, Goto(l, there),
             fallback' = fallback \/ fallback' = [fallback EXCEPT ![l] = NoPid],
             IF there \in {"request", "waiting"} THEN l \in Simple
                                                ELSE there = "failed" \/ l \in Piped,
             there \in {"request", "waiting", "lock", "snapshot", "spawn"} => fallback[l] = NoPid,
             UNCHANGED <<app, owner, claim, verified>>
      PROVE  SeenInv'
  BY <1>1
<1>2. ASSUME NEW l \in Launches, Call(l) PROVE SeenInv'
  BY <1>1, <1>2 DEF Call
<1>3. ASSUME NEW l \in Launches, Acquire(l) PROVE SeenInv'
  BY <1>1, <1>3 DEF Acquire
<1>4. ASSUME NEW l \in Launches, Snapshot(l) PROVE SeenInv'
  BY <1>1, <1>4 DEF Snapshot
<1>5. ASSUME NEW l \in Launches, SpawnHelper(l) PROVE SeenInv'
  BY <1>1, <1>5 DEF SpawnHelper
<1>6. ASSUME NEW l \in Launches, Poll(l) PROVE SeenInv'
  BY <1>1, <1>6 DEF Poll
<1>7. ASSUME NEW l \in Launches, GiveUp(l) PROVE SeenInv'
  BY <1>1, <1>7 DEF GiveUp
<1>8. ASSUME NEW l \in Launches, Finish(l) PROVE SeenInv'
  BY <1>8 DEF Finish
<1>9. ASSUME NEW l \in Launches, Request(l) \/ TimeOut(l) PROVE SeenInv'
  BY <1>1, <1>9 DEF Request, TimeOut
<1>10. ASSUME NEW l \in Launches, Receive(l) PROVE SeenInv'
  <2>1. CASE Goto(l, "failed") /\ UNCHANGED result
    BY <1>1, <1>10, <2>1 DEF Receive
  <2>2. ASSUME NEW p \in Pids, owner[p] = l,
               claim' = [claim EXCEPT ![l] = p],
               verified' = [verified EXCEPT ![l] = TRUE],
               Goto(l, "done")
        PROVE  SeenInv'
    <3>1. UNCHANGED <<app, owner, fallback>>
      BY <1>10 DEF Receive
    <3>2. app[p] # "none" /\ l \notin Piped
      BY <1>10, <2>2 DEF Receive
    <3> QED  BY <2>2, <3>1, <3>2
  <2> QED  BY <1>10, <2>1, <2>2 DEF Receive
<1>11. ASSUME NEW l \in Launches, Scan(l) PROVE SeenInv'
  <2>1. UNCHANGED <<app, owner>> /\ pc[l] = "scan" /\ claim[l] = NoPid
    BY <1>11 DEF Scan
  <2>2. \A p \in Candidates(l) : p \in Pids /\ app[p] = "listed"
    BY DEF Candidates, Listed
  <2>3. ASSUME NEW p \in Pids, app[p] \in {"listed", "gone"}, NEW b \in BOOLEAN, Claim(l, p, b),
               b => Args[l] # <<>> /\ ArgvContainsArgs(Argv(owner[p]), Args[l])
        PROVE  SeenInv'
    <3>1. /\ claim'[l] = p /\ verified'[l] = b /\ fallback'[l] = NoPid /\ pc'[l] = "claimed"
          /\ \A k \in Launches \ {l} : /\ claim'[k] = claim[k] /\ verified'[k] = verified[k]
                                       /\ fallback'[k] = fallback[k] /\ pc'[k] = pc[k]
      BY <2>3 DEF Claim
    <3>2. SeenBy(l)'
      BY <2>1, <2>3, <3>1
    <3>3. ASSUME NEW k \in Launches \ {l} PROVE SeenBy(k)'
      BY <2>1, <3>1
    <3> QED  BY <2>1, <3>2, <3>3
  <2>4. CASE ScanClaims(l)
    BY <2>2, <2>3, <2>4 DEF ScanClaims
  <2>5. CASE ScanFallsBack(l)
    BY <2>3, <2>5 DEF ScanFallsBack
  <2>6. CASE ScanMisses(l)
    BY <2>1, <2>2, <2>6 DEF ScanMisses
  <2> QED  BY <1>11, <2>4, <2>5, <2>6, ScanCases
<1>12. ASSUME NEW o \in Starters, NEW p \in Pids, Start(o, p), UNCHANGED launchVars
       PROVE  SeenInv'
  BY <1>12 DEF Start
<1>13. ASSUME NEW l \in Launches, HelperOpens(l) \/ HelperExits(l) \/ Complete(l)
       PROVE  SeenInv'
  BY <1>12, <1>13 DEF HelperOpens, HelperExits, Complete
<1>14. ASSUME NEW o \in Others, NEW p \in Pids, OtherStarts(o, p) PROVE SeenInv'
  BY <1>12, <1>14 DEF OtherStarts
<1>15. ASSUME NEW p \in Pids, AppListed(p) \/ AppExits(p) PROVE SeenInv'
  <2>1. /\ UNCHANGED <<owner, pc, claim, fallback, verified>>
        /\ app[p] # "none" /\ app'[p] \in {"listed", "gone"}
        /\ \A r \in Pids \ {p} : app'[r] = app[r]
    BY <1>15 DEF AppListed, AppExits
  <2>2. \A r \in Pids : /\ app[r] = "none" <=> app'[r] = "none"
                        /\ app[r] \in {"listed", "gone"} => app'[r] \in {"listed", "gone"}
    BY <2>1
  <2>3. ASSUME NEW l \in Launches PROVE SeenBy(l)'
    BY <2>1, <2>2
  <2> QED  BY <2>1, <2>2, <2>3
<1>16. CASE UNCHANGED vars
  BY <1>16 DEF vars
<1> QED
  BY <1>2, <1>3, <1>4, <1>5, <1>6, <1>7, <1>8, <1>9, <1>10, <1>11, <1>13, <1>14,
     <1>15, <1>16 DEF Next, LaunchStep

\* A claim lands on an instance that no other launch of the process has claimed:
\* whatever they claimed is in this launch's snapshot or gone, and what it claims
\* is neither.
LEMMA ApartStep ==
  ASSUME TypeOK, LockIsSection, SeenInv, ApartInv, [Next]_vars
  PROVE  ApartInv'
<1> USE PidAssumption DEF launchVars, search, result, Goto, EndSearch
<1> DEFINE Searching(m) == pc[m] \in {"spawn", "scan", "poll"}
<1>1. ASSUME UNCHANGED claim,
             \A p \in Pids : app[p] = "gone" => app'[p] = "gone",
             \A m \in Launches : Searching(m)' =>
               Searching(m) /\ before'[m] = before[m] /\ fallback'[m] = fallback[m]
      PROVE  ApartInv'
  BY <1>1 DEF ApartInv, OneClaimPerProcess, TypeOK, Piped
<1>2. ASSUME NEW l \in Launches, Snapshot(l) PROVE ApartInv'
  <2>1. /\ UNCHANGED <<app, claim, fallback>> /\ fallback[l] = NoPid
        /\ before' = [before EXCEPT ![l] = Listed]
        /\ pc' = [pc EXCEPT ![l] = "spawn"]
    BY <1>2 DEF Snapshot, SeenInv, SeenBy
  <2>2. OneClaimPerProcess'
    BY <2>1 DEF ApartInv, OneClaimPerProcess
  <2>3. ASSUME NEW k \in Piped, NEW m \in Piped, k # m, ProcessOf[k] = ProcessOf[m],
               claim'[k] # NoPid, Searching(m)'
        PROVE  /\ claim'[k] \in before'[m] \/ app'[claim'[k]] = "gone"
               /\ fallback'[m] # claim'[k]
    <3>1. CASE m = l
      <4>1. claim[k] \in Listed \/ app[claim[k]] = "gone"
        BY <2>1, <2>3 DEF SeenInv, SeenBy, Listed, TypeOK, Piped
      <4> QED  BY <2>1, <2>3, <3>1, <4>1 DEF TypeOK, Piped
    <3>2. CASE m # l
      BY <2>1, <2>3, <3>2 DEF ApartInv, TypeOK, Piped
    <3> QED  BY <3>1, <3>2
  <2> QED  BY <2>2, <2>3 DEF ApartInv
<1>3. ASSUME NEW l \in Launches, pc[l] = "scan", NEW p \in Pids, NEW b \in BOOLEAN, Claim(l, p, b),
             UNCHANGED app,
             \/ p \in Candidates(l)
             \/ p = fallback[l] /\ fallback[l] # NoPid
      PROVE  ApartInv'
  <2>1. /\ claim'[l] = p /\ pc'[l] = "claimed"
        /\ \A k \in Launches \ {l} : /\ claim'[k] = claim[k] /\ pc'[k] = pc[k]
                                     /\ fallback'[k] = fallback[k] /\ before'[k] = before[k]
    BY <1>3 DEF Claim, TypeOK
  <2>2. ASSUME l \in Piped, NEW k \in Piped \ {l}, ProcessOf[k] = ProcessOf[l], claim[k] # NoPid
        PROVE  claim[k] # p
    BY <1>3, <2>2 DEF ApartInv, Candidates, Listed
  <2>3. OneClaimPerProcess'
    BY <2>1, <2>2 DEF ApartInv, OneClaimPerProcess, Piped
  <2>4. ASSUME NEW m \in Launches \ {l}, ProcessOf[m] = ProcessOf[l]
        PROVE  ~Searching(m)
    <3>1. ProcessOf[l] \in Processes
      BY LaunchAssumption
    <3> QED  BY <1>3, <2>4, <3>1 DEF LockIsSection, InLock
  <2>5. ASSUME NEW k \in Piped, NEW m \in Piped, k # m, ProcessOf[k] = ProcessOf[m],
               claim'[k] # NoPid, Searching(m)'
        PROVE  /\ claim'[k] \in before'[m] \/ app'[claim'[k]] = "gone"
               /\ fallback'[m] # claim'[k]
    <3>1. m # l
      BY <2>1, <2>5
    <3>2. k # l
      BY <2>1, <2>4, <2>5, <3>1 DEF Piped
    <3> QED  BY <1>3, <2>1, <2>5, <3>1, <3>2 DEF ApartInv, Piped
  <2> QED  BY <2>3, <2>5 DEF ApartInv
<1>4. ASSUME NEW l \in Launches, Scan(l) PROVE ApartInv'
  <2>1. UNCHANGED app /\ pc[l] = "scan"
    BY <1>4 DEF Scan
  <2>2. CASE ScanClaims(l)
    <3>1. PICK p \in Candidates(l), b \in BOOLEAN : Claim(l, p, b)
      BY <2>2 DEF ScanClaims
    <3>2. p \in Pids
      BY DEF Candidates, Listed
    <3> QED  BY <1>3, <2>1, <3>1, <3>2
  <2>3. CASE ScanFallsBack(l)
    <3>1. fallback[l] \in Pids
      BY <2>3 DEF ScanFallsBack, TypeOK
    <3> QED  BY <1>3, <2>1, <2>3, <3>1 DEF ScanFallsBack
  <2>4. CASE ScanMisses(l)
    <3>1. PICK seen \in Candidates(l) \cup {fallback[l]} : fallback' = [fallback EXCEPT ![l] = seen]
      BY <2>4 DEF ScanMisses
    <3>2. UNCHANGED <<claim, before>> /\ pc' = [pc EXCEPT ![l] = "poll"]
      BY <2>4 DEF ScanMisses
    <3>3. ASSUME l \in Piped, NEW k \in Piped, k # l, ProcessOf[k] = ProcessOf[l], claim[k] # NoPid
          PROVE  seen # claim[k]
      BY <2>1, <3>3 DEF ApartInv, Candidates, Listed
    <3>4. OneClaimPerProcess'
      BY <3>2 DEF ApartInv, OneClaimPerProcess
    <3>5. ASSUME NEW k \in Piped, NEW m \in Piped, k # m, ProcessOf[k] = ProcessOf[m],
                 claim'[k] # NoPid, Searching(m)'
          PROVE  /\ claim'[k] \in before'[m] \/ app'[claim'[k]] = "gone"
                 /\ fallback'[m] # claim'[k]
      <4>1. CASE m = l
        BY <2>1, <3>1, <3>2, <3>3, <3>5, <4>1 DEF ApartInv, TypeOK, Piped
      <4>2. CASE m # l
        BY <2>1, <3>1, <3>2, <3>5, <4>2 DEF ApartInv, TypeOK, Piped
      <4> QED  BY <4>1, <4>2
    <3> QED  BY <3>4, <3>5 DEF ApartInv
  <2> QED  BY <1>4, <2>2, <2>3, <2>4, ScanCases
<1>5. ASSUME NEW l \in Launches, Call(l) PROVE ApartInv'
  BY <1>1, <1>5 DEF Call, TypeOK
<1>6. ASSUME NEW l \in Launches, Acquire(l) PROVE ApartInv'
  BY <1>1, <1>6 DEF Acquire, TypeOK
<1>7. ASSUME NEW l \in Launches, SpawnHelper(l) PROVE ApartInv'
  BY <1>1, <1>7 DEF SpawnHelper, TypeOK
<1>8. ASSUME NEW l \in Launches, Poll(l) PROVE ApartInv'
  BY <1>1, <1>8 DEF Poll, TypeOK
<1>9. ASSUME NEW l \in Launches, GiveUp(l) \/ Finish(l) PROVE ApartInv'
  BY <1>1, <1>9 DEF GiveUp, Finish, TypeOK
<1>10. ASSUME NEW l \in Launches, Request(l) \/ TimeOut(l) PROVE ApartInv'
  BY <1>1, <1>10 DEF Request, TimeOut, TypeOK
<1>11. ASSUME NEW l \in Launches, Receive(l) PROVE ApartInv'
  <2>1. l \notin Piped
    BY <1>11 DEF Receive, SeenInv, SeenBy, Piped
  <2>2. UNCHANGED <<app, before, fallback>>
    BY <1>11 DEF Receive
  <2>3. \A k \in Launches \ {l} : claim'[k] = claim[k] /\ pc'[k] = pc[k]
    BY <1>11 DEF Receive, TypeOK
  <2> QED  BY <2>1, <2>2, <2>3 DEF ApartInv, OneClaimPerProcess, Piped
<1>12. ASSUME NEW o \in Starters, NEW p \in Pids, Start(o, p), UNCHANGED launchVars
       PROVE  ApartInv'
  BY <1>1, <1>12 DEF Start, TypeOK
<1>13. ASSUME NEW l \in Launches, HelperOpens(l) PROVE ApartInv'
  BY <1>1, <1>12, <1>13 DEF HelperOpens, Starters
<1>14. ASSUME NEW l \in Launches, HelperExits(l) \/ Complete(l) PROVE ApartInv'
  BY <1>1, <1>14 DEF HelperExits, Complete
<1>15. ASSUME NEW o \in Others, NEW p \in Pids, OtherStarts(o, p) PROVE ApartInv'
  BY <1>12, <1>15 DEF OtherStarts, Starters
<1>16. ASSUME NEW p \in Pids, AppListed(p) \/ AppExits(p) PROVE ApartInv'
  BY <1>1, <1>16 DEF AppListed, AppExits, TypeOK
<1>17. CASE UNCHANGED vars
  BY <1>1, <1>17 DEF vars
<1> QED
  BY <1>2, <1>4, <1>5, <1>6, <1>7, <1>8, <1>9, <1>10, <1>11, <1>13, <1>14,
     <1>15, <1>16, <1>17 DEF Next, LaunchStep

\* The invariant of the claim loop.
THEOREM Invariance == Spec => []ClaimInv
<1>1. Init => ClaimInv
  <2> SUFFICES ASSUME Init PROVE ClaimInv
    OBVIOUS
  <2>1. LockIsSection
    BY DEF Init, LockIsSection, InLock
  <2>2. SeenInv
    BY LaunchAssumption, PidAssumption DEF Init, SeenInv, SeenBy, InLock
  <2>3. ApartInv
    BY DEF Init, ApartInv, OneClaimPerProcess, Piped
  <2> QED  BY <2>1, <2>2, <2>3 DEF ClaimInv
<1>2. TypeOK /\ ClaimInv /\ [Next]_vars => ClaimInv'
  BY LockStep, SeenStep, ApartStep DEF ClaimInv
<1>3. QED
  BY <1>1, <1>2, TypeCorrect, PTL DEF Spec

\* Two launches of one process never claim the same instance.
THEOREM ClaimsApart == Spec => []OneClaimPerProcess
<1>1. ClaimInv => OneClaimPerProcess
  BY DEF ClaimInv, ApartInv
<1>2. QED
  BY <1>1, Invariance, PTL

\* SPAWN_PIPED_LOCK is held exactly in the section, by one launch, and no way out
\* of spawn_piped keeps it.
THEOREM SectionIsLocked == Spec => []LockIsSection
<1>1. ClaimInv => LockIsSection
  BY DEF ClaimInv
<1>2. QED
  BY <1>1, Invariance, PTL

\* With launcher-unique arguments a claim made by argv is the launch's own app, and
\* with any arguments so is the one the completion handler named.
THEOREM ArgvFindsOwn == Spec => []VerifiedClaimIsOwn
<1>1. TypeOK /\ ClaimInv => VerifiedClaimIsOwn
  <2> SUFFICES ASSUME TypeOK, ClaimInv, NEW l \in Launches, verified[l],
                      l \in Simple \/ UniqueArgs, owner[claim[l]] # l
               PROVE  FALSE
    BY DEF VerifiedClaimIsOwn
  <2>1. /\ claim[l] \in Pids /\ app[claim[l]] # "none"
        /\ l \in Piped /\ Args[l] # <<>>
        /\ ArgvContainsArgs(Argv(owner[claim[l]]), Args[l])
    BY DEF TypeOK, ClaimInv, SeenInv, SeenBy
  <2>2. owner[claim[l]] \in Starters
    BY <2>1 DEF ClaimInv, SeenInv, TypeOK
  <2> QED  BY <2>1, <2>2 DEF UniqueArgs, Piped
<1>2. QED
  BY <1>1, TypeCorrect, Invariance, PTL
-------------------------------------------------------------------------------
\* The arguments are a window of the argv they were passed in.
LEMMA OwnArgvMatches ==
  ASSUME NEW l \in Launches
  PROVE  ArgvContainsArgs(Argv(l), Args[l])
<1> DEFINE s == Args[l]
<1>1. s \in Seq(Word \cup {Exe}) /\ <<Exe>> \in Seq(Word \cup {Exe})
  BY LaunchAssumption
<1> HIDE DEF s
<1>2. Len(<<Exe>> \o s) = 1 + Len(s) /\ Len(s) \in Nat
  BY <1>1
<1>3. \A k \in 1 .. Len(s) : (<<Exe>> \o s)[2 + k - 1] = s[k]
  BY <1>1, <1>2
<1>4. CASE s = <<>>
  BY <1>4 DEF ArgvContainsArgs, s
<1>5. CASE s # <<>>
  <2>1. 2 \in 1 .. Len(<<Exe>> \o s) /\ 2 + Len(s) - 1 <= Len(<<Exe>> \o s)
    BY <1>1, <1>2, <1>5
  <2>2. \E i \in 1 .. Len(<<Exe>> \o s) :
          /\ i + Len(s) - 1 <= Len(<<Exe>> \o s)
          /\ \A k \in 1 .. Len(s) : (<<Exe>> \o s)[i + k - 1] = s[k]
    BY <1>3, <2>1
  <2> QED  BY <2>2 DEF ArgvContainsArgs, Argv, s
<1> QED  BY <1>4, <1>5

\* A claim stands, and so does the owner of what was claimed.
LEMMA ClaimStands ==
  ASSUME TypeOK, SeenInv, [Next]_vars, NEW l \in Launches, claim[l] # NoPid
  PROVE  claim'[l] = claim[l] /\ owner'[claim[l]] = owner[claim[l]]
<1> USE DEF TypeOK, launchVars, search, result
<1>1. /\ claim[l] \in Pids /\ app[claim[l]] # "none"
      /\ pc[l] \in {"claimed", "done"}
  BY DEF SeenInv, SeenBy
<1>2. ASSUME NEW m \in Launches,
             Call(m) \/ Acquire(m) \/ Snapshot(m) \/ SpawnHelper(m) \/ Poll(m) \/ GiveUp(m) \/ Finish(m)
               \/ Request(m) \/ TimeOut(m) \/ HelperExits(m) \/ Complete(m)
      PROVE  UNCHANGED <<claim, owner>>
  BY <1>2 DEF Call, Acquire, Snapshot, SpawnHelper, Poll, GiveUp, Finish, Request, TimeOut,
              HelperExits, Complete
<1>3. ASSUME NEW m \in Launches, Scan(m)
      PROVE  claim'[l] = claim[l] /\ UNCHANGED owner
  <2>1. m # l /\ UNCHANGED owner
    BY <1>1, <1>3 DEF Scan
  <2> QED
    BY <1>3, <2>1, ScanCases DEF ScanClaims, ScanFallsBack, ScanMisses, Claim
<1>4. ASSUME NEW m \in Launches, Receive(m)
      PROVE  claim'[l] = claim[l] /\ UNCHANGED owner
  BY <1>1, <1>4 DEF Receive
<1>5. ASSUME NEW o \in Starters, NEW p \in Pids, Start(o, p)
      PROVE  owner'[claim[l]] = owner[claim[l]]
  BY <1>1, <1>5 DEF Start
<1>6. ASSUME NEW m \in Launches, HelperOpens(m)
      PROVE  UNCHANGED claim /\ owner'[claim[l]] = owner[claim[l]]
  BY <1>5, <1>6 DEF HelperOpens, Starters
<1>7. ASSUME NEW o \in Others, NEW p \in Pids, OtherStarts(o, p)
      PROVE  UNCHANGED claim /\ owner'[claim[l]] = owner[claim[l]]
  BY <1>5, <1>7 DEF OtherStarts, Starters
<1>8. ASSUME NEW p \in Pids, AppListed(p) \/ AppExits(p)
      PROVE  UNCHANGED <<claim, owner>>
  BY <1>8 DEF AppListed, AppExits
<1>9. CASE UNCHANGED vars
  BY <1>9 DEF vars
<1> QED
  BY <1>2, <1>3, <1>4, <1>6, <1>7, <1>8, <1>9 DEF Next, LaunchStep

\* With launcher-unique arguments, an attempt that reads the argv of the launch's own
\* app claims it.
LEMMA ScanFindsOwn ==
  ASSUME TypeOK, SeenInv, UniqueArgs, NEW l \in Piped, Args[l] # <<>>, Scan(l), ~sawOwn[l], sawOwn'[l]
  PROVE  claim'[l] # NoPid /\ owner'[claim'[l]] = l
<1> l \in Launches
  BY DEF Piped
<1>1. PICK readable \in SUBSET Candidates(l) :
        /\ \E p \in readable : owner[p] = l
        /\ \/ \E p \in Matching(l, readable) : Claim(l, p, TRUE)
           \/ Matching(l, readable) = {}
  BY DEF Scan, TypeOK
<1>2. PICK p \in readable : owner[p] = l
  BY <1>1
<1>3. p \in Matching(l, readable)
  BY <1>2, OwnArgvMatches DEF Matching
<1>4. PICK r \in Matching(l, readable) : Claim(l, r, TRUE)
  BY <1>1, <1>3
<1>5. r \in Pids /\ app[r] = "listed" /\ ArgvContainsArgs(Argv(owner[r]), Args[l])
  BY <1>4 DEF Matching, Candidates, Listed
<1>6. owner[r] \in Starters
  BY <1>5 DEF SeenInv, TypeOK
<1>7. owner[r] = l
  BY <1>5, <1>6 DEF UniqueArgs
<1> QED
  BY <1>4, <1>5, <1>7, PidAssumption DEF Claim, TypeOK, Scan

\* Only an attempt sees an app.
LEMMA SawOwnByScan ==
  ASSUME TypeOK, [Next]_vars, NEW l \in Launches, ~sawOwn[l], sawOwn'[l]
  PROVE  Scan(l)
<1> USE DEF TypeOK, launchVars, search, result
<1>1. ASSUME NEW m \in Launches, ~Scan(m), LaunchStep(m) \/ Call(m)
      PROVE  UNCHANGED sawOwn
  BY <1>1 DEF LaunchStep, Call, Acquire, Snapshot, SpawnHelper, Poll, GiveUp, Finish, Request,
              TimeOut, Receive
<1>2. ASSUME NEW m \in Launches, Scan(m)
      PROVE  m = l
  BY <1>2 DEF Scan
<1>3. ASSUME NEW m \in Launches, HelperOpens(m) \/ HelperExits(m) \/ Complete(m)
      PROVE  UNCHANGED sawOwn
  BY <1>3 DEF HelperOpens, HelperExits, Complete
<1>4. ASSUME NEW p \in Pids, (\E o \in Others : OtherStarts(o, p)) \/ AppListed(p) \/ AppExits(p)
      PROVE  UNCHANGED sawOwn
  BY <1>4 DEF OtherStarts, AppListed, AppExits
<1>5. CASE UNCHANGED vars
  BY <1>5 DEF vars
<1> QED
  BY <1>1, <1>2, <1>3, <1>4, <1>5 DEF Next

\* With launcher-unique arguments a launch whose scan read the argv of its own app
\* has claimed that app: no other candidate and no fallback comes before it.
THEOREM OwnClaimed == Spec => []OwnNeverPassedOver
<1>1. Init => OwnNeverPassedOver
  BY DEF Init, OwnNeverPassedOver, Piped
<1>2. TypeOK /\ ClaimInv /\ OwnNeverPassedOver /\ [Next]_vars => OwnNeverPassedOver'
  <2> SUFFICES ASSUME TypeOK, ClaimInv, OwnNeverPassedOver, [Next]_vars, UniqueArgs,
                      NEW l \in Piped, sawOwn'[l], Args[l] # <<>>
               PROVE  claim'[l] # NoPid /\ owner'[claim'[l]] = l
    BY DEF OwnNeverPassedOver
  <2> l \in Launches /\ SeenInv
    BY DEF Piped, ClaimInv
  <2>1. CASE sawOwn[l]
    BY <2>1, ClaimStands DEF OwnNeverPassedOver
  <2>2. CASE ~sawOwn[l]
    BY <2>2, SawOwnByScan, ScanFindsOwn
  <2> QED  BY <2>1, <2>2
<1>3. QED
  BY <1>1, <1>2, TypeCorrect, Invariance, PTL DEF Spec
-------------------------------------------------------------------------------
\* Whether arguments are unique is no matter of state.
LEMMA UniqueForGood == UniqueArgs' = UniqueArgs
BY DEF UniqueArgs, Argv, ArgvContainsArgs, Starters, Piped

\* What the abstract launch has no name for changes nothing of it.
LEMMA SamePromise ==
  ASSUME UNCHANGED <<owner, claim, verified>>, \A l \in Launches : Outcome(l)' = Outcome(l)
  PROVE  UNCHANGED Promise!vars
BY UniqueForGood DEF Promise!vars, Sure

\* A claim is the abstract naming of a process that somebody started, that no launch which
\* is kept apart has named, and that is the launch's own if it is verified.
LEMMA ClaimNames ==
  ASSUME TypeOK, ClaimInv, ClaimInv', VerifiedClaimIsOwn', UNCHANGED owner,
         NEW l \in Launches, NEW p \in Pids, NEW b \in BOOLEAN,
         Outcome(l) = "pending", claim[l] = NoPid, owner[p] # NoOwner,
         claim' = [claim EXCEPT ![l] = p], verified' = [verified EXCEPT ![l] = b]
  PROVE  Promise!Name(l, p)
<1> USE DEF TypeOK
<1>1. claim'[l] = p /\ \A m \in Launches \ {l} : claim'[m] = claim[m]
  OBVIOUS
<1>2. ASSUME NEW m \in Piped, l \in Piped, l # m, ProcessOf[l] = ProcessOf[m]
      PROVE  claim[m] # p
  BY <1>1, <1>2, PidAssumption DEF Piped, ClaimInv, ApartInv, OneClaimPerProcess
<1>3. ~Sure(l)
  BY DEF Sure, ClaimInv, SeenInv, SeenBy
<1>4. Sure(l)' => owner[p] = l
  BY <1>1, UniqueForGood DEF Sure, VerifiedClaimIsOwn
<1>5. \A m \in Launches \ {l} : Sure(m)' = Sure(m)
  BY UniqueForGood DEF Sure
<1> DEFINE sure == {m \in Launches : Sure(m)}
<1>6. sure' = sure \/ (owner[p] = l /\ sure' = sure \cup {l})
  <2>1. CASE Sure(l)'
    <3>1. sure' = sure \cup {l}
      BY <1>5, <2>1
    <3> QED
      BY <1>4, <2>1, <3>1
  <2>2. CASE ~Sure(l)'
    <3>1. sure' = sure
      BY <1>3, <1>5, <2>2
    <3> QED
      BY <3>1
  <2> QED
    BY <2>1, <2>2
<1> HIDE DEF sure
<1> QED
  BY <1>2, <1>6 DEF Promise!Name, sure

\* A call that returns has claimed a process exactly if it returns a Child.
LEMMA CallReturns ==
  ASSUME NEW l \in Launches, NEW there \in Returned,
         TypeOK, pc[l] \notin Returned, Goto(l, there),
         UNCHANGED <<owner, claim, verified>>,
         claim[l] = NoPid <=> there = "failed"
  PROVE  Promise!Return(l)
<1>1. Outcome(l) = "pending" /\ Outcome(l)' = IF claim[l] = NoPid THEN "error" ELSE "child"
  BY DEF TypeOK, Outcome, Returned, Goto
<1>2. \A m \in Launches \ {l} : Outcome(m)' = Outcome(m)
  BY DEF TypeOK, Outcome, Goto
<1>3. {m \in Launches : Sure(m)}' = {m \in Launches : Sure(m)}
  BY UniqueForGood DEF Sure
<1> QED
  BY <1>1, <1>2, <1>3 DEF Promise!Return

\* Every step of the launches, of those who start processes and of the processes is a step
\* of the abstract launch, or none.
LEMMA PromiseStep ==
  ASSUME TypeOK, ClaimInv, TypeOK', ClaimInv', VerifiedClaimIsOwn', [Next]_vars
  PROVE  [Promise!Next]_(Promise!vars)
<1> USE DEF launchVars, search, result
<1>0. /\ claim \in [Launches -> Pids \cup {NoPid}]
      /\ \A l \in Launches : fallback[l] \in Pids \cup {NoPid}
      /\ \A l \in Launches : fallback[l] # NoPid => app[fallback[l]] # "none"
  BY DEF TypeOK, ClaimInv, SeenInv, SeenBy
<1>1. ASSUME NEW l \in Launches, NEW there,
             pc[l] \notin Returned, there \notin Returned, Goto(l, there),
             UNCHANGED <<owner, claim, verified>>
      PROVE  UNCHANGED Promise!vars
  <2>1. \A m \in Launches : Outcome(m)' = Outcome(m)
    BY <1>1 DEF TypeOK, Outcome, Goto, Returned
  <2> QED
    BY <1>1, <2>1, SamePromise
<1>2. ASSUME NEW l \in Launches, pc[l] \notin Returned, pc[l] # "claimed", Goto(l, "failed"),
             UNCHANGED <<owner, claim, verified>>
      PROVE  Promise!Return(l)
  <2>1. claim[l] = NoPid
    BY <1>2 DEF ClaimInv, SeenInv, SeenBy, Returned
  <2> QED
    BY <1>2, <2>1, CallReturns DEF Returned
<1>3. ASSUME NEW l \in Launches, Call(l) \/ SpawnHelper(l) \/ GiveUp(l) \/ Request(l) \/ TimeOut(l)
      PROVE  [Promise!Next]_(Promise!vars)
  <2>1. /\ pc[l] \in {"idle", "spawn", "stderr", "request", "waiting"}
        /\ UNCHANGED <<owner, claim, verified>>
        /\ \E there \in {"request", "lock", "scan", "waiting", "failed"} : Goto(l, there)
    BY <1>3 DEF Call, SpawnHelper, GiveUp, Request, TimeOut
  <2>2. CASE Goto(l, "failed")
    BY <1>2, <2>1, <2>2 DEF Returned, Promise!Next
  <2>3. CASE \E there \in {"request", "lock", "scan", "waiting"} : Goto(l, there)
    BY <1>1, <2>1, <2>3 DEF Returned
  <2> QED
    BY <2>1, <2>2, <2>3
<1>4. ASSUME NEW l \in Launches, Acquire(l) \/ Snapshot(l) \/ Poll(l)
      PROVE  UNCHANGED Promise!vars
  BY <1>1, <1>4 DEF Acquire, Snapshot, Poll, Returned
<1>5. ASSUME NEW l \in Launches, Scan(l) PROVE [Promise!Next]_(Promise!vars)
  <2>1. pc[l] = "scan" /\ UNCHANGED owner
    BY <1>5 DEF Scan
  <2>2. claim[l] = NoPid
    BY <2>1 DEF ClaimInv, SeenInv, SeenBy
  <2>3. ASSUME NEW p \in Pids, NEW b \in BOOLEAN, Claim(l, p, b), app[p] # "none"
        PROVE  Promise!Next
    <3>1. Outcome(l) = "pending" /\ \A m \in Launches : Outcome(m)' = Outcome(m)
      BY <2>1, <2>3 DEF TypeOK, Claim, Goto, Outcome
    <3>2. owner[p] # NoOwner
      BY <2>3 DEF ClaimInv, SeenInv
    <3>3. Promise!Name(l, p)
      BY <2>1, <2>2, <2>3, <3>1, <3>2, ClaimNames DEF Claim
    <3>4. Promise!NameOnly(l, p)
      BY <2>1, <3>1, <3>3 DEF Promise!NameOnly
    <3> QED
      BY <3>4 DEF Promise!Next
  <2>4. CASE ScanClaims(l)
    BY <2>3, <2>4 DEF ScanClaims, Candidates, Listed
  <2>5. CASE ScanFallsBack(l)
    <3>1. fallback[l] \in Pids /\ app[fallback[l]] # "none"
      BY <1>0, <2>5 DEF ScanFallsBack
    <3> QED
      BY <2>3, <2>5, <3>1 DEF ScanFallsBack
  <2>6. CASE ScanMisses(l)
    BY <1>1, <2>1, <2>6 DEF ScanMisses, Returned
  <2> QED
    BY <1>5, <2>4, <2>5, <2>6, ScanCases
<1>6. ASSUME NEW l \in Launches, Finish(l) PROVE Promise!Next
  <2>1. pc[l] = "claimed" /\ Goto(l, "done") /\ UNCHANGED <<owner, claim, verified>>
    BY <1>6 DEF Finish
  <2>2. claim[l] # NoPid
    BY <2>1 DEF ClaimInv, SeenInv, SeenBy
  <2>3. Promise!Return(l)
    BY <2>1, <2>2, CallReturns DEF Returned
  <2> QED
    BY <2>3 DEF Promise!Next
<1>7. ASSUME NEW l \in Launches, Receive(l) PROVE Promise!Next
  <2>1. pc[l] = "waiting" /\ UNCHANGED owner
    BY <1>7 DEF Receive
  <2>2. claim[l] = NoPid
    BY <2>1 DEF ClaimInv, SeenInv, SeenBy
  <2>3. ASSUME NEW p \in Pids, owner[p] = l, claim' = [claim EXCEPT ![l] = p],
               verified' = [verified EXCEPT ![l] = TRUE], Goto(l, "done")
        PROVE  Promise!Return(l)
    <3>1. /\ Outcome(l) = "pending" /\ Outcome(l)' = "child"
          /\ \A m \in Launches \ {l} : Outcome(m)' = Outcome(m)
      BY <2>1, <2>3 DEF TypeOK, Goto, Outcome
    <3>2. owner[p] # NoOwner
      BY <2>3, LaunchAssumption
    <3>3. Promise!Name(l, p)
      BY <2>1, <2>2, <2>3, <3>1, <3>2, ClaimNames
    <3>4. claim'[l] # NoPid
      BY <1>0, <2>3, PidAssumption
    <3> QED
      BY <2>1, <3>1, <3>3, <3>4 DEF Promise!Return
  <2>4. ASSUME Goto(l, "failed"), UNCHANGED <<claim, verified>> PROVE Promise!Return(l)
    <3>1. pc[l] \notin Returned /\ pc[l] # "claimed" /\ Goto(l, "failed")
      BY <2>1, <2>4 DEF Returned
    <3> QED
      BY <1>2, <2>1, <2>4, <3>1
  <2>5. Promise!Return(l)
    BY <1>7, <2>3, <2>4 DEF Receive
  <2> QED
    BY <2>5 DEF Promise!Next
<1>8. ASSUME UNCHANGED <<pc, claim, verified>> PROVE \A l \in Launches : Outcome(l)' = Outcome(l)
  BY <1>8 DEF Outcome
<1>9. ASSUME NEW o \in Starters, NEW p \in Pids, Start(o, p), UNCHANGED <<pc, claim, verified>>
      PROVE  Promise!Next
  <2>1. owner[p] = NoOwner /\ owner' = [owner EXCEPT ![p] = o]
    BY <1>9 DEF Start, ClaimInv, SeenInv
  <2>2. {m \in Launches : Sure(m)}' = {m \in Launches : Sure(m)}
    BY <1>9, UniqueForGood DEF Sure
  <2>3. Promise!Start(o, p)
    BY <1>8, <1>9, <2>1, <2>2 DEF Promise!Start
  <2> QED
    BY <2>3 DEF Promise!Next, Starters
<1>10. ASSUME NEW l \in Launches, HelperOpens(l) \/ HelperExits(l) \/ Complete(l)
       PROVE  [Promise!Next]_(Promise!vars)
  BY <1>8, <1>9, <1>10, SamePromise DEF HelperOpens, HelperExits, Complete, Starters
<1>11. ASSUME NEW o \in Others, NEW p \in Pids, OtherStarts(o, p) PROVE Promise!Next
  BY <1>9, <1>11 DEF OtherStarts, Starters
<1>12. ASSUME NEW p \in Pids, AppListed(p) \/ AppExits(p) PROVE UNCHANGED Promise!vars
  BY <1>8, <1>12, SamePromise DEF AppListed, AppExits
<1>13. CASE UNCHANGED vars
  BY <1>8, <1>13, SamePromise DEF vars
<1> QED
  BY <1>3, <1>4, <1>5, <1>6, <1>7, <1>10, <1>11, <1>12, <1>13 DEF Next, LaunchStep

\* The lock, the snapshot, the search of argv and the completion handler implement what
\* Launch promises: a call names one process, once and before it returns, and returns a
\* Child exactly then; under launcher-unique arguments a verified launch has its own; and
\* the piped launches of one process are kept apart, verified or not.
THEOREM Refinement == Spec => ImplementsLaunch
<1>1. Init => Promise!Init
  <2> SUFFICES ASSUME Init PROVE Promise!Init
    OBVIOUS
  <2>1. owner \in [Pids -> Others \cup {NoOwner}]
    BY DEF Init
  <2>2. \A l \in Launches : ~Sure(l) /\ Outcome(l) = "pending"
    BY DEF Init, Sure, Outcome
  <2> QED
    BY <2>1, <2>2 DEF Init, Promise!Init
<1>2. TypeOK /\ ClaimInv /\ TypeOK' /\ ClaimInv' /\ VerifiedClaimIsOwn' /\ [Next]_vars =>
        [Promise!Next]_(Promise!vars)
  BY PromiseStep
<1> QED
  BY <1>1, <1>2, TypeCorrect, Invariance, ArgvFindsOwn, PTL DEF Spec, ImplementsLaunch, Promise!Spec
-------------------------------------------------------------------------------
\* What is left of a call is a natural number.
LEMMA LeftNat ==
  ASSUME TypeOK, NEW l \in Launches
  PROVE  Left(l) \in Nat
<1>1. /\ pc[l] \in {"idle", "lock", "request", "waiting"} \cup InLock \cup Returned
      /\ attempt[l] \in 0 .. MaxAttempts - 1 /\ MaxAttempts \in Nat
  BY AttemptAssumption DEF TypeOK
<1> QED
  BY <1>1 DEF Left

\* Who does not step keeps what is left.
LEMMA LeftKept ==
  ASSUME NEW l \in Launches, pc'[l] = pc[l], attempt'[l] = attempt[l]
  PROVE  Left(l)' = Left(l)
BY DEF Left

\* A step of a call takes at least one from what is left.
LEMMA CallAdvances ==
  ASSUME TypeOK, NEW l \in Launches, Call(l) \/ LaunchStep(l)
  PROVE  /\ Left(l)' < Left(l)
         /\ \A m \in Launches \ {l} : pc'[m] = pc[m] /\ attempt'[m] = attempt[m]
<1>0. /\ pc \in [Launches -> {"idle", "lock", "request", "waiting"} \cup InLock \cup Returned]
      /\ attempt \in [Launches -> 0 .. MaxAttempts - 1] /\ attempt[l] \in 0 .. MaxAttempts - 1
      /\ MaxAttempts \in Nat \ {0}
  BY AttemptAssumption DEF TypeOK
<1>1. ASSUME NEW there, Goto(l, there)
      PROVE  pc'[l] = there /\ \A m \in Launches \ {l} : pc'[m] = pc[m]
  BY <1>0, <1>1 DEF Goto
<1>2. ASSUME UNCHANGED attempt \/ EndSearch(l)
      PROVE  \A m \in Launches \ {l} : attempt'[m] = attempt[m]
  BY <1>0, <1>2 DEF EndSearch
<1> USE DEF search, result
<1>3. CASE Call(l)
  <2>1. PICK there \in {"lock", "request", "failed"} : Goto(l, there)
    BY <1>3 DEF Call
  <2> QED  BY <1>0, <1>1, <1>2, <1>3, <2>1 DEF Call, Left
<1>4. CASE Acquire(l)
  BY <1>0, <1>1, <1>2, <1>4 DEF Acquire, Left
<1>5. CASE Snapshot(l)
  BY <1>0, <1>1, <1>2, <1>5 DEF Snapshot, Left
<1>6. CASE SpawnHelper(l)
  <2>1. PICK there \in {"scan", "failed"} : Goto(l, there)
    BY <1>6 DEF SpawnHelper
  <2>2. attempt' = attempt \/ (EndSearch(l) /\ there = "failed")
    <3>1. pc'[l] = there
      BY <1>1, <2>1
    <3> QED  BY <1>1, <1>6, <3>1 DEF SpawnHelper
  <2> QED  BY <1>0, <1>1, <1>2, <1>6, <2>1, <2>2 DEF SpawnHelper, Left
<1>7. CASE Scan(l)
  <2>1. (EndSearch(l) /\ Goto(l, "claimed")) \/ (UNCHANGED attempt /\ Goto(l, "poll"))
    <3>0. ASSUME NEW p, NEW byArgv, Claim(l, p, byArgv) PROVE EndSearch(l) /\ Goto(l, "claimed")
      BY <3>0 DEF Claim
    <3>1. CASE ScanClaims(l)
      BY <3>0, <3>1 DEF ScanClaims
    <3>2. CASE ScanFallsBack(l)
      BY <3>0, <3>2 DEF ScanFallsBack
    <3>3. CASE ScanMisses(l)
      BY <3>3 DEF ScanMisses
    <3> QED  BY <1>7, <3>1, <3>2, <3>3, ScanCases
  <2>2. pc[l] = "scan"
    BY <1>7 DEF Scan
  <2> QED  BY <1>0, <1>1, <1>2, <2>1, <2>2 DEF Left
<1>8. CASE Poll(l)
  <2>1. CASE Goto(l, "stderr") /\ EndSearch(l)
    BY <1>0, <1>1, <1>2, <1>8, <2>1 DEF Poll, Left
  <2>2. CASE Goto(l, "scan") /\ attempt' = [attempt EXCEPT ![l] = @ + 1]
    BY <1>0, <1>1, <1>8, <2>2 DEF Poll, Left
  <2> QED  BY <1>8, <2>1, <2>2 DEF Poll
<1>9. CASE GiveUp(l)
  BY <1>0, <1>1, <1>2, <1>9 DEF GiveUp, Left
<1>10. CASE Finish(l)
  BY <1>0, <1>1, <1>2, <1>10 DEF Finish, Left
<1>11. CASE Request(l)
  BY <1>0, <1>1, <1>2, <1>11 DEF Request, Left
<1>12. CASE Receive(l)
  BY <1>0, <1>1, <1>2, <1>12 DEF Receive, Left
<1>13. CASE TimeOut(l)
  BY <1>0, <1>1, <1>2, <1>13 DEF TimeOut, Left
<1> QED
  BY <1>3, <1>4, <1>5, <1>6, <1>7, <1>8, <1>9, <1>10, <1>11, <1>12, <1>13 DEF LaunchStep

\* The search is bounded: a call takes at most 2 * MaxAttempts + 6 steps, whatever processes
\* start and end and whoever else launches, each of which brings it nearer to its return.
THEOREM SearchBounded == Spec => CallsAdvance
<1> DEFINE Advance ==
             \A l \in Launches : /\ Left(l)' \in Nat /\ Left(l)' <= Left(l)
                                 /\ Call(l) \/ LaunchStep(l) => Left(l)' < Left(l)
<1>1. TypeOK /\ TypeOK' /\ [Next]_vars => [Advance]_vars
  <2> SUFFICES ASSUME TypeOK, TypeOK', [Next]_vars, NEW l \in Launches
               PROVE  /\ Left(l)' \in Nat /\ Left(l)' <= Left(l)
                      /\ Call(l) \/ LaunchStep(l) => Left(l)' < Left(l)
    OBVIOUS
  <2>1. Left(l) \in Nat /\ Left(l)' \in Nat
    <3>1. Left(l)' \in Nat
      <4>1. /\ pc'[l] \in {"idle", "lock", "request", "waiting"} \cup InLock \cup Returned
            /\ attempt'[l] \in 0 .. MaxAttempts - 1 /\ MaxAttempts \in Nat
        BY AttemptAssumption DEF TypeOK
      <4> QED  BY <4>1 DEF Left
    <3> QED  BY <3>1, LeftNat
  <2>2. Call(l) \/ LaunchStep(l) => Left(l)' < Left(l)
    BY CallAdvances
  <2>3. Left(l)' <= Left(l)
    <3>1. CASE Call(l) \/ LaunchStep(l)
      BY <2>1, <2>2, <3>1
    <3>2. CASE ~(Call(l) \/ LaunchStep(l))
      <4>1. pc'[l] = pc[l] /\ attempt'[l] = attempt[l]
        <5>1. CASE \E m \in Launches : Call(m) \/ LaunchStep(m)
          BY <3>2, <5>1, CallAdvances
        <5>2. CASE ~ \E m \in Launches : Call(m) \/ LaunchStep(m)
          BY <5>2 DEF Next, vars, launchVars, search, HelperOpens, HelperExits, Complete,
                      OtherStarts, AppListed, AppExits
        <5> QED  BY <5>1, <5>2
      <4> QED  BY <2>1, <4>1, LeftKept
    <3> QED  BY <3>1, <3>2
  <2> QED  BY <2>1, <2>2, <2>3
<1> QED
  BY <1>1, TypeCorrect, PTL DEF Spec, CallsAdvance
===============================================================================

------------------------------ MODULE SpawnMacOS ------------------------------
(***************************************************************************)
(* macOS spawn (src/src/macos.rs): how a launch finds out which process is *)
(* the app that was started for it.                                        *)
(*                                                                         *)
(* Any number of launches of one bundle run at once, in several caller     *)
(* processes, beside people and other programs that start the app too.     *)
(*                                                                         *)
(* spawn_simple asks NSWorkspace for the app and waits 30 s for the        *)
(* completion handler, which names the instance; it takes no lock.         *)
(*                                                                         *)
(* spawn_piped has a helper start the app and is told nothing: it takes    *)
(* the SPAWN_PIPED_LOCK of its process, snapshots the running instances,   *)
(* and polls, at most MaxAttempts times, for a new one whose argv contains *)
(* its arguments; after VerifyAttempts it settles for any new one seen.    *)
(***************************************************************************)
EXTENDS Naturals, Sequences, FiniteSets

CONSTANTS Launches,        \* calls of spawn
          Simple,          \* those without captured output
          Others,          \* whoever else starts the app, in other processes
          Processes,       \* the caller processes
          ProcessOf,       \* the process of each launch
          Args,            \* the arguments everyone passes, a sequence of words
          Word,
          Pids, NoPid,
          OldPids,         \* instances that run before any launch
          NoOwner,
          MaxAttempts,     \* 50 in the code
          VerifyAttempts,  \* 25 in the code
          Exe              \* argv[0]

ASSUME LaunchAssumption ==
  /\ Simple \subseteq Launches
  /\ ProcessOf \in [Launches -> Processes]
  /\ Others \cap Launches = {} /\ Others # {}
  /\ NoOwner \notin Launches \cup Others
  /\ Args \in [Launches \cup Others -> Seq(Word)]
ASSUME PidAssumption == NoPid \notin Pids /\ OldPids \subseteq Pids
ASSUME AttemptAssumption ==
  MaxAttempts \in Nat \ {0} /\ VerifyAttempts \in 0 .. MaxAttempts

VARIABLES
  app,       \* life of each pid: "none", "starting", "listed", "gone"
  owner,     \* who started it
  lock,      \* per process: SPAWN_PIPED_LOCK
  pc,        \* per launch
  before,    \* before_pids
  attempt, fallback,
  claim,     \* the pid the launch settles on
  verified,  \* the claim was made by argv or by the completion handler
  helper,    \* what starts the app, the helper or NSWorkspace: "none", "up",
             \* "open" (its app was started), "exited" (completed, for NSWorkspace)
  handle,    \* Child::inner is Some: the claimed pid still ran
  sawOwn     \* history: a scan listed the launch's own app and read its argv

search == <<before, attempt, fallback>>
result == <<claim, verified, handle>>
launchVars == <<pc, search, result, sawOwn>>
vars == <<app, owner, lock, launchVars, helper>>

Piped == Launches \ Simple
Starters == Launches \cup Others
Listed == {p \in Pids : app[p] = "listed"}

\* The states between taking SPAWN_PIPED_LOCK and dropping it.
InLock == {"snapshot", "spawn", "scan", "poll", "claimed", "stderr"}
Returned == {"done", "failed"}
-------------------------------------------------------------------------------
\* Mutant: the arguments are compared with the front of argv, argv[0] included.
ContainsAtFront(haystack, needle) ==
  /\ Len(needle) <= Len(haystack)
  /\ \A k \in 1 .. Len(needle) : haystack[k] = needle[k]

\* haystack.windows(needle.len()).any(|w| w == needle)
ArgvContainsArgs(haystack, needle) ==
  \/ needle = <<>>
  \/ \E i \in 1 .. Len(haystack) :
       /\ i + Len(needle) - 1 <= Len(haystack)
       /\ \A k \in 1 .. Len(needle) : haystack[i + k - 1] = needle[k]

\* `open --args' and the configuration of NSWorkspace forward our arguments.
Argv(o) == <<Exe>> \o Args[o]

\* "Our args are launcher-unique in practice" (macos.rs:934-935)
UniqueArgs ==
  \A l \in Piped : Args[l] # <<>> =>
    \A o \in Starters \ {l} : ~ArgvContainsArgs(Argv(o), Args[l])

Init ==
  /\ app = [p \in Pids |-> IF p \in OldPids THEN "listed" ELSE "none"]
  /\ \E o \in Others : owner = [p \in Pids |-> IF p \in OldPids THEN o ELSE NoOwner]
  /\ lock = [q \in Processes |-> FALSE]
  /\ pc = [l \in Launches |-> "idle"]
  /\ before = [l \in Launches |-> {}]
  /\ attempt = [l \in Launches |-> 0]
  /\ fallback = [l \in Launches |-> NoPid]
  /\ claim = [l \in Launches |-> NoPid]
  /\ verified = [l \in Launches |-> FALSE]
  /\ handle = [l \in Launches |-> FALSE]
  /\ sawOwn = [l \in Launches |-> FALSE]
  /\ helper = [l \in Launches |-> "none"]
-------------------------------------------------------------------------------
Goto(l, there) == pc' = [pc EXCEPT ![l] = there]
Unlock(l) == lock' = [lock EXCEPT ![ProcessOf[l]] = FALSE]

\* The search ends, and its locals with it.
EndSearch(l) ==
  /\ before' = [before EXCEPT ![l] = {}]
  /\ attempt' = [attempt EXCEPT ![l] = 0]
  /\ fallback' = [fallback EXCEPT ![l] = NoPid]

\* The path is checked, the bundle found and, for a piped launch, the helper
\* resolved before anything else.
Call(l) ==
  /\ pc[l] = "idle"
  /\ \/ Goto(l, IF l \in Simple THEN "request" ELSE "lock")
     \/ Goto(l, "failed")
  /\ UNCHANGED <<app, owner, lock, search, result, sawOwn, helper>>

\* Mutant: the guard is dropped as soon as the lock was taken.
AcquireAndDrop(l) ==
  /\ pc[l] = "lock"
  /\ ~lock[ProcessOf[l]]
  /\ Goto(l, "snapshot")
  /\ UNCHANGED <<app, owner, lock, search, result, sawOwn, helper>>

Acquire(l) ==
  /\ pc[l] = "lock"
  /\ ~lock[ProcessOf[l]]
  /\ lock' = [lock EXCEPT ![ProcessOf[l]] = TRUE]
  /\ Goto(l, "snapshot")
  /\ UNCHANGED <<app, owner, search, result, sawOwn, helper>>

Snapshot(l) ==
  /\ pc[l] = "snapshot"
  /\ before' = [before EXCEPT ![l] = Listed]
  /\ Goto(l, "spawn")
  /\ UNCHANGED <<app, owner, lock, attempt, fallback, result, sawOwn, helper>>

\* Mutant: the error path of the helper's spawn keeps the lock.
SpawnHelperKeepsLock(l) ==
  /\ pc[l] = "spawn"
  /\ \/ /\ helper' = [helper EXCEPT ![l] = "up"]
        /\ Goto(l, "scan")
        /\ UNCHANGED search
     \/ /\ Goto(l, "failed")
        /\ EndSearch(l)
        /\ UNCHANGED helper
  /\ UNCHANGED <<app, owner, lock, result, sawOwn>>

\* helper_cmd.spawn()
SpawnHelper(l) ==
  /\ pc[l] = "spawn"
  /\ \/ /\ helper' = [helper EXCEPT ![l] = "up"]
        /\ Goto(l, "scan")
        /\ UNCHANGED <<lock, search>>
     \/ /\ Goto(l, "failed")
        /\ Unlock(l)
        /\ EndSearch(l)
        /\ UNCHANGED helper
  /\ UNCHANGED <<app, owner, result, sawOwn>>

Claim(l, p, byArgv) ==
  /\ claim' = [claim EXCEPT ![l] = p]
  /\ verified' = [verified EXCEPT ![l] = byArgv]
  /\ Goto(l, "claimed")
  /\ EndSearch(l)

Candidates(l) == Listed \ before[l]

\* Mutant: a candidate whose argv can be read is taken for ours.
MatchingUnread(l, readable) == readable

\* proc_argv fails for any process that is just starting, exiting or foreign.
Matching(l, readable) ==
  {p \in readable : ArgvContainsArgs(Argv(owner[p]), Args[l])}

\* One attempt: list the instances, look at the new ones in the list's order,
\* then decide on the fallback.
Scan(l) ==
  /\ pc[l] = "scan"
  /\ \E readable \in SUBSET IF Args[l] = <<>> THEN {} ELSE Candidates(l) :
       /\ sawOwn' = [sawOwn EXCEPT ![l] = @ \/ \E p \in readable : owner[p] = l]
       /\ \/ /\ Args[l] = <<>>
             /\ \E p \in Candidates(l) : Claim(l, p, FALSE)
          \/ /\ Args[l] # <<>>
             /\ \E p \in Matching(l, readable) : Claim(l, p, TRUE)
          \/ /\ IF Args[l] = <<>> THEN Candidates(l) = {} ELSE Matching(l, readable) = {}
             /\ \E seen \in IF Candidates(l) = {} THEN {fallback[l]} ELSE Candidates(l) :
                  IF attempt[l] >= VerifyAttempts /\ seen # NoPid
                    THEN Claim(l, seen, FALSE)
                    ELSE /\ fallback' = [fallback EXCEPT ![l] = seen]
                         /\ Goto(l, "poll")
                         /\ UNCHANGED <<before, attempt, claim, verified>>
  /\ UNCHANGED <<app, owner, lock, handle, helper>>

\* helper_child.try_wait(), then the sleep before the next attempt.
Poll(l) ==
  /\ pc[l] = "poll"
  /\ IF helper[l] = "exited" \/ attempt[l] + 1 = MaxAttempts
       THEN Goto(l, "stderr") /\ EndSearch(l)
       ELSE /\ Goto(l, "scan")
            /\ attempt' = [attempt EXCEPT ![l] = @ + 1]
            /\ UNCHANGED <<before, fallback>>
  /\ UNCHANGED <<app, owner, lock, result, sawOwn, helper>>

\* The launch failed: read the helper's stderr to its end, which is the end of
\* the helper, and return with the lock's guard.
GiveUp(l) ==
  /\ pc[l] = "stderr"
  /\ helper[l] = "exited"
  /\ Goto(l, "failed")
  /\ Unlock(l)
  /\ UNCHANGED <<app, owner, search, result, sawOwn, helper>>

\* drop(_spawn_guard), then runningApplicationWithProcessIdentifier.
Finish(l) ==
  /\ pc[l] = "claimed"
  /\ Unlock(l)
  /\ handle' = [handle EXCEPT ![l] = app[claim[l]] = "listed"]
  /\ Goto(l, "done")
  /\ UNCHANGED <<app, owner, search, claim, verified, sawOwn, helper>>
-------------------------------------------------------------------------------
\* spawn_simple: openApplicationAtURL or openURLs, unless the URL is invalid.
Request(l) ==
  /\ pc[l] = "request"
  /\ \/ helper' = [helper EXCEPT ![l] = "up"] /\ Goto(l, "waiting")
     \/ Goto(l, "failed") /\ UNCHANGED helper
  /\ UNCHANGED <<app, owner, lock, search, result, sawOwn>>

\* rx.recv_timeout has an answer: the instance, or an error.  An instance that is
\* gone may have no pid left.
Receive(l) ==
  /\ pc[l] = "waiting"
  /\ helper[l] = "exited"
  /\ \/ \E p \in Pids :
          /\ owner[p] = l
          /\ claim' = [claim EXCEPT ![l] = p]
          /\ verified' = [verified EXCEPT ![l] = TRUE]
          /\ handle' = [handle EXCEPT ![l] = TRUE]
          /\ Goto(l, "done")
     \/ /\ \A p \in Pids : owner[p] = l => app[p] = "gone"
        /\ Goto(l, "failed")
        /\ UNCHANGED result
  /\ UNCHANGED <<app, owner, lock, search, sawOwn, helper>>

\* 30 s without an answer: the app may still be started, or has been.
TimeOut(l) ==
  /\ pc[l] = "waiting"
  /\ helper[l] # "exited"
  /\ Goto(l, "failed")
  /\ UNCHANGED <<app, owner, lock, search, result, sawOwn, helper>>
-------------------------------------------------------------------------------
\* The helper starts one instance with `open -n' and then lives as long as the
\* app; it exits at once when `open' fails.  NSWorkspace starts one instance, or
\* completes with an error.
Start(o, p) ==
  /\ app[p] = "none"
  /\ app' = [app EXCEPT ![p] = "starting"]
  /\ owner' = [owner EXCEPT ![p] = o]

HelperOpens(l) ==
  /\ helper[l] = "up"
  /\ \/ \E p \in Pids : Start(l, p) /\ helper' = [helper EXCEPT ![l] = "open"]
     \/ helper' = [helper EXCEPT ![l] = "exited"] /\ UNCHANGED <<app, owner>>
  /\ UNCHANGED <<lock, launchVars>>

HelperExits(l) ==
  /\ l \in Piped /\ helper[l] = "open"
  /\ \A p \in Pids : owner[p] = l => app[p] = "gone"
  /\ helper' = [helper EXCEPT ![l] = "exited"]
  /\ UNCHANGED <<app, owner, lock, launchVars>>

\* NSWorkspace calls the completion handler with the instance it started.
Complete(l) ==
  /\ l \in Simple /\ helper[l] = "open"
  /\ helper' = [helper EXCEPT ![l] = "exited"]
  /\ UNCHANGED <<app, owner, lock, launchVars>>

OtherStarts(o, p) ==
  /\ Start(o, p)
  /\ UNCHANGED <<lock, launchVars, helper>>

\* NSRunningApplication learns of an instance some time after it was started.
AppListed(p) ==
  /\ app[p] = "starting"
  /\ app' = [app EXCEPT ![p] = "listed"]
  /\ UNCHANGED <<owner, lock, launchVars, helper>>

AppExits(p) ==
  /\ app[p] \in {"starting", "listed"}
  /\ app' = [app EXCEPT ![p] = "gone"]
  /\ UNCHANGED <<owner, lock, launchVars, helper>>

LaunchStep(l) ==
  \/ Acquire(l)
  \/ Snapshot(l)
  \/ SpawnHelper(l)
  \/ Scan(l)
  \/ Poll(l)
  \/ GiveUp(l)
  \/ Finish(l)
  \/ Request(l)
  \/ Receive(l)
  \/ TimeOut(l)

Next ==
  \/ \E l \in Launches :
       Call(l) \/ LaunchStep(l) \/ HelperOpens(l) \/ HelperExits(l) \/ Complete(l)
  \/ \E p \in Pids : (\E o \in Others : OtherStarts(o, p)) \/ AppListed(p) \/ AppExits(p)

Spec == Init /\ [][Next]_vars

\* The launching thread runs and so does the helper; the mutex is fair to a
\* finite number of launches.  Nothing makes NSWorkspace answer or an app exit.
Fairness ==
  /\ \A l \in Launches : WF_vars(LaunchStep(l))
  /\ \A l \in Piped : WF_vars(HelperOpens(l)) /\ WF_vars(HelperExits(l))
FairSpec == Spec /\ Fairness
-------------------------------------------------------------------------------
\* Every variable stays in its range.
TypeOK ==
  /\ app \in [Pids -> {"none", "starting", "listed", "gone"}]
  /\ owner \in [Pids -> Starters \cup {NoOwner}]
  /\ lock \in [Processes -> BOOLEAN]
  /\ pc \in [Launches -> {"idle", "lock", "request", "waiting"} \cup InLock \cup Returned]
  /\ before \in [Launches -> SUBSET Pids]
  /\ attempt \in [Launches -> 0 .. MaxAttempts - 1]
  /\ fallback \in [Launches -> Pids \cup {NoPid}]
  /\ claim \in [Launches -> Pids \cup {NoPid}]
  /\ verified \in [Launches -> BOOLEAN]
  /\ helper \in [Launches -> {"none", "up", "open", "exited"}]
  /\ handle \in [Launches -> BOOLEAN]
  /\ sawOwn \in [Launches -> BOOLEAN]

\* Two piped launches of one process never claim the same instance, verified or
\* not: what the lock held across snapshot, helper and claim is for.
OneClaimPerProcess ==
  \A l, m \in Piped :
    /\ l # m /\ ProcessOf[l] = ProcessOf[m]
    /\ claim[l] # NoPid
    => claim[l] # claim[m]

\* With launcher-unique arguments a claim made by argv is the launch's own app,
\* however many launches and people start the app at once, and so is what the
\* completion handler names, with any arguments: two launches that collide, in any
\* processes, were both argless or not verified.
VerifiedClaimIsOwn ==
  \A l \in Launches : verified[l] /\ (l \in Simple \/ UniqueArgs) => owner[claim[l]] = l

\* A launch whose scan saw its own app with a readable argv claims that app: the
\* search never goes past it to another candidate or to the fallback.
OwnNeverPassedOver ==
  UniqueArgs =>
    \A l \in Piped :
      sawOwn[l] /\ Args[l] # <<>> =>
        claim[l] # NoPid /\ owner[claim[l]] = l

\* Whoever holds SPAWN_PIPED_LOCK is inside the section, and alone; a launch
\* that has returned, in whichever way, does not hold it.
LockIsSection ==
  \A q \in Processes :
    /\ lock[q] <=> \E l \in Launches : ProcessOf[l] = q /\ pc[l] \in InLock
    /\ \A l, m \in Launches :
         ProcessOf[l] = q /\ ProcessOf[m] = q /\ pc[l] \in InLock /\ pc[m] \in InLock => l = m

\* The inductive invariant behind OneClaimPerProcess and VerifiedClaimIsOwn: what a
\* launch has seen is listed or gone, never not started; and whatever another
\* launch of the process has claimed was in this one's snapshot or is gone.
SeenBy(l) ==
  /\ pc[l] \in {"request", "waiting"} => l \in Simple
  /\ pc[l] \in {"lock"} \cup InLock => l \in Piped
  /\ pc[l] \in {"idle", "request", "waiting", "lock", "snapshot", "spawn"} =>
       claim[l] = NoPid /\ fallback[l] = NoPid
  /\ claim[l] # NoPid => app[claim[l]] # "none"
  /\ claim[l] # NoPid /\ l \in Piped => app[claim[l]] \in {"listed", "gone"}
  /\ claim[l] # NoPid <=> pc[l] \in {"claimed", "done"}
  /\ fallback[l] # NoPid => app[fallback[l]] \in {"listed", "gone"}
  /\ verified[l] =>
       /\ claim[l] # NoPid
       /\ \/ owner[claim[l]] = l
          \/ /\ l \in Piped /\ Args[l] # <<>>
             /\ ArgvContainsArgs(Argv(owner[claim[l]]), Args[l])

SeenInv ==
  /\ \A p \in Pids : app[p] = "none" <=> owner[p] = NoOwner
  /\ \A l \in Launches : SeenBy(l)

ApartInv ==
  /\ OneClaimPerProcess
  /\ \A l, m \in Piped :
       /\ l # m /\ ProcessOf[l] = ProcessOf[m]
       /\ claim[l] # NoPid /\ pc[m] \in {"spawn", "scan", "poll"}
       => /\ claim[l] \in before[m] \/ app[claim[l]] = "gone"
          /\ fallback[m] # claim[l]

ClaimInv == LockIsSection /\ SeenInv /\ ApartInv

\* A launch that was called returns, whatever NSWorkspace, the other launches, the
\* people and the apps do, unless a launch of its process is reading the stderr of
\* a helper that still lives: the search is bounded and every way out of the
\* section releases the lock.
Diagnosing(q) ==
  \E l \in Launches : ProcessOf[l] = q /\ pc[l] = "stderr" /\ helper[l] # "exited"
SpawnReturns ==
  \A l \in Launches :
    pc[l] # "idle" ~> pc[l] \in Returned \/ (l \in Piped /\ Diagnosing(ProcessOf[l]))

\* How many steps a call still takes at most: the 50 rounds and what leads to them.
Left(l) ==
  CASE pc[l] = "idle" -> 2 * MaxAttempts + 6
    [] pc[l] = "lock" -> 2 * MaxAttempts + 5
    [] pc[l] = "snapshot" -> 2 * MaxAttempts + 4
    [] pc[l] = "spawn" -> 2 * MaxAttempts + 3
    [] pc[l] = "scan" -> 2 * (MaxAttempts - attempt[l]) + 2
    [] pc[l] = "poll" -> 2 * (MaxAttempts - attempt[l]) + 1
    [] pc[l] = "request" -> 2
    [] pc[l] \in {"stderr", "claimed", "waiting"} -> 1
    [] OTHER -> 0

\* "give up rather than wait the full 10s" (macos.rs:977-978): the search is bounded.  Each
\* step of a call brings it nearer to its return, and nobody else takes that back.
CallsAdvance ==
  [][\A l \in Launches : /\ Left(l)' \in Nat /\ Left(l)' <= Left(l)
                         /\ Call(l) \/ LaunchStep(l) => Left(l)' < Left(l)]_vars

\* The lock, the snapshot, the search and the completion handler implement the abstract
\* Launch: a call names one process, before it returns and for good; it is its own if
\* it was verified under launcher-unique arguments; and the piped launches of one
\* process are kept apart even where nothing is verified.
Sure(l) == verified[l] /\ (l \in Simple \/ UniqueArgs)
Outcome(l) ==
  IF pc[l] = "done" THEN "child" ELSE IF pc[l] = "failed" THEN "error" ELSE "pending"
Promise ==
  INSTANCE Launch WITH
    KeptApart <- {a \in Piped \X Piped : a[1] # a[2] /\ ProcessOf[a[1]] = ProcessOf[a[2]]},
    named <- claim,
    sure <- {l \in Launches : Sure(l)},
    outcome <- [l \in Launches |-> Outcome(l)]
ImplementsLaunch == Promise!Spec
===============================================================================

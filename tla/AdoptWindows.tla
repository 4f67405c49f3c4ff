----------------------------- MODULE AdoptWindows -----------------------------
(***************************************************************************)
(* Windows spawn (src/src/windows.rs): which process a launch tracks, and  *)
(* which processes die with the caller.                                    *)
(*                                                                         *)
(* CreateProcessW starts the app itself, a bootstrapper that starts the    *)
(* real editor and exits (Handoff), or, for a shell-open, a transient      *)
(* explorer.exe that asks the running shell to start the app (Shell).      *)
(* adopt_real_process polls: it reads whether the launched process lives,  *)
(* looks for its window, lists the new instances of the executable, picks  *)
(* a windowed one whose command line holds all our arguments, and applies  *)
(* its rules.  Processes start, show windows and exit between these steps; *)
(* the look at the siblings of one listing, of their windows and command   *)
(* lines, and the opening of the one found are a single step (Pick).       *)
(***************************************************************************)
EXTENDS Naturals, FiniteSets

CONSTANTS Launches,
          Handoff,         \* launches whose process is a bootstrapper
          Shell,           \* launches via_shell
          Detached,        \* launches with detached(true)
          Args,            \* the set of arguments of each launch
          Opened,          \* {args[0]}: what a shell-open passes on
          Word,
          Escaped,         \* arguments with a double quote in them
          Pids, NoPid,
          OldPids,         \* instances that run before any launch
          Unreadable,      \* processes whose command line may not be readable
          Human, NoOwner,
          Grace,           \* ADOPT_GRACE, VERIFY_FALLBACK and ADOPT_DEADLINE: 3, 5
          Fallback,        \* and 30 seconds in the code, in ticks here
          Deadline,
          ListingMayFail,  \* CreateToolhelp32Snapshot may fail
          AssignMayFail    \* AssignProcessToJobObject may fail

ASSUME LaunchAssumption ==
  /\ Handoff \subseteq Launches
  /\ Shell \subseteq Detached /\ Detached \subseteq Launches
  /\ Shell \cap Handoff = {}
  /\ Args \in [Launches -> SUBSET Word]
  /\ Opened \in [Launches -> SUBSET Word]
  /\ \A l \in Launches : Opened[l] \subseteq Args[l]
  /\ Escaped \subseteq Word
  /\ Human \notin Launches /\ NoOwner \notin Launches \cup {Human}
ASSUME PidAssumption ==
  NoPid \notin Pids /\ OldPids \subseteq Pids /\ Unreadable \subseteq Pids
ASSUME TimeAssumption ==
  /\ Grace \in Nat /\ Fallback \in Nat /\ Deadline \in Nat
  /\ Grace <= Fallback /\ Fallback <= Deadline
ASSUME FailureAssumption == ListingMayFail \in BOOLEAN /\ AssignMayFail \in BOOLEAN

VARIABLES
  app,       \* life of each process: "none", "hidden", "windowed", "gone"
  owner,     \* who started it: a launch, or a human
  pc,        \* per launch
  boot,      \* pi.dwProcessId
  pre,       \* pre_pids
  alive,     \* launched_alive
  siblings,
  time,      \* start.elapsed()
  tracked,   \* the process of the returned handle
  how,       \* the return of adopt_real_process that was taken
  sawOwn,    \* history: a pick looked at the launch's own, readable editor
  job,       \* the members of the lifetime job
  caller,    \* the calling process: "up" or "dead"
  killed     \* history: what the job's closing killed

procVars == <<app, owner>>
locals == <<pre, alive, siblings, time>>
result == <<tracked, how>>
callerVars == <<job, caller, killed>>
vars == <<procVars, pc, boot, locals, result, sawOwn, callerVars>>

Running == {p \in Pids : app[p] \in {"hidden", "windowed"}}
Unused == {p \in Pids : app[p] = "none"}

\* The processes of our executable; a shell-open launches explorer.exe instead.
Instances == {p \in Running : \A l \in Shell : boot[l] # p}
EditorsOf(l) == {p \in Pids : owner[p] = l /\ p # boot[l]}

\* An argument with a quote is escaped in the command line, and a shell-open
\* passes on one argument only.
Cmdline(o) ==
  IF o \notin Launches THEN {}
  ELSE (IF o \in Shell THEN Opened[o] ELSE Args[o]) \ Escaped

\* No other process's command line contains all our arguments.
UniqueArgs ==
  \A l \in Launches : \A o \in (Launches \cup {Human}) \ {l} : ~(Args[l] \subseteq Cmdline(o))

Looping == {"alive", "window", "list", "pick", "rules"}

Init ==
  /\ app = [p \in Pids |-> IF p \in OldPids THEN "windowed" ELSE "none"]
  /\ owner = [p \in Pids |-> IF p \in OldPids THEN Human ELSE NoOwner]
  /\ pc = [l \in Launches |-> "idle"]
  /\ boot = [l \in Launches |-> NoPid]
  /\ pre = [l \in Launches |-> {}]
  /\ alive = [l \in Launches |-> FALSE]
  /\ siblings = [l \in Launches |-> {}]
  /\ time = [l \in Launches |-> 0]
  /\ tracked = [l \in Launches |-> NoPid]
  /\ how = [l \in Launches |-> "none"]
  /\ sawOwn = [l \in Launches |-> FALSE]
  /\ job = {}
  /\ caller = "up"
  /\ killed = {}
-------------------------------------------------------------------------------
Goto(l, there) == pc' = [pc EXCEPT ![l] = there]

Start(o, p) ==
  /\ p \in Unused
  /\ app' = [app EXCEPT ![p] = "hidden"]
  /\ owner' = [owner EXCEPT ![p] = o]

\* A failed snapshot of the process table reads as an empty one.
Listing == {Instances} \cup (IF ListingMayFail THEN {{}} ELSE {})

\* adopt_real_process returns, and its locals are gone.
Track(l, p, why) ==
  /\ tracked' = [tracked EXCEPT ![l] = p]
  /\ how' = [how EXCEPT ![l] = why]
  /\ pre' = [pre EXCEPT ![l] = {}]
  /\ alive' = [alive EXCEPT ![l] = FALSE]
  /\ siblings' = [siblings EXCEPT ![l] = {}]
  /\ time' = [time EXCEPT ![l] = 0]
  /\ Goto(l, "bind")

Snapshot(l) ==
  /\ pc[l] = "idle"
  /\ \/ /\ \E listed \in Listing : pre' = [pre EXCEPT ![l] = listed]
        /\ Goto(l, "create")
     \/ Goto(l, "failed") /\ UNCHANGED pre
  /\ UNCHANGED <<procVars, boot, alive, siblings, time, result, sawOwn, callerVars>>

\* Mutant: `ok' is not looked at.
CreateUnchecked(l) ==
  /\ pc[l] = "create"
  /\ \/ \E p \in Pids : Start(l, p) /\ boot' = [boot EXCEPT ![l] = p]
     \/ UNCHANGED <<procVars, boot>>
  /\ Goto(l, "alive")
  /\ UNCHANGED <<locals, result, sawOwn, callerVars>>

CreateProcess(l) ==
  /\ pc[l] = "create"
  /\ \/ \E p \in Pids :
          /\ Start(l, p)
          /\ boot' = [boot EXCEPT ![l] = p]
          /\ Goto(l, "alive")
     \/ Goto(l, "failed") /\ UNCHANGED <<procVars, boot>>
  /\ UNCHANGED <<locals, result, sawOwn, callerVars>>

ReadAlive(l) ==
  /\ pc[l] = "alive"
  /\ alive' = [alive EXCEPT ![l] = boot[l] \in Running]
  /\ Goto(l, "window")
  /\ UNCHANGED <<procVars, boot, pre, siblings, time, result, sawOwn, callerVars>>

\* find_window_by_pid(launched_pid): skipped for a shell-open.
FastPath(l) ==
  /\ pc[l] = "window"
  /\ IF l \notin Shell /\ alive[l] /\ app[boot[l]] = "windowed"
       THEN Track(l, boot[l], "window")
       ELSE Goto(l, "list") /\ UNCHANGED <<locals, result>>
  /\ UNCHANGED <<procVars, boot, sawOwn, callerVars>>

\* Mutant: the instances that ran before are not taken out.
ListAll(l) ==
  /\ pc[l] = "list"
  /\ \E listed \in Listing : siblings' = [siblings EXCEPT ![l] = listed \ {boot[l]}]
  /\ Goto(l, "pick")
  /\ UNCHANGED <<procVars, boot, pre, alive, time, result, sawOwn, callerVars>>

List(l) ==
  /\ pc[l] = "list"
  /\ \E listed \in Listing :
       siblings' = [siblings EXCEPT ![l] = listed \ (pre[l] \cup {boot[l]})]
  /\ Goto(l, "pick")
  /\ UNCHANGED <<procVars, boot, pre, alive, time, result, sawOwn, callerVars>>

\* Mutant: the command line is not looked at.
EligibleWindowed(l, unread) == {p \in siblings[l] : app[p] = "windowed"}

\* Mutant: an editor is not ours while the launched process lives.
EligibleOrphans(l, unread) ==
  {p \in siblings[l] : ~alive[l] /\ app[p] = "windowed" /\ Args[l] \subseteq Cmdline(owner[p])}

\* The windowed siblings whose command line holds all our arguments, or, when
\* unreadable, those we may take without.
Eligible(l, unread) ==
  {p \in siblings[l] :
     /\ app[p] = "windowed"
     /\ IF p \in unread
          THEN Args[l] = {} \/ time[l] >= Fallback
          ELSE Args[l] \subseteq Cmdline(owner[p])}

\* `find' takes one of them, in no particular order; opening it may fail.  A sibling
\* that exits while it is looked at reads like one that had exited before, or cannot be
\* read, or is found and cannot be opened: the three alternatives.
Pick(l) ==
  /\ pc[l] = "pick"
  /\ \E unread \in SUBSET (siblings[l] \cap Unreadable) :
       \/ /\ Eligible(l, unread) = {}
          /\ sawOwn' = [sawOwn EXCEPT ![l] =
               @ \/ \E p \in siblings[l] \ unread : app[p] = "windowed" /\ owner[p] = l]
          /\ Goto(l, "rules")
          /\ UNCHANGED <<locals, result>>
       \/ /\ Eligible(l, unread) # {}
          /\ Goto(l, "rules")
          /\ UNCHANGED <<locals, result, sawOwn>>
       \/ \E p \in Eligible(l, unread) :
            Track(l, p, IF p \in unread THEN "unverified" ELSE "verified") /\ UNCHANGED sawOwn
  /\ UNCHANGED <<procVars, boot, callerVars>>

Alone(l) == siblings[l] = {}
Settled(l) == alive[l] /\ Alone(l) /\ time[l] >= Grace

\* Mutant: the launched process is looked at again after the listing.
FailedNow(l) == boot[l] \notin Running /\ Alone(l) /\ l \notin Shell

Failed(l) == ~alive[l] /\ Alone(l) /\ l \notin Shell

\* Mutant: no deadline.
RulesForEver(l) ==
  /\ pc[l] = "rules"
  /\ \/ Settled(l) /\ Track(l, boot[l], "grace")
     \/ Failed(l) /\ Track(l, boot[l], "early")
     \/ ~Settled(l) /\ ~Failed(l) /\ Goto(l, "alive") /\ UNCHANGED <<locals, result>>
  /\ UNCHANGED <<procVars, boot, sawOwn, callerVars>>

\* No handoff, early exit, timeout, or another round after 200 ms.
Rules(l) ==
  /\ pc[l] = "rules"
  /\ \/ Settled(l) /\ Track(l, boot[l], "grace")
     \/ Failed(l) /\ Track(l, boot[l], "early")
     \/ ~Settled(l) /\ ~Failed(l) /\ time[l] >= Deadline /\ Track(l, boot[l], "deadline")
     \/ /\ ~Settled(l) /\ ~Failed(l) /\ time[l] < Deadline
        /\ siblings' = [siblings EXCEPT ![l] = {}]
        /\ alive' = [alive EXCEPT ![l] = FALSE]
        /\ Goto(l, "alive")
        /\ UNCHANGED <<pre, time, result>>
  /\ UNCHANGED <<procVars, boot, sawOwn, callerVars>>

\* Mutant: the launched process is bound, whichever was adopted.
BindLaunched(l) ==
  /\ pc[l] = "bind"
  /\ job' = IF l \in Detached THEN job ELSE job \cup ({boot[l]} \cap Running)
  /\ Goto(l, "done")
  /\ UNCHANGED <<procVars, boot, locals, result, sawOwn, caller, killed>>

\* bind_to_lifetime_job, unless detached; a process that has exited is refused.
Bind(l) ==
  /\ pc[l] = "bind"
  /\ \/ l \notin Detached /\ job' = job \cup ({tracked[l]} \cap Running)
     \/ (l \in Detached \/ AssignMayFail) /\ UNCHANGED job
  /\ Goto(l, "done")
  /\ UNCHANGED <<procVars, boot, locals, result, sawOwn, caller, killed>>
-------------------------------------------------------------------------------
Tick(l) ==
  /\ pc[l] \in Looping
  /\ time[l] < Deadline
  /\ time' = [time EXCEPT ![l] = @ + 1]
  /\ UNCHANGED <<procVars, pc, boot, pre, alive, siblings, result, sawOwn, callerVars>>

\* The bootstrapper, while it runs, starts the editor, outside of any job; the
\* shell starts the app when it gets to it.
StartEditor(l) ==
  /\ l \in Handoff \cup Shell
  /\ boot[l] # NoPid /\ EditorsOf(l) = {}
  /\ l \in Handoff => boot[l] \in Running
  /\ \E p \in Pids : Start(l, p)
  /\ UNCHANGED <<pc, boot, locals, result, sawOwn, callerVars>>

HumanStarts(p) ==
  /\ Start(Human, p)
  /\ UNCHANGED <<pc, boot, locals, result, sawOwn, callerVars>>

\* The bootstrapper of a handoff shows no window.
ShowsWindow(p) ==
  /\ app[p] = "hidden"
  /\ \A l \in Handoff : boot[l] # p
  /\ app' = [app EXCEPT ![p] = "windowed"]
  /\ UNCHANGED <<owner, pc, boot, locals, result, sawOwn, callerVars>>

Exits(p) ==
  /\ p \in Running
  /\ app' = [app EXCEPT ![p] = "gone"]
  /\ UNCHANGED <<owner, pc, boot, locals, result, sawOwn, callerVars>>

\* However the caller dies, the job's last handle is closed.  The model ends here.
CallerDies ==
  /\ caller' = "dead"
  /\ killed' = job \cap Running
  /\ app' = [p \in Pids |-> IF p \in job \cap Running THEN "gone" ELSE app[p]]
  /\ UNCHANGED <<owner, pc, boot, locals, result, sawOwn, job>>

LaunchStep(l) ==
  /\ caller = "up"
  /\ \/ CreateProcess(l)
     \/ ReadAlive(l)
     \/ FastPath(l)
     \/ List(l)
     \/ Pick(l)
     \/ Rules(l)
     \/ Bind(l)

Next ==
  \/ \E l \in Launches : LaunchStep(l)
  \/ /\ caller = "up"
     /\ \/ \E l \in Launches : Snapshot(l) \/ Tick(l) \/ StartEditor(l)
        \/ \E p \in Pids : HumanStarts(p) \/ ShowsWindow(p) \/ Exits(p)
        \/ CallerDies

Spec == Init /\ [][Next]_vars

\* The launching thread runs and time passes.  No process is obliged to start,
\* to show a window or to exit.
FairSpec == Spec /\ \A l \in Launches : WF_vars(LaunchStep(l)) /\ WF_vars(caller = "up" /\ Tick(l))
-------------------------------------------------------------------------------
\* Every variable stays in its range; a launch past CreateProcessW has a process,
\* and one that has returned a Child tracks one.
TypeOK ==
  /\ app \in [Pids -> {"none", "hidden", "windowed", "gone"}]
  /\ owner \in [Pids -> Launches \cup {Human, NoOwner}]
  /\ pc \in [Launches -> {"idle", "create", "bind", "done", "failed"} \cup Looping]
  /\ boot \in [Launches -> Pids \cup {NoPid}]
  /\ pre \in [Launches -> SUBSET Pids]
  /\ alive \in [Launches -> BOOLEAN]
  /\ siblings \in [Launches -> SUBSET Pids]
  /\ time \in [Launches -> 0 .. Deadline]
  /\ tracked \in [Launches -> Pids \cup {NoPid}]
  /\ how \in [Launches -> {"none", "window", "verified", "unverified",
                           "grace", "early", "deadline"}]
  /\ sawOwn \in [Launches -> BOOLEAN]
  /\ \A l \in Launches : pc[l] \in Looping => boot[l] \in Pids
  /\ \A l \in Launches : pc[l] \in {"bind", "done"} => tracked[l] \in Pids
  /\ job \subseteq Pids
  /\ caller \in {"up", "dead"}
  /\ killed \subseteq Pids

\* Where listings do not fail, a launch is reported as an early exit only when nothing
\* of it is left: the editor that a bootstrapper started before it exited is not
\* overlooked, for the launched process is looked at before the instances are listed.
EarlyExitIsGenuine ==
  ~ListingMayFail =>
    \A l \in Launches : how[l] = "early" => \A p \in Pids : owner[p] = l => app[p] = "gone"

\* With unique arguments and readable command lines every launch tracks a process
\* of its own, whatever other launches and people start.
TracksOwn ==
  UniqueArgs /\ Unreadable = {} =>
    \A l \in Launches : tracked[l] # NoPid => owner[tracked[l]] = l

\* ... and a launch that has looked at its own windowed editor tracks it.
OwnNeverPassedOver ==
  UniqueArgs /\ Unreadable = {} =>
    \A l \in Launches : sawOwn[l] => tracked[l] \in EditorsOf(l)

\* What a non-detached launch tracked when it returned does not survive the caller,
\* and the caller's death kills neither a human's app nor a detached one.
CallerTakesItsOwn ==
  /\ caller = "dead" /\ ~AssignMayFail =>
       \A l \in Launches \ Detached : pc[l] = "done" => app[tracked[l]] = "gone"
  /\ UniqueArgs /\ Unreadable = {} =>
       \A p \in killed : owner[p] \in Launches \ Detached

\* The inductive invariant behind these (AdoptWindowsProofs): who owns which process,
\* what a search may still find, what the end of the launched process implies, and
\* what is in the job.
ProcInv ==
  /\ \A p \in Pids : app[p] = "none" <=> owner[p] = NoOwner
  /\ \A p \in OldPids : owner[p] = Human
  /\ \A l \in Launches :
       /\ pc[l] \in {"idle", "create", "failed"} => boot[l] = NoPid
       /\ IF boot[l] = NoPid THEN \A p \in Pids : owner[p] # l ELSE owner[boot[l]] = l
SearchInv ==
  \A l \in Launches :
    /\ \A p \in pre[l] : owner[p] \notin {l, NoOwner}
    /\ \A p \in siblings[l] : p \notin pre[l] /\ owner[p] # NoOwner
    /\ siblings[l] # {} => pc[l] \in {"pick", "rules"}
    /\ pc[l] \notin {"bind", "done"} => tracked[l] = NoPid /\ how[l] = "none"
    /\ tracked[l] # NoPid => owner[tracked[l]] # NoOwner
EndInv ==
  \A l \in Launches :
    /\ pc[l] \in {"window", "list", "pick", "rules"} /\ ~alive[l] => app[boot[l]] = "gone"
    /\ ~ListingMayFail /\ pc[l] \in {"pick", "rules"} /\ ~alive[l] /\ l \notin Shell =>
         \A p \in Pids : owner[p] = l => p \in siblings[l] \/ app[p] = "gone"
    /\ how[l] = "early" => l \notin Shell /\ boot[l] \in Pids
JobInv ==
  /\ ~AssignMayFail =>
       \A l \in Launches \ Detached :
         pc[l] = "done" => tracked[l] \in job \/ app[tracked[l]] = "gone"
  /\ UniqueArgs /\ Unreadable = {} => \A p \in job : owner[p] \in Launches \ Detached
  /\ caller = "up" => killed = {}
AdoptInv ==
  /\ TypeOK /\ ProcInv /\ SearchInv /\ EndInv /\ JobInv
  /\ EarlyExitIsGenuine /\ TracksOwn /\ CallerTakesItsOwn

\* A process that ran before the launch is never tracked, unless the snapshot of
\* the processes before the launch missed it.
TracksNew ==
  [][\A l \in Launches : OldPids \subseteq pre[l] /\ tracked'[l] # tracked[l] =>
       tracked'[l] \notin OldPids]_vars

\* Adoption ends, whatever processes do.
AdoptionEnds ==
  \A l \in Launches : pc[l] = "alive" ~> pc[l] = "done" \/ caller = "dead"

\* Adoption implements the abstract Launch: a call tracks one process, before it returns
\* and for good, and its own if arguments are unique and command lines readable.
Sure(l) == UniqueArgs /\ Unreadable = {} /\ tracked[l] # NoPid
Outcome(l) ==
  IF pc[l] = "done" THEN "child" ELSE IF pc[l] = "failed" THEN "error" ELSE "pending"
Promise ==
  INSTANCE Launch WITH
    Others <- {Human},
    KeptApart <- {},
    named <- tracked,
    sure <- {l \in Launches : Sure(l)},
    outcome <- [l \in Launches |-> Outcome(l)]
ImplementsLaunch == Promise!Spec
===============================================================================

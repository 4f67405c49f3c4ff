---------------------------- MODULE ProcessControl ----------------------------
(***************************************************************************)
(* Child::kill, try_wait and wait (src/src/lib.rs), over the two ways the  *)
(* code names a process: by its pid on macOS (src/src/macos.rs, try_wait)  *)
(* and by a handle on Windows (src/src/windows.rs, kill_io and try_wait).  *)
(*                                                                         *)
(* kill, wait and try_wait take `&mut self': one call at a time on each    *)
(* Child.  Several Children are in use at once, processes exit by          *)
(* themselves, and the system gives a free pid to the next process,        *)
(* another Child's or a stranger's.  An open handle keeps its pid busy.    *)
(* The initial state chooses the platform, and whether pids come back soon *)
(* enough to matter; neither ever changes.                                 *)
(*                                                                         *)
(* A call on a valid handle with the rights it was opened with does not    *)
(* fail: WAIT_FAILED and a failing GetExitCodeProcess are left out, and    *)
(* with them that kill_io takes WAIT_FAILED for a process that has ended.  *)
(***************************************************************************)
EXTENDS Naturals

CONSTANTS Children, Pids, NoPid,
          Nobody,
          Strangers,         \* processes that are no Child's, and those of them
          Foreign,           \* that belong to another user: EPERM
          Codes, Live,       \* exit codes, and "runs"
          NoStatus           \* no call of wait or try_wait has returned a status

Synth == 0         \* make_exit_status(0)
KillCode == 1      \* TerminateProcess(_, 1), and the 9 of SIGKILL, in one
StillActive == 259 \* what GetExitCodeProcess says of a process that runs

ASSUME ControlAssumption ==
  /\ NoPid \notin Pids
  /\ Nobody \notin Children \cup Strangers
  /\ Strangers \cap Children = {} /\ Foreign \subseteq Strangers
  /\ Live \notin Codes /\ NoStatus \notin Codes \cup {Live}
  /\ Synth \in Codes /\ KillCode \in Codes

VARIABLES
  byHandle, \* Windows, or else macOS
  reuse,    \* a free pid may be given out again
  holder,   \* per pid: the Child whose process has it, a stranger or Nobody
  used,     \* pids that were given out before
  code,     \* per Child: the exit code of its process, or Live
  pid,      \* Child::pid
  doomed,   \* the killed processes that have not ended yet
  pc,       \* per Child: "none", "idle", "killing", "wait", "dropped"
  kill,     \* per Child: what the last kill returned: "none", "ok", "err"
  status    \* per Child: the last status that wait or try_wait returned

setup == <<byHandle, reuse>>
vars == <<setup, holder, used, code, pid, doomed, pc, kill, status>>

Init ==
  /\ byHandle \in BOOLEAN
  /\ reuse \in BOOLEAN
  /\ holder = [p \in Pids |-> Nobody]
  /\ used = {}
  /\ code = [c \in Children |-> Live]
  /\ pid = [c \in Children |-> NoPid]
  /\ doomed = {}
  /\ pc = [c \in Children |-> "none"]
  /\ kill = [c \in Children |-> "none"]
  /\ status = [c \in Children |-> NoStatus]
-------------------------------------------------------------------------------
Goto(c, there) == pc' = [pc EXCEPT ![c] = there]

\* Mutant: the handle is closed when the spawn is done.
PinnedNever == {}

\* The pids that an open handle keeps from being given out.
Pinned == IF byHandle THEN {pid[c] : c \in {d \in Children : pc[d] \notin {"none", "dropped"}}} ELSE {}

Free == {p \in Pids : holder[p] = Nobody /\ p \notin Pinned /\ (reuse \/ p \notin used)}

Occupy(p, h) ==
  /\ p \in Free
  /\ holder' = [holder EXCEPT ![p] = h]
  /\ used' = used \cup {p}

Spawned(c) ==
  /\ pc[c] = "none"
  /\ \E p \in Pids : Occupy(p, c) /\ pid' = [pid EXCEPT ![c] = p]
  /\ Goto(c, "idle")
  /\ UNCHANGED <<setup, code, doomed, kill, status>>

\* The process of h ends with exit code n, and frees its pid.
End(h, n) ==
  /\ holder' = [p \in Pids |-> IF holder[p] = h THEN Nobody ELSE holder[p]]
  /\ code' = IF h \in Children THEN [code EXCEPT ![h] = n] ELSE code
  /\ doomed' = doomed \ {h}

\* The process behind the Child, as its calls see it.
Target(c) == IF byHandle THEN c ELSE holder[pid[c]]
Alive(h) == IF h \in Children THEN code[h] = Live ELSE h \in Strangers

\* kill_io looks whether the process runs, and terminates it in another call.
KillLooks(c) ==
  /\ pc[c] = "idle"
  /\ IF byHandle /\ ~Alive(c)
       THEN kill' = [kill EXCEPT ![c] = "ok"] /\ UNCHANGED pc
       ELSE Goto(c, "killing") /\ UNCHANGED kill
  /\ UNCHANGED <<setup, holder, used, code, pid, doomed, status>>

\* libc::kill takes ESRCH for success and returns EPERM; TerminateProcess refuses a
\* process that has exited, and may refuse one that is being terminated.  Neither
\* waits for the end.
KillActs(c) ==
  /\ pc[c] = "killing"
  /\ Goto(c, "idle")
  /\ \/ /\ Alive(Target(c)) /\ Target(c) \notin Foreign
        /\ doomed' = doomed \cup {Target(c)}
        /\ kill' = [kill EXCEPT ![c] = "ok"]
     \/ /\ IF byHandle THEN ~Alive(Target(c)) \/ Target(c) \in doomed ELSE Target(c) \in Foreign
        /\ kill' = [kill EXCEPT ![c] = "err"]
        /\ UNCHANGED doomed
     \/ /\ ~byHandle /\ ~Alive(Target(c))
        /\ kill' = [kill EXCEPT ![c] = "ok"]
        /\ UNCHANGED doomed
  /\ UNCHANGED <<setup, holder, used, code, pid, status>>

\* Mutant: the exit code is not asked for.
SeenSynth(c) == IF Alive(Target(c)) THEN Live ELSE Synth

\* Mutant: the exit code is asked for first, and 259 means that the process runs.
SeenActive(c) ==
  IF Alive(Target(c)) \/ code[c] = StillActive THEN Live ELSE IF byHandle THEN code[c] ELSE Synth

\* try_wait: None, the real code of a handle's process, or a synthesized one.  A
\* foreign process is EPERM, which try_wait and wait return.
Seen(c) ==
  IF Alive(Target(c)) THEN Live ELSE IF byHandle THEN code[c] ELSE Synth

TryWait(c) ==
  /\ pc[c] = "idle"
  /\ Target(c) \notin Foreign
  /\ status' = [status EXCEPT ![c] = Seen(c)]
  /\ UNCHANGED <<setup, holder, used, code, pid, doomed, pc, kill>>

Wait(c) ==
  /\ pc[c] = "idle"
  /\ Goto(c, "wait")
  /\ UNCHANGED <<setup, holder, used, code, pid, doomed, kill, status>>

\* One round of wait's loop.
Poll(c) ==
  /\ pc[c] = "wait"
  /\ \/ Target(c) \in Foreign /\ UNCHANGED status
     \/ /\ Target(c) \notin Foreign /\ Seen(c) # Live
        /\ status' = [status EXCEPT ![c] = Seen(c)]
  /\ Goto(c, "idle")
  /\ UNCHANGED <<setup, holder, used, code, pid, doomed, kill>>

\* Dropping the Child closes the handle and leaves the app alone.
Drop(c) ==
  /\ pc[c] = "idle"
  /\ Goto(c, "dropped")
  /\ UNCHANGED <<setup, holder, used, code, pid, doomed, kill, status>>
-------------------------------------------------------------------------------
Exits(c) ==
  /\ pc[c] # "none" /\ code[c] = Live
  /\ \E n \in Codes : End(c, n)
  /\ UNCHANGED <<setup, used, pid, pc, kill, status>>

Dies(h) ==
  /\ h \in doomed
  /\ End(h, KillCode)
  /\ UNCHANGED <<setup, used, pid, pc, kill, status>>

StrangerStarts(h) ==
  /\ h \notin {holder[p] : p \in Pids}
  /\ \E p \in Pids : Occupy(p, h)
  /\ UNCHANGED <<setup, code, pid, doomed, pc, kill, status>>

Next ==
  \/ \E c \in Children :
       Spawned(c) \/ KillLooks(c) \/ KillActs(c) \/ TryWait(c) \/ Wait(c) \/ Poll(c)
         \/ Drop(c) \/ Exits(c)
  \/ \E h \in Strangers : StrangerStarts(h)
  \/ \E h \in Children \cup Strangers : Dies(h)

Spec == Init /\ [][Next]_vars

\* A call that was begun goes on, the sleep of wait's loop ends, and what was
\* killed dies.
FairSpec ==
  Spec /\ \A c \in Children : WF_vars(Poll(c)) /\ WF_vars(KillActs(c)) /\ WF_vars(Dies(c))
-------------------------------------------------------------------------------
\* Every variable stays in its range; a process that runs has its pid, and only
\* its own, and no handle's pid is anyone else's.
TypeOK ==
  /\ byHandle \in BOOLEAN /\ reuse \in BOOLEAN
  /\ holder \in [Pids -> Children \cup Strangers \cup {Nobody}]
  /\ used \subseteq Pids
  /\ code \in [Children -> Codes \cup {Live}]
  /\ pid \in [Children -> Pids \cup {NoPid}]
  /\ doomed \subseteq Children \cup Strangers
  /\ pc \in [Children -> {"none", "idle", "killing", "wait", "dropped"}]
  /\ kill \in [Children -> {"none", "ok", "err"}]
  /\ status \in [Children -> Codes \cup {Live, NoStatus}]
  /\ \A p \in Pids, c \in Children :
       holder[p] = c <=> pid[c] = p /\ pc[c] # "none" /\ code[c] = Live
  /\ byHandle =>
       \A c \in Children : pc[c] \notin {"none", "dropped"} => holder[pid[c]] \in {c, Nobody}

\* "Callers that need the real exit code should use `Child::try_wait()` / `wait()`
\* instead." (lib.rs:69-70)  On Windows they get it, also when it is 259; on macOS
\* they get a synthesized 0, but never before the exit.
StatusIsReal ==
  \A c \in Children : status[c] \in Codes =>
    IF byHandle THEN status[c] = code[c] ELSE code[c] # Live

\* The inductive invariant behind both (ProcessControlProofs): a Child has a pid, and
\* only a process that runs is doomed, so that an exit code is set once.
DoomedInv ==
  /\ \A c \in Children : IF pc[c] = "none" THEN code[c] = Live ELSE pid[c] \in Pids
  /\ \A c \in Children : c \in doomed => code[c] = Live /\ pc[c] # "none"
ControlInv == TypeOK /\ StatusIsReal /\ DoomedInv

\* Through a handle, or while no pid comes back, a Child keeps to its own process: its pid
\* is nobody else's until the Child is dropped; what a kill dooms is the process of the
\* Child that was killed, never a stranger or another Child's; a kill that said Ok has
\* ended it or will; and an exit that wait or try_wait has reported is not taken back.
KeepsToItsOwn ==
  [][byHandle \/ ~reuse =>
       /\ \A c \in Children :
            pc'[c] \notin {"none", "dropped"} => holder'[pid'[c]] \in {c, Nobody}
       /\ \A h \in doomed' \ doomed : h \in Children /\ pc[h] = "killing"
       /\ \A c \in Children : kill'[c] = "ok" => c \in doomed' \/ code'[c] # Live
       /\ \A c \in Children : status[c] \in Codes => status'[c] = status[c]]_vars

\* The inductive invariant behind it: the pid of a process that has ended stays free, an
\* Ok of kill is kept, and the only exit that macOS reports is the synthesized one.
OwnInv ==
  /\ ~reuse =>
       \A c \in Children : pc[c] # "none" => pid[c] \in used /\ holder[pid[c]] \in {c, Nobody}
  /\ byHandle \/ ~reuse =>
       \A c \in Children : kill[c] = "ok" => c \in doomed \/ code[c] # Live
  /\ ~byHandle => \A c \in Children : status[c] \in {Synth, Live, NoStatus}

\* wait returns once the process has exited or was killed, unless on macOS another
\* process is given its pid before wait looks again.
WaitReturns ==
  byHandle \/ ~reuse =>
    \A c \in Children : pc[c] = "wait" /\ (code[c] # Live \/ c \in doomed) ~> pc[c] # "wait"
===============================================================================

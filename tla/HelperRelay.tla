------------------------------ MODULE HelperRelay ------------------------------
(***************************************************************************)
(* The macOS helper of one launch (src/src/macos.rs, run_helper_main and   *)
(* relay_pty_to), between the calling process and the app.                 *)
(*                                                                         *)
(* The app writes lines to two ptys; a relay thread per stream reads a     *)
(* line and writes it to the helper's own stdout or stderr, a pipe to the  *)
(* parent, whose drain thread (src/src/lib.rs) puts it into an unbounded   *)
(* channel.  A stream is four counters: the lines the app wrote, the relay *)
(* took, the relay put into the pipe and the parent got.  The pty and the  *)
(* pipe are what lies between two of them, and both are bounded.           *)
(***************************************************************************)
EXTENDS Naturals

CONSTANTS Output,          \* the lines the app writes, for each stream
          Bad,             \* per stream, the lines that are not UTF-8
          PtyCap, PipeCap  \* lines that fit into a pty and into a pipe

Streams == {"out", "err"}

ASSUME RelayAssumption ==
  /\ Output \in [Streams -> Nat]
  /\ Bad \in [Streams -> SUBSET (Nat \ {0})]
  /\ PtyCap \in Nat \ {0} /\ PipeCap \in Nat \ {0}

VARIABLES
  detached, \* --detached
  parent,  \* "claiming", "draining", "diagnosing", "failed", "dead"
  helper,  \* "start", "open", "threads", "watch", "join", "exited"
  watch,   \* parent_exit watches the parent
  app,     \* "none", "running", "exited"
  relay,   \* per stream: "off", "line", "write", "sink", "done"
  wrote, took, put, got

counters == <<wrote, took, put, got>>
vars == <<detached, parent, helper, watch, app, relay, counters>>

\* The parent's end of the pipes, and the helper's end of a pty.
PipeOpen == parent \in {"claiming", "draining", "diagnosing"}
MasterOpen(s) == helper # "exited" /\ relay[s] # "done"
Blocked(s) == app = "running" /\ MasterOpen(s) /\ wrote[s] - took[s] = PtyCap

Init ==
  /\ detached \in BOOLEAN
  /\ parent = "claiming"
  /\ helper = "start"
  /\ watch = FALSE
  /\ app = "none"
  /\ relay = [s \in Streams |-> "off"]
  /\ wrote = [s \in Streams |-> 0]
  /\ took = [s \in Streams |-> 0]
  /\ put = [s \in Streams |-> 0]
  /\ got = [s \in Streams |-> 0]
-------------------------------------------------------------------------------
\* setsid, the signals, the arguments and the two ptys.
CreatePtys ==
  /\ helper = "start"
  /\ helper' \in {"open", "exited"}
  /\ UNCHANGED <<detached, parent, watch, app, relay, counters>>

Open ==
  /\ helper = "open"
  /\ \/ helper' = "threads" /\ app' = "running"
     \/ helper' = "exited" /\ UNCHANGED app
  /\ UNCHANGED <<detached, parent, watch, relay, counters>>

StartThreads ==
  /\ helper = "threads"
  /\ helper' = "watch"
  /\ relay' = [s \in Streams |-> "line"]
  /\ UNCHANGED <<detached, parent, watch, app, counters>>

\* Mutant: --detached is not looked at.
WatchAlways ==
  /\ helper = "watch"
  /\ helper' = "join"
  /\ watch' = (parent # "dead")
  /\ UNCHANGED <<detached, parent, app, relay, counters>>

\* getppid() is 1 once the parent is dead, and then nothing is watched.
Watch ==
  /\ helper = "watch"
  /\ helper' = "join"
  /\ watch' = (~detached /\ parent # "dead")
  /\ UNCHANGED <<detached, parent, app, relay, counters>>

\* The parent_exit handler: exit(0).
ParentExit ==
  /\ watch /\ parent = "dead"
  /\ helper = "join"
  /\ helper' = "exited"
  /\ UNCHANGED <<detached, parent, watch, app, relay, counters>>

\* Mutant: only the stderr thread is joined.
JoinErr ==
  /\ helper = "join"
  /\ relay["err"] = "done"
  /\ helper' = "exited"
  /\ UNCHANGED <<detached, parent, watch, app, relay, counters>>

Join ==
  /\ helper = "join"
  /\ \A s \in Streams : relay[s] = "done"
  /\ helper' = "exited"
  /\ UNCHANGED <<detached, parent, watch, app, relay, counters>>
-------------------------------------------------------------------------------
\* relay_pty_to, one thread per stream.
Relay(s, from, to) ==
  /\ helper \in {"watch", "join"}
  /\ relay[s] = from
  /\ relay' = [relay EXCEPT ![s] = to]

Take(s) ==
  /\ took[s] < wrote[s]
  /\ took' = [took EXCEPT ![s] = @ + 1]

\* read_line fails on a line that is not UTF-8, and the thread returns.
ReadLine(s) ==
  /\ Take(s)
  /\ Relay(s, "line", IF wrote[s] > took[s] /\ took[s] + 1 \in Bad[s] THEN "done" ELSE "write")
  /\ UNCHANGED <<detached, parent, helper, watch, app, wrote, put, got>>

\* Mutant: write_all is tried again for ever.
WriteLineRetries(s) ==
  /\ PipeOpen /\ put[s] - got[s] < PipeCap
  /\ Relay(s, "write", "line")
  /\ put' = [put EXCEPT ![s] = @ + 1]
  /\ UNCHANGED <<detached, parent, helper, watch, app, wrote, took, got>>

\* Mutant: a line may be written a second time.
WriteLineTwice(s) ==
  /\ PipeOpen /\ put[s] - got[s] < PipeCap
  /\ Relay(s, "write", "line") \/ Relay(s, "write", "write")
  /\ put' = [put EXCEPT ![s] = @ + 1]
  /\ UNCHANGED <<detached, parent, helper, watch, app, wrote, took, got>>

\* A failed write drops the line and turns to sink mode.
WriteLine(s) ==
  /\ \/ /\ PipeOpen /\ put[s] - got[s] < PipeCap
        /\ Relay(s, "write", "line")
        /\ put' = [put EXCEPT ![s] = @ + 1]
     \/ /\ ~PipeOpen
        /\ Relay(s, "write", "sink")
        /\ UNCHANGED put
  /\ UNCHANGED <<detached, parent, helper, watch, app, wrote, took, got>>

ReadSink(s) ==
  /\ Take(s)
  /\ Relay(s, "sink", "sink")
  /\ UNCHANGED <<detached, parent, helper, watch, app, wrote, put, got>>

\* The pty's end: every slave is closed and nothing is left to read.
ReadEnd(s) ==
  /\ app = "exited" /\ took[s] = wrote[s]
  /\ Relay(s, "line", "done") \/ Relay(s, "sink", "done")
  /\ UNCHANGED <<detached, parent, helper, watch, app, counters>>
-------------------------------------------------------------------------------
\* The parent: spawn_piped claims the running app and starts both drain threads,
\* or gives up, reads stderr to its end and drops the pipes.
Claim ==
  /\ parent = "claiming"
  /\ app = "running"
  /\ parent' = "draining"
  /\ UNCHANGED <<detached, helper, watch, app, relay, counters>>

GiveUp ==
  /\ parent = "claiming"
  /\ parent' = "diagnosing"
  /\ UNCHANGED <<detached, helper, watch, app, relay, counters>>

\* Mutant: `if let' for `while let'.
DrainOnce(s) ==
  /\ parent = "draining" \/ (parent = "diagnosing" /\ s = "err")
  /\ got[s] = 0 /\ put[s] > 0
  /\ got' = [got EXCEPT ![s] = 1]
  /\ UNCHANGED <<detached, parent, helper, watch, app, relay, wrote, took, put>>

\* start_drain_thread's loop, or read_to_string.
Drain(s) ==
  /\ parent = "draining" \/ (parent = "diagnosing" /\ s = "err")
  /\ got[s] < put[s]
  /\ got' = [got EXCEPT ![s] = @ + 1]
  /\ UNCHANGED <<detached, parent, helper, watch, app, relay, wrote, took, put>>

Diagnosed ==
  /\ parent = "diagnosing"
  /\ helper = "exited" /\ got["err"] = put["err"]
  /\ parent' = "failed"
  /\ UNCHANGED <<detached, helper, watch, app, relay, counters>>

ParentDies ==
  /\ parent # "dead"
  /\ parent' = "dead"
  /\ UNCHANGED <<detached, helper, watch, app, relay, counters>>
-------------------------------------------------------------------------------
\* The app writes, blocks on a full pty, loses what it writes to a closed one,
\* exits, or is hung up when the helper is gone.
AppWrites(s) ==
  /\ app = "running"
  /\ wrote[s] < Output[s]
  /\ wrote' = [wrote EXCEPT ![s] = @ + 1]
  /\ \/ MasterOpen(s) /\ wrote[s] - took[s] < PtyCap /\ UNCHANGED took
     \/ ~MasterOpen(s) /\ took' = [took EXCEPT ![s] = wrote[s] + 1]
  /\ UNCHANGED <<detached, parent, helper, watch, app, relay, put, got>>

AppExits ==
  /\ app = "running"
  /\ app' = "exited"
  /\ UNCHANGED <<detached, parent, helper, watch, relay, counters>>

HungUp == helper = "exited" /\ AppExits

HelperStep == CreatePtys \/ Open \/ StartThreads \/ Watch \/ ParentExit \/ Join
RelayStep(s) == ReadLine(s) \/ WriteLine(s) \/ ReadSink(s) \/ ReadEnd(s)

Next ==
  \/ HelperStep
  \/ \E s \in Streams : RelayStep(s) \/ Drain(s) \/ AppWrites(s)
  \/ Claim \/ GiveUp \/ Diagnosed \/ ParentDies
  \/ AppExits

Spec == Init /\ [][Next]_vars

\* Every thread runs, spawn_piped's search ends, parent_exit reports and the kernel
\* hangs up.  Nothing makes the parent die, nor an app that has nothing left to
\* write exit.
FairSpec ==
  /\ Spec
  /\ WF_vars(HelperStep) /\ WF_vars(Claim \/ GiveUp) /\ WF_vars(Diagnosed)
  /\ WF_vars(HungUp)
  /\ \A s \in Streams : WF_vars(RelayStep(s)) /\ WF_vars(Drain(s)) /\ WF_vars(AppWrites(s))
-------------------------------------------------------------------------------
\* Every variable stays in its range, and a stream's counters in their order:
\* neither a pty nor a pipe holds more than fits.
TypeOK ==
  /\ parent \in {"claiming", "draining", "diagnosing", "failed", "dead"}
  /\ helper \in {"start", "open", "threads", "watch", "join", "exited"}
  /\ watch \in BOOLEAN
  /\ app \in {"none", "running", "exited"}
  /\ relay \in [Streams -> {"off", "line", "write", "sink", "done"}]
  /\ wrote \in [Streams -> Nat] /\ took \in [Streams -> Nat]
  /\ put \in [Streams -> Nat] /\ got \in [Streams -> Nat]
  /\ \A s \in Streams :
       /\ got[s] <= put[s] /\ put[s] <= took[s]
       /\ took[s] <= wrote[s] /\ wrote[s] <= Output[s]
       /\ put[s] - got[s] <= PipeCap
       /\ MasterOpen(s) => wrote[s] - took[s] <= PtyCap

\* While the parent is there, every line the relay took is in the pipe or in its
\* hands, and a helper that exits after the app has left nothing behind; that the
\* other stream holds a line that is not UTF-8 makes no difference.
NoLineLost ==
  PipeOpen =>
    \A s \in Streams : Bad[s] = {} =>
      /\ MasterOpen(s) => put[s] = IF relay[s] = "write" THEN took[s] - 1 ELSE took[s]
      /\ relay[s] = "done" => put[s] = wrote[s]
      /\ helper = "exited" => put[s] = wrote[s]

\* A helper that exits while the app runs hangs it up: while a relay thread is
\* left only a parent's death may do that, and only to an app that is not detached.
HangsUpOnlyOrphans ==
  (\E s \in Streams : Bad[s] = {}) /\ helper = "exited" /\ app = "running" =>
    parent = "dead" /\ ~detached

\* The inductive invariant behind both (HelperRelayProofs): how far the helper is,
\* what the end of a relay thread says of the app, and who may still be in sink mode.
PhaseInv ==
  /\ helper \in {"start", "open"} => app = "none"
  /\ app = "none" => \A s \in Streams : wrote[s] = 0
  /\ helper \in {"start", "open", "threads"} => \A s \in Streams : relay[s] = "off"
  /\ helper \in {"watch", "join"} => \A s \in Streams : relay[s] # "off"
  /\ watch => ~detached
ThreadInv ==
  /\ \A s \in Streams : relay[s] = "write" => put[s] < took[s]
  /\ \A s \in Streams : relay[s] = "sink" => ~PipeOpen
  /\ \A s \in Streams : Bad[s] = {} /\ relay[s] = "done" => app = "exited" /\ took[s] = wrote[s]
  /\ helper = "exited" =>
       \/ app = "none"
       \/ parent = "dead" /\ ~detached
       \/ \A s \in Streams : relay[s] = "done"
RelayInv == TypeOK /\ PhaseInv /\ ThreadInv /\ NoLineLost

\* Everything an app writes arrives in the end, when the launch succeeds and the
\* parent lives.
EverythingArrives ==
  [](parent \in {"claiming", "draining"}) =>
    \A s \in Streams : Bad[s] = {} => (app = "exited" ~> got[s] = wrote[s])

\* The app is never blocked for ever on a full pty, whether the parent reads, does
\* not read yet, or is dead, but on stdout by a parent that reads stderr to its end.
AppNeverStalls ==
  \A s \in Streams : Blocked(s) ~> ~Blocked(s) \/ (s = "out" /\ parent = "diagnosing")

\* The ptys, the relay and the pipes implement the abstract CapturedOutput: the parent
\* gets every line once and in order, a stream ends for it after the last line, and
\* both end with the helper, unless the parent gives up or dies.
CapturedEnd(s) ==
  IF ~PipeOpen THEN "gone"
  ELSE IF helper = "exited" /\ got[s] = put[s] THEN "ended" ELSE "open"
Captured ==
  INSTANCE CapturedOutput WITH
    running <- IF app = "running" THEN Streams ELSE {},
    Lossy <- {s \in Streams : Bad[s] # {}},
    sent <- wrote,
    end <- [s \in Streams |-> CapturedEnd(s)]
ImplementsCapturedOutput == Captured!Spec
-------------------------------------------------------------------------------
\* What the documentation says, and the code does not keep: "Block on the drain
\* threads. When both finish (app exited), exit 0" (macos.rs:1097), where a failed
\* launch's parent reads the helper's stderr to its end but never its stdout.
HelperExitsWithApp == app = "exited" ~> helper = "exited"

\* What the documentation says, and the code does not keep: "If `!--detached`,
\* watch the parent PID via `parent-exit`; on parent death, exit"
\* (macos.rs:1094-1095)
AppDiesWithParent ==
  ~detached => (parent = "dead" /\ app = "running" ~> app = "exited")
===============================================================================

------------------------------ MODULE ExitNotify ------------------------------
(***************************************************************************)
(* Exit notification of one launched process (src/src/lib.rs): the shared  *)
(* `Arc<Mutex<ExitState>>`, the watcher thread that start_exit_watcher     *)
(* hands to `parent_exit::on_pid_exit`, and every thread that calls        *)
(* `Child::on_exit`, the callbacks themselves included.                    *)
(*                                                                         *)
(* The agents are threads.  Each one has a program counter, the callback   *)
(* it holds in its hands (`arg'), and the callbacks it still has to call   *)
(* (`todo': the watcher's `for cb in callbacks', or the late callback of   *)
(* a caller).  A callback registered under a current tokio runtime is      *)
(* wrapped: calling it only posts a task to that runtime.                  *)
(***************************************************************************)
EXTENDS Naturals, Sequences, SequencesExt

CONSTANTS Threads,         \* user threads sharing the Child
          Watcher,         \* the OS-event thread of parent_exit
          Workers,         \* worker threads of the tokio runtime
          InRuntime,       \* agents with a current runtime (Handle::try_current)
          Callbacks, NoCb,
          Nested,          \* callback that a callback's body registers, or NoCb
          Panicking,       \* callbacks whose body panics
          RuntimeMayStop,  \* the runtime may be shut down while the Child lives
          Codes, Running,  \* exit codes, and "no exit code yet"
          Nobody           \* owner of the free mutex, caller of an unused callback

Agents == Threads \cup Workers \cup {Watcher}
CallbackOrNone == Callbacks \cup {NoCb}
CodeOrRunning == Codes \cup {Running}
PCs == {"idle", "watch", "lock", "locked", "body", "dead"}

\* synth_exit_status: from_raw(0) on both platforms.
Synth == 0

ASSUME AgentsAssumption ==
  /\ Watcher \notin Threads \cup Workers
  /\ Threads \cap Workers = {}
  /\ Nobody \notin Agents
  /\ Workers \subseteq InRuntime
  /\ Watcher \notin InRuntime
ASSUME CallbacksAssumption ==
  /\ NoCb \notin Callbacks
  /\ Nested \in [Callbacks -> CallbackOrNone]
  /\ Panicking \subseteq Callbacks
  /\ RuntimeMayStop \in BOOLEAN
ASSUME CodesAssumption == Running \notin Codes /\ Synth \in Codes

VARIABLES
  exitCode,    \* what the process really exited with, or Running
  status,      \* ExitState: Running is Pending, else Exited(status)
  pending,     \* the callbacks of ExitState::Pending, in order
  mutex,       \* the agent that holds the ExitState mutex, or Nobody
  pc, arg, todo,
  wrapped,     \* callbacks that were wrapped for dispatch onto the runtime
  tasks,       \* callbacks posted to the runtime and not yet taken
  runtimeUp,
  caller,      \* history: the agent that called on_exit with it, or Nobody
  queued,      \* history: callbacks in the order they entered `pending'
  log,         \* history: bodies entered, [cb, by, status], in order
  dropped      \* history: callbacks lost with the executor that held them

shared == <<status, pending, mutex>>
runtime == <<tasks, runtimeUp>>
history == <<caller, queued, log, dropped>>
vars == <<exitCode, shared, pc, arg, todo, wrapped, runtime, history>>

Registered == {c \in Callbacks : caller[c] # Nobody}
Fired == {log[i].cb : i \in DOMAIN log}
Ran == [i \in DOMAIN log |-> log[i].cb]
InHand(a) == IF pc[a] \in {"lock", "locked"} THEN {arg[a]} \ {NoCb} ELSE {}
-------------------------------------------------------------------------------
\* wrap_with_runtime_dispatch looks at the thread that registers the callback.
WrapWithRuntimeDispatch(a, c) == IF a \in InRuntime THEN wrapped \cup {c} ELSE wrapped

\* on_exit up to `self.exit_state.lock()'.
Call(a, c) ==
  /\ caller[c] = Nobody
  /\ caller' = [caller EXCEPT ![c] = a]
  /\ wrapped' = WrapWithRuntimeDispatch(a, c)
  /\ pc' = [pc EXCEPT ![a] = "lock"]
  /\ arg' = [arg EXCEPT ![a] = c]

Lock(a) ==
  /\ mutex = Nobody
  /\ mutex' = a

Unlock(a) ==
  /\ mutex = a
  /\ mutex' = Nobody

\* Mutant: the callbacks are kept as a stack.
QueueAsStack(c) == Cons(c, pending)

Queue(c) == Append(pending, c)

Init ==
  /\ exitCode = Running
  /\ status = Running
  /\ pending = <<>>
  /\ mutex = Nobody
  /\ pc = [a \in Agents |-> IF a = Watcher THEN "watch" ELSE "idle"]
  /\ arg = [a \in Agents |-> NoCb]
  /\ todo = [a \in Agents |-> <<>>]
  /\ wrapped = {}
  /\ tasks = {}
  /\ runtimeUp = TRUE
  /\ caller = [c \in Callbacks |-> Nobody]
  /\ queued = <<>>
  /\ log = <<>>
  /\ dropped = {}
-------------------------------------------------------------------------------
\* The environment: the process exits, user code calls on_exit, the runtime
\* is shut down (which drops the tasks nobody has taken).
ProcessExits ==
  /\ exitCode = Running
  /\ exitCode' \in Codes
  /\ UNCHANGED <<shared, pc, arg, todo, wrapped, runtime, history>>

OnExit(t, c) ==
  /\ pc[t] = "idle"
  /\ todo[t] = <<>>
  /\ Call(t, c)
  /\ UNCHANGED <<exitCode, shared, todo, runtime, queued, log, dropped>>

RuntimeStops ==
  /\ RuntimeMayStop
  /\ runtimeUp
  /\ runtimeUp' = FALSE
  /\ tasks' = {}
  /\ dropped' = dropped \cup tasks
  /\ UNCHANGED <<exitCode, shared, pc, arg, todo, wrapped,
                 caller, queued, log>>
-------------------------------------------------------------------------------
\* The critical sections.
LockState(a) ==
  /\ pc[a] = "lock"
  /\ Lock(a)
  /\ pc' = [pc EXCEPT ![a] = "locked"]
  /\ UNCHANGED <<exitCode, status, pending, arg, todo, wrapped, runtime, history>>

\* Mutant: the state was looked at before the mutex was taken, so a callback is
\* pushed to a vector that the watcher has already drained.
PushUnchecked(a) ==
  /\ pc[a] = "locked"
  /\ arg[a] # NoCb
  /\ pending' = Queue(arg[a])
  /\ queued' = Append(queued, arg[a])
  /\ Unlock(a)
  /\ pc' = [pc EXCEPT ![a] = "idle"]
  /\ UNCHANGED <<exitCode, status, arg, todo, wrapped, runtime,
                 caller, log, dropped>>

\* ExitState::Pending(cbs) => cbs.push(callback)
Push(a) ==
  /\ pc[a] = "locked"
  /\ arg[a] # NoCb
  /\ status = Running
  /\ pending' = Queue(arg[a])
  /\ queued' = Append(queued, arg[a])
  /\ Unlock(a)
  /\ pc' = [pc EXCEPT ![a] = "idle"]
  /\ UNCHANGED <<exitCode, status, arg, todo, wrapped, runtime,
                 caller, log, dropped>>

\* ExitState::Exited(status): copy the status, drop(state), then callback(status)
FireNow(a) ==
  /\ pc[a] = "locked"
  /\ arg[a] # NoCb
  /\ status # Running
  /\ todo' = [todo EXCEPT ![a] = Cons(arg[a], todo[a])]
  /\ Unlock(a)
  /\ pc' = [pc EXCEPT ![a] = "idle"]
  /\ UNCHANGED <<exitCode, status, pending, arg, wrapped, runtime, history>>

\* parent_exit reports the exit; the closure runs on its thread.
WatcherWakes ==
  /\ pc[Watcher] = "watch"
  /\ exitCode # Running
  /\ pc' = [pc EXCEPT ![Watcher] = "lock"]
  /\ UNCHANGED <<exitCode, shared, arg, todo, wrapped, runtime, history>>

\* mem::replace(&mut *guard, Exited(status)); drop(guard)
Swap ==
  /\ pc[Watcher] = "locked"
  /\ arg[Watcher] = NoCb
  /\ status' = Synth
  /\ pending' = <<>>
  /\ todo' = [todo EXCEPT ![Watcher] = pending]
  /\ Unlock(Watcher)
  /\ pc' = [pc EXCEPT ![Watcher] = "idle"]
  /\ UNCHANGED <<exitCode, arg, wrapped, runtime, history>>
-------------------------------------------------------------------------------
\* Calling a callback.
EnterBody(a, c) ==
  /\ log' = Append(log, [cb |-> c, by |-> a, status |-> status])
  /\ pc' = [pc EXCEPT ![a] = "body"]
  /\ arg' = [arg EXCEPT ![a] = c]

\* Mutant: the wrapper is called as if it were the callback.
InvokeInline(a) ==
  /\ pc[a] = "idle"
  /\ todo[a] # <<>>
  /\ EnterBody(a, Head(todo[a]))
  /\ todo' = [todo EXCEPT ![a] = Tail(todo[a])]
  /\ UNCHANGED <<exitCode, shared, wrapped, runtime, caller, queued, dropped>>

\* Mutant: the drain walks over the list and does not consume it, so a callback
\* that was called is still there to be called.
InvokeKeeps(a) ==
  /\ pc[a] = "idle"
  /\ todo[a] # <<>>
  /\ Head(todo[a]) \notin wrapped
  /\ EnterBody(a, Head(todo[a]))
  /\ UNCHANGED <<exitCode, shared, todo, wrapped, runtime, caller, queued, dropped>>

Invoke(a) ==
  /\ pc[a] = "idle"
  /\ todo[a] # <<>>
  /\ Head(todo[a]) \notin wrapped
  /\ EnterBody(a, Head(todo[a]))
  /\ todo' = [todo EXCEPT ![a] = Tail(todo[a])]
  /\ UNCHANGED <<exitCode, shared, wrapped, runtime, caller, queued, dropped>>

\* Mutant: a callback that was posted stays with its poster.
PostKeeps(a) ==
  /\ pc[a] = "idle"
  /\ todo[a] # <<>>
  /\ Head(todo[a]) \in wrapped
  /\ runtimeUp
  /\ tasks' = tasks \cup {Head(todo[a])}
  /\ UNCHANGED <<exitCode, shared, pc, arg, todo, wrapped, runtimeUp, history>>

\* handle.spawn(async move { callback(status) }): a runtime that is shut down
\* drops the future.
Post(a) ==
  /\ pc[a] = "idle"
  /\ todo[a] # <<>>
  /\ Head(todo[a]) \in wrapped
  /\ todo' = [todo EXCEPT ![a] = Tail(todo[a])]
  /\ IF runtimeUp
       THEN tasks' = tasks \cup {Head(todo[a])} /\ UNCHANGED dropped
       ELSE dropped' = dropped \cup {Head(todo[a])} /\ UNCHANGED tasks
  /\ UNCHANGED <<exitCode, shared, pc, arg, wrapped, runtimeUp,
                 caller, queued, log>>

WorkerTakes(w) ==
  /\ runtimeUp
  /\ pc[w] = "idle"
  /\ todo[w] = <<>>
  /\ \E c \in tasks : EnterBody(w, c) /\ tasks' = tasks \ {c}
  /\ UNCHANGED <<exitCode, shared, todo, wrapped, runtimeUp,
                 caller, queued, dropped>>

\* The body registers another callback of the same Child.
BodyCallsOnExit(a) ==
  /\ pc[a] = "body"
  /\ arg[a] \notin Panicking
  /\ Nested[arg[a]] \in Callbacks \ Registered
  /\ Call(a, Nested[arg[a]])
  /\ UNCHANGED <<exitCode, shared, todo, runtime, queued, log, dropped>>

BodyReturns(a) ==
  /\ pc[a] = "body"
  /\ arg[a] \notin Panicking
  /\ Nested[arg[a]] \notin Callbacks \ Registered
  /\ pc' = [pc EXCEPT ![a] = "idle"]
  /\ UNCHANGED <<exitCode, shared, arg, todo, wrapped, runtime, history>>

\* tokio catches the panic of a task; any other thread unwinds and takes the
\* rest of its `for cb in callbacks' with it.
BodyPanics(a) ==
  /\ pc[a] = "body"
  /\ arg[a] \in Panicking
  /\ IF a \in Workers
       THEN pc' = [pc EXCEPT ![a] = "idle"] /\ UNCHANGED <<todo, dropped>>
       ELSE /\ pc' = [pc EXCEPT ![a] = "dead"]
            /\ todo' = [todo EXCEPT ![a] = <<>>]
            /\ dropped' = dropped \cup ToSet(todo[a])
  /\ UNCHANGED <<exitCode, shared, arg, wrapped, runtime,
                 caller, queued, log>>

\* One step of a running thread.
Step(a) ==
  \/ LockState(a)
  \/ Push(a)
  \/ FireNow(a)
  \/ Invoke(a)
  \/ Post(a)
  \/ BodyCallsOnExit(a)
  \/ BodyReturns(a)
  \/ BodyPanics(a)

Next ==
  \/ ProcessExits
  \/ \E t \in Threads, c \in Callbacks : OnExit(t, c)
  \/ RuntimeStops
  \/ WatcherWakes
  \/ Swap
  \/ \E w \in Workers : WorkerTakes(w)
  \/ \E a \in Agents : Step(a)

Spec == Init /\ [][Next]_vars

\* Threads are scheduled, and parent_exit does report an exit.  Nothing obliges
\* the process to exit, a user to call on_exit, or the runtime to stop.  WF is
\* enough for the mutex: a Child is asked for finitely many registrations.
Fairness ==
  /\ \A a \in Agents : WF_vars(Step(a))
  /\ \A w \in Workers : WF_vars(WorkerTakes(w))
  /\ WF_vars(WatcherWakes)
  /\ WF_vars(Swap)

FairSpec == Spec /\ Fairness
-------------------------------------------------------------------------------
\* Every variable stays in its range.
TypeOK ==
  /\ exitCode \in CodeOrRunning
  /\ status \in CodeOrRunning
  /\ pending \in Seq(Callbacks)
  /\ mutex \in Agents \cup {Nobody}
  /\ pc \in [Agents -> PCs]
  /\ arg \in [Agents -> CallbackOrNone]
  /\ todo \in [Agents -> Seq(Callbacks)]
  /\ wrapped \subseteq Callbacks
  /\ tasks \subseteq Callbacks
  /\ runtimeUp \in BOOLEAN
  /\ caller \in [Callbacks -> Agents \cup {Nobody}]
  /\ queued \in Seq(Callbacks)
  /\ log \in Seq([cb : Callbacks, by : Agents, status : CodeOrRunning])
  /\ dropped \subseteq Callbacks

\* No callback body is entered twice, none is entered before the process has
\* exited, and each one is given a real status: the swap to Exited, the drained
\* vector and the late path may not hand out the same callback twice.
FiredOnceAfterExit ==
  /\ \A i, j \in DOMAIN log : log[i].cb = log[j].cb => i = j
  /\ log # <<>> => exitCode # Running
  /\ \A i \in DOMAIN log : log[i].status \in Codes

\* The ExitState mutex is held exactly inside the two critical sections, so a
\* callback body, which may call on_exit itself, never runs under it: a thread
\* that waits for the mutex is never its owner.
LockOnlyInSection == \A a \in Agents : mutex = a <=> pc[a] = "locked"

\* Conservation: a registered callback that is not settled yet is somewhere
\* where a live agent will find it: in the hands of a caller, in the queue
\* while the watcher has not swapped it out, on a thread's list, or in the
\* runtime.  A push that lands after the swap would break it.
NoneForgotten ==
  \A c \in Registered \ (Fired \cup dropped) :
    \/ \E a \in Agents : c \in InHand(a)
    \/ c \in ToSet(pending) /\ status = Running /\ pc[Watcher] \in {"watch", "lock", "locked"}
    \/ \E a \in Agents : c \in ToSet(todo[a]) /\ pc[a] # "dead"
    \/ c \in tasks /\ runtimeUp

\* The queued callbacks that run on the watcher run in registration order,
\* whatever late and nested registrations run in between.
FiredInOrder ==
  \A i, j \in DOMAIN log, m, n \in DOMAIN queued :
    /\ log[i].by = Watcher /\ log[j].by = Watcher
    /\ log[i].cb = queued[m] /\ log[j].cb = queued[n]
    /\ i < j
    => m < n

\* A panicking callback of a caller's own thread, or of a task, takes no other
\* callback down: callbacks are lost only by the watcher's own death or by the
\* end of the runtime.
PanicIsContained ==
  dropped # {} => pc[Watcher] = "dead" \/ ~runtimeUp

\* A callback that was wrapped runs on a worker of its runtime, whichever
\* thread called the wrapper, and one that was not never does.
RunsWhereRegistered ==
  \A i \in DOMAIN log : log[i].by \in Workers <=> caller[log[i].cb] \in InRuntime

\* on_exit implements the promise of ExitOnce.  The promise sees the sequence of
\* the bodies entered, so a second entry of one of them would be a step of it
\* that Run does not allow.
Abs == INSTANCE ExitOnce WITH
         MayDrop <- Panicking # {} \/ RuntimeMayStop,
         exited <- exitCode # Running,
         registered <- Registered,
         ran <- Ran
ImplementsExitOnce == Abs!Spec

\* Every callback registered on a process that exits is settled in the end, and
\* where no executor can die it runs.
EverySettled ==
  \A c \in Callbacks :
    c \in Registered /\ exitCode # Running ~>
      c \in Fired \/ (c \in dropped /\ (Panicking # {} \/ RuntimeMayStop))
-------------------------------------------------------------------------------
(***************************************************************************)
(* The inductive invariant behind the properties above (ExitNotifyProofs). *)
(***************************************************************************)
Own(a) == InHand(a) \cup ToSet(todo[a])

\* Who may be where: the mutex, the watcher's one swap, and the fact that only
\* the watcher ever holds more than the callback it is busy with.
ControlInv ==
  /\ LockOnlyInSection
  /\ pc[Watcher] = "watch" => arg[Watcher] = NoCb
  /\ \A a \in Agents : pc[a] = "body" => arg[a] # NoCb
  /\ \A a \in Agents : pc[a] = "dead" => todo[a] = <<>>
  /\ \A a \in Agents \ {Watcher} :
       /\ pc[a] # "watch"
       /\ pc[a] \in {"lock", "locked"} => arg[a] # NoCb
       /\ pc[a] # "idle" => todo[a] = <<>>
       /\ Len(todo[a]) <= 1
  /\ status = Running <=>
       pc[Watcher] = "watch" \/ (pc[Watcher] \in {"lock", "locked"} /\ arg[Watcher] = NoCb)

\* What each phase of ExitState implies.
PhaseInv ==
  /\ status # Running => status \in Codes /\ pending = <<>>
  /\ pc[Watcher] # "watch" => exitCode # Running
  /\ status = Running =>
       /\ tasks = {} /\ log = <<>> /\ dropped = {}
       /\ \A a \in Agents : todo[a] = <<>> /\ pc[a] # "body"
  /\ ~runtimeUp => RuntimeMayStop /\ tasks = {}
  /\ \A i \in DOMAIN log : log[i].status \in Codes

\* No place holds a callback twice.
NoRepeats ==
  /\ IsInjective(pending)
  /\ \A a \in Agents : IsInjective(todo[a])
  /\ \A i, j \in DOMAIN log : log[i].cb = log[j].cb => i = j

\* Every registered callback is in exactly one place.
OnePlace ==
  /\ \A a, b \in Agents : a # b => Own(a) \cap Own(b) = {}
  /\ \A a \in Agents :
       /\ InHand(a) \cap ToSet(todo[a]) = {}
       /\ Own(a) \cap (ToSet(pending) \cup tasks \cup Fired \cup dropped) = {}
  /\ ToSet(pending) \cap (tasks \cup Fired \cup dropped) = {}
  /\ tasks \cap (Fired \cup dropped) = {}
  /\ Fired \cap dropped = {}
  /\ \A c \in Callbacks :
       c \in Registered <=>
         \/ \E a \in Agents : c \in Own(a)
         \/ c \in ToSet(pending) \cup tasks \cup Fired \cup dropped

\* Which thread a callback belongs to while it is on its way.
OwnerInv ==
  /\ wrapped = {c \in Registered : caller[c] \in InRuntime}
  /\ tasks \subseteq wrapped
  /\ RunsWhereRegistered
  /\ \A a \in Agents : \A c \in InHand(a) : caller[c] = a
  /\ \A a \in Agents \ {Watcher} : \A c \in ToSet(todo[a]) : caller[c] = a

Inv == ControlInv /\ PhaseInv /\ NoRepeats /\ OnePlace /\ OwnerInv

\* c was not queued after d; true of callbacks that were never queued.
Before(c, d) ==
  \A m, n \in DOMAIN queued : c = queued[m] /\ d = queued[n] => m < n

\* The order of registration, on its way from the queue through the watcher's
\* list to the log.  A nested registration that jumps the list was never queued.
OrderInv ==
  /\ status = Running => pending = queued
  /\ IsInjective(queued)
  /\ ToSet(queued) \subseteq Registered
  /\ \A a \in Agents : InHand(a) \cap ToSet(queued) = {}
  /\ \A i, j \in DOMAIN todo[Watcher] : i < j => Before(todo[Watcher][i], todo[Watcher][j])
  /\ \A i \in DOMAIN log : log[i].by = Watcher =>
       \A c \in ToSet(todo[Watcher]) : Before(log[i].cb, c)
  /\ FiredInOrder
===============================================================================

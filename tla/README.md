# TLA+ for launch-control

launch-control launches GUI applications on macOS and Windows and gives the caller a `Child` to
wait on, kill, focus, type into, and read from. It is a small library full of interleavings:
the app is not a child of the caller, so every fact about it (its pid, its exit, its window,
its output) is asked of the system in one call and used in a later one, while other launches,
other processes and people do the same.

This directory has a TLA+ module for each of those parts, TLC runs for all of them, and TLAPS
proofs of every invariant, action property and refinement that the passing runs check. Source
lines below are those of `src/src/`.

## 1. The system

| Part | Source | State | Operations | Interacts with |
|---|---|---|---|---|
| Exit notification | `lib.rs` 47-118, 319-352 | `ExitState` in a mutex: the queue of callbacks, or the status | `on_exit`, the watcher's swap and drain, the dispatch to tokio | user threads, `parent_exit`'s thread, runtime workers, callbacks that register callbacks |
| macOS piped spawn | `macos.rs` 15-22, 684-699, 863-1040 | `SPAWN_PIPED_LOCK`, the pids before the launch, the fallback candidate, the helper | snapshot, start of the helper, 50 rounds of scan and poll, claim, give-up | other launches in this and other processes, people, the helper |
| The helper | `macos.rs` 1098-1367 | two ptys, two relay threads, the watch on the parent | `open`, relay of lines, sink mode, exit with the parent or with the last line | the app, the parent's drain threads |
| Windows spawn and adoption | `windows.rs` 253-409, 460-747 | the pids before the launch, the launched process, the lifetime job | `CreateProcessW`, the polling loop of `adopt_real_process`, binding | bootstrappers and the shell, other launches, people, the caller's death |
| Process control | `lib.rs` 262-315, `macos.rs` 652-681, `windows.rs` 210-251 | a pid, or a handle | `kill`, `wait`, `try_wait`, drop | other processes that are given a free pid |
| Captured output | `windows.rs` 306-425, `lib.rs` 454-601 | pipes and who holds their ends, the channel, the reader's buffer | creation, drain, `read`, `fill_buf`, `consume`, `recv_timeout`, `try_recv`, drop | apps of other launches that inherit a handle |
| Focus and keystrokes on Windows | `windows.rs` 48-208, 820-860 | `KEYSTROKE_LOCK`; the desktop's foreground and input queue | `focus`, `send_keystroke` | the system's delivery of input, other callers, people |
| macOS simple spawn | `macos.rs` 702-798 | the completion's channel | the request, the wait of at most 30 s | NSWorkspace, piped launches that see its app |
| macOS focus and keystrokes | `macos.rs` 31-58, 137-246 | which route a key takes; the system's queues | `focus`, `send_keystroke` | the frontmost application, people, menu presses |
| macOS menus | `macos.rs` 248-650 | the app to hand the front back to | the walk, the unhide, the activation flash, the press, the hand-back | the app's accessibility interface, the frontmost application, other presses |
| Finding and entering the helper | `macos.rs` 1052-1074, `lib.rs` 643-701, `bin/` | a `OnceLock` | `set_helper_invocation`, `run_main` | - |
| Command, errors, key tables | `lib.rs` 127-240, `error.rs` | a builder | setters | - |

What makes each part right, in a sentence:

* *Exit notification*: a callback runs once, after the exit, on the right thread, never under
  the mutex, and none is forgotten in the race of registration and exit.
* *macOS spawn*: two piped launches of a process never claim one app, a claim by argv or by the
  completion handler is right, every call returns and the lock comes back.
* *Helper*: no line is lost, the app is not stalled, and it dies with its parent exactly if it
  should.
* *Adoption*: a launch tracks its own app, reports an early exit only if there was one, ends,
  and leaves the right processes to die with the caller.
* *Process control*: a status is not early, a killed process ends, `wait` returns.
* *Captured output*: bytes arrive once and in order, and so does the end.
* *Keystrokes on Windows*: a chord reaches its target whole, and the foreground is handed back.
* *Keystrokes and menus on macOS*: a key takes the route on which its target reads it, a press
  that says Ok is swallowed by nothing but an item that its app disabled after the last look, and
  a flash gives the front back on every path.

Hard behaviours, part by part, with their lines, are the `hazards` of `PROJECT.json`.

## 2. Modules

| Module | Models |
|---|---|
| `ExitOnce` | what `on_exit` promises, with no thread, lock or queue |
| `ExitNotify` | the `ExitState` mutex and every thread around it; implements `ExitOnce` |
| `Launch` | what `spawn` promises, on both platforms, with no lock, scan or listing |
| `SpawnMacOS` | launches of one bundle, piped and simple, in one and in several processes; implements `Launch` |
| `CapturedOutput` | what a captured stream promises its reader, on both platforms, with no pty, pipe or thread |
| `HelperRelay` | one helper between its parent and its app, two streams; implements `CapturedOutput` |
| `AdoptWindows` | launches of one executable on Windows, and the lifetime job; implements `Launch` |
| `ProcessControl` | several `Child`ren over one space of pids, on either platform |
| `CaptureWindows` | several captured launches and their readers; implements `CapturedOutput` |
| `ChordTurns` | what `send_keystroke` promises of its events, with no lock, queue or foreground |
| `KeystrokeWindows` | several keystrokes and `focus()` calls on one desktop; implements `ChordTurns` |
| `DesktopMacOS` | keystrokes, menu presses and `focus()` calls on one desktop |
| `MC...` | constant values for TLC; the other two get theirs from the `.cfg` |
| `...Proofs` | the TLAPS proofs |

An operator whose comment begins with "Mutant:" is a wrong version of the definition that
follows it, of a kind that the code could have. Nothing uses it: it is there to be put in the
definition's place, which the properties must then notice.

### The abstract modules
`ExitOnce`, `Launch`, `CapturedOutput` and `ChordTurns` are what a user of the library may rely
on. Each is one page, knows none of the mechanisms, and is instantiated at the end of the module
that implements it, with the refinement mapping in the `WITH`. Two of them have two
implementations, one per platform, which share no code in `src/` beyond the drain thread.

* `ExitOnce`: `ran` is the sequence of the bodies that were entered, so that a body entered twice
  is a step that `ExitOnce` does not have. `ExitNotify` maps it to its log.
* `Launch`: processes have owners. A call names at most one process, which was started, before
  it returns; it names it for good, and returns a `Child` exactly when it has named one. A launch
  that is `sure` has named its own process, and launches that are `KeptApart` do not name the
  same one. On macOS `claim` is the name, a launch is sure when unique arguments matched or the
  completion handler said so, and piped launches of one process are kept apart, with unique
  arguments or without. On Windows `tracked` is the name, and a launch is sure where command
  lines can be read and its arguments are unique.
* `CapturedOutput`: a line is received once, in order, after it was written; the end comes when
  the app is gone and everything was received, save for a stream with a line that is not UTF-8
  (`Lossy`), which may end before that; an end that was told stays. On macOS what the reader has
  is `got`, on Windows `received`.
* `ChordTurns`: keystrokes are delivered one chord at a time, each whole or not at all, the key
  with exactly its own modifiers down; Ok means delivered. A turn lasts from the check that
  found the target in front to the end of the hold.

### ExitNotify
An agent is a thread: the user threads that hold the `Child`, the watcher of `parent_exit`, the
runtime's workers. Each has a program counter, `arg`, the callback in its hands, and `todo`,
the callbacks it still has to call. `OnExit` is the call with `wrap_with_runtime_dispatch`
(`wrapped`: the registering thread had a runtime); `LockState`, `Push` and `FireNow` are the
mutex and the two arms of the match; `WatcherWakes`, `LockState` and `Swap` are the watcher's
critical section, which empties `pending` into its `todo`; `Invoke` and `Post` are the two
kinds of callback, `WorkerTakes` is tokio. A body may register another callback (`Nested`) and
may panic (`Panicking`); a panic kills the watcher and its list, but not a worker.
`RuntimeStops` drops the tasks.

### SpawnMacOS
`app[p]` is the life of a process, `owner[p]` who started it: a launch, or one of the `Others`,
who are people and launchers in other processes that the model does not follow. `Call` is the
dispatch of `spawn`. A piped launch runs `Acquire`, `Snapshot`, `SpawnHelper`, then rounds of
`Scan` and `Poll`, then `Finish` or `GiveUp`. `Scan` is one listing: which argv can be read is
any subset of the candidates, and the list's order is any. `ArgvContainsArgs` is the code's
window comparison. `GiveUp` waits for the end of the helper's stderr with the lock held, as the
code does. A launch in `Simple` runs `Request`, then `Receive` or `TimeOut`; NSWorkspace starts
the app and calls `Complete` when it likes, before the timeout, after it or never. Simple
launches take no lock, and their apps are among what the piped ones see.

### HelperRelay
A stream is four counters, of the lines that the app wrote, the relay took, the relay put into
the pipe and the parent got; the pty and the pipe lie between two of them and are bounded.
`CreatePtys` to `Join` are `run_helper_main_with_args` in order, `ReadLine`, `WriteLine`,
`ReadSink` and `ReadEnd` are `relay_pty_to`, `Drain` is the parent's drain thread and
`GiveUp`/`Diagnosed` the failed launch that reads stderr only. A line in `Bad` is not UTF-8 and
ends its thread, and with it the pty.

### AdoptWindows
The polling loop, one action per call of the system: `ReadAlive`, `FastPath`, `List`, `Pick`,
`Rules`; `time` is the elapsed time in ticks. A process shows a window and exits when it likes;
`StartEditor` is the bootstrapper's handoff, or the shell's start of the app. `Cmdline` is the
set of arguments that can be found in a command line: without the ones with an escaped quote,
and for a shell-open only what was passed on. `Bind` puts the tracked process into `job`;
`CallerDies` closes it.

### ProcessControl
The initial state chooses the platform (`byHandle`) and whether free pids come back (`reuse`);
neither changes. On macOS a call goes to whoever holds the pid now, another user's process
included (`Foreign`: `EPERM`); on Windows a handle pins the pid. `KillLooks` and `KillActs` are
`kill_io`'s two calls; `doomed` processes have been killed and end later, with code 1; 259 is
among the exit codes.

### CaptureWindows
`inherited[m]` holds the launches whose write end was open in the caller when the app of `m`
was created, `leaked[m]` those whose read end was not private yet: `CreatePipe` makes both ends
inheritable, and `ClearInherit` is the call after it. The stream ends when nobody holds its write
end; a writer is told that nobody reads when the drain thread has ended and no app holds the read
end (`HasReader`). The reader's `buf` and `pos` are
the `ChildStdout`'s; `Read`, `FillBuf`, `Consume` and `Recv` are its methods in any order.
`mixed` marks a reader that asked for a line while another was half read: the code lets that
reorder bytes but not lose them.

### KeystrokeWindows
`raw` is the system's input queue, delivered (`RawInput`) to the window that is then in front,
which may be another one than when the event was queued. `ForceForeground` may fail. `Focusers`
call `focus()`, which takes no lock; `HumanSwitches` is a person. `stolen` records the
keystrokes whose foreground one of those two took while they typed.

### DesktopMacOS
`front`, `hidden` and `validated` are the desktop; `tap` and `private` count the events on their
way in the session's queue and in the private queue of a Qt app, which `SwitchTo` drains. A key
runs `Look` and two `Post`; a press runs `Walk`, `LookAtItem` twice (the first one may unhide),
`Remember`, `Flash`, `LastLook` (the end of the polling, after 2 s at the latest), `Press` and
`HandBack`. `Focus` may be called on each of the `Focused` any number of times. `Reads` is what
AXEnabled can say: the truth, or nothing, for a busy app. A menu of a Qt app is validated while
it is in front, of another app also while it is not hidden, and stays so; but an item of the
`Fickle` presses is disabled and enabled by its app at any moment (`AppGreys`, `greyed`).

Histories say what the properties except, each from one step on: `lost`, keys on the session's
route whose target lost the front before the last event was delivered; `gained`, keys on the
private route whose target gained it before the last one was posted; `unread`, presses that went
ahead without knowing AXEnabled; `lapsed`, presses whose item the app disabled between the last
look and AXPress. `rightful` is the app that a person, a `focus()` or the system last put in front
for good, or nobody (`Tangled`), once the front was moved during a flash or not given back by the
system, or that app exited behind another one. `Exiting` bounds the apps that exit.

## 3. Runs

All twelve end in minutes on two cores, `Desktop` with its five million states last. `pass` runs
find no error, `violation` runs find the one they are there for.

| Run | Instance | Shows |
|---|---|---|
| `ExitNotify` | 2 threads (one with a runtime), 1 worker, 3 callbacks, one nested, one panicking, a runtime that may stop | `NoneForgotten`, `FiredInOrder`, `RunsWhereRegistered`, `FiredOnceAfterExit`, the refinement `ImplementsExitOnce`, and, with fairness, `EverySettled` |
| `Spawn` | 2 piped launches, one without arguments, and a simple one, of one process; an old instance and another launcher whose arguments share a word; 3 pids, 2 rounds, the fallback from the second on | `OneClaimPerProcess`, `VerifiedClaimIsOwn`, `OwnNeverPassedOver`, the refinement `ImplementsLaunch` and, with fairness, `SpawnReturns` |
| `RelayStuck` | as `Relay` | `HelperExitsWithApp` fails, see below |
| `Relay` | 4 lines on stdout, 3 on stderr, its second not UTF-8; ptys of 2, pipes of 1 | `NoLineLost`, `HangsUpOnlyOrphans`, the refinement `ImplementsCapturedOutput`, `EverythingArrives`, `AppNeverStalls` |
| `RelayOrphan` | the same | `AppDiesWithParent` fails, see below |
| `AdoptHandoffs` | 2 handoffs, one detached, a person, 3 processes | `EarlyExitIsGenuine`, `TracksOwn`, `OwnNeverPassedOver`, `CallerTakesItsOwn`, the refinement `ImplementsLaunch` |
| `AdoptEnds` | a handoff without arguments and a shell-open, an old instance, failing listings, unreadable command lines, a job that may refuse | `TracksNew`, `AdoptionEnds` |
| `AdoptQuoted` | a handoff with a quoted argument | `OwnNeverPassedOver` fails, see below |
| `Control` | 2 children, 2 strangers (one of another user), 2 pids, codes 0, 1, 259; both platforms, with and without reuse | `StatusIsReal`, `KeepsToItsOwn`, `WaitReturns` |
| `Keystroke` | 2 keystrokes, with two modifiers and with one, on 2 apps, a `focus()`, a person; 2 attempts | `LandsOnTarget`, `ChordIsWhole`, `HandsBack`, the refinement `ImplementsChordTurns`, `CallsAdvance`, `CallsReturn` |
| `Desktop` | a keystroke and a press of a Qt app in the background, a press of an item that another background app disables and enables at any moment, `focus()` of the Qt app any number of times, a person, the Qt app and the user's app may exit | `KeysReachTarget`, `FrontComesBack`, `PressActs` |
| `Capture` | 2 captured launches that leak handles into each other, 3 lines each, one not UTF-8, pipes of 1 | `BytesArriveInOrder`, `EofIsGenuine`, the refinement `ImplementsCapturedOutput`, `AppNeverStalls`, `EofArrives` |

`TypeOK` of all eight modules, which bounds their counters too, is proved for every value of the
constants (section 4). No run checks it: the runs spend their time on what is more than a range.

### Why the bounds are enough
* The races are between two parties: two launches, two threads, a launch and a person, a call
  and an exit. Each run has two of the kind and one of every other. `ExitNotify` has a third
  callback because order and nesting need it.
* Rounds and times: what matters is before and after the fallback, the grace period and the
  deadline, in this order, so the 25 and 50 rounds are 1 and 2, and the 3, 5 and 30
  seconds are 1, 2 and 3 ticks. A launch can be slow to look: time passes between any two
  calls.
* `AdoptHandoffs` has three processes for two bootstrappers, their editors and a person. Not
  all of them can start in one behaviour, but any three can, in any order: both bootstrappers
  and one editor, one whole handoff and a foreign bootstrapper, one whole handoff and a
  person's app.
* `Spawn` has a party of each kind at once, and three pids of which one is old, so that at most
  two of the three launches and the other launcher get an app in one behaviour, any two of
  them. A launcher of another process is not followed, as it shares nothing with ours but the
  list of instances: whatever it does, we see its apps only.
* `Desktop` lets one target and the user's app exit (`Exiting`); the third app's exit is another
  target's. It has one key and two presses, since a key and a flash, two flashes, and each of them
  and a person or an exit are the pairs that interfere.
* A chord of two modifiers has an order of releases, one of one modifier is the shortest that
  leaves a key down when it is cut.
* Ptys and pipes hold one or two lines, so that they are full in most states, and an app writes
  more than a pty and a pipe hold together.
* A line of captured output is two bytes, text and newline, so that a read can end inside a
  line. A pid is given out twice in `Control`, and never in the modules about launches: those
  take milliseconds to seconds.

Where the program or the system may stop (everything has exited, every call has returned)
deadlock is not checked.

### Fairness
Weak fairness of each thread of the program, for the scheduler runs it: the agents' steps in
`ExitNotify`, the launching thread, the helper and its relay threads, the drain threads, the
calling thread. Weak fairness of what the system delivers: `parent_exit`'s report, the hang-up
of a closed pty, time, input events, the death of what was killed. Never: that NSWorkspace
answers, that a process exits by itself, starts, writes or shows a window, that a parent dies, a
person acts, a reader reads, a user calls. `HelperRelay` has an app that goes on writing, until
it has nothing left, as a stall can only be told apart from silence if it wants to write. For
the two mutexes weak fairness of each waiting thread is enough, since the calls are finite in
number.

Some premises are stated in the properties instead of the specification. `SpawnReturns` excepts
a piped launch beside a failed one of its process that reads the stderr of a helper that still
lives (the first finding below is why); in `SpawnMacOS` a helper whose app has gone exits, which
`RelayStuck` shows to be wrong where such a launch leaves stdout unread. `AppNeverStalls` of the
relay excepts that stdout; the one of `CaptureWindows` excepts an app that wrote a line that is not
UTF-8, for as long as another app holds its read end (section 5).
`DesktopMacOS` states no fairness: nothing in it waits but for the clock. `WaitReturns` excepts a pid that is given away before `wait` looks again.
`EverythingArrives` excepts a stream with a line that is not UTF-8. `EarlyExitIsGenuine` takes
listings not to fail (`ListingMayFail`), for a listing that fails reads as an empty one. And
`KeystrokeWindows` takes the 400 ms before the hand-back to be enough for the system to deliver
the chord; the comment at `windows.rs:192-199` is the reason for them, and without the hold
`LandsOnTarget` fails.

## 4. What is proved

For every value of the constants that satisfies the assumptions stated in the modules
(disjointness of the names, the types of the parameters, `VerifyAttempts <= MaxAttempts`,
positive capacities):

| Module | Theorem | States |
|---|---|---|
| `ExitNotifyProofs` | `TypeCorrect` | `TypeOK` |
| | `Invariance` | the inductive invariant `Inv` |
| | `FiresOnce` | `FiredOnceAfterExit`: no callback twice, none before the exit |
| | `LockDiscipline` | `LockOnlyInSection`: no callback runs under the mutex |
| | `Conservation` | `NoneForgotten` |
| | `RightThread` | `RunsWhereRegistered` |
| | `PanicContained` | callbacks are dropped only with the watcher or the runtime |
| | `InOrder` | `FiredInOrder` |
| | `Refinement` | `ExitNotify` implements `ExitOnce` |
| `SpawnMacOSProofs` | `TypeCorrect` | `TypeOK` |
| | `Invariance` | the inductive invariant `ClaimInv` |
| | `ClaimsApart` | `OneClaimPerProcess` |
| | `SectionIsLocked` | the lock is held exactly in the section |
| | `ArgvFindsOwn` | `VerifiedClaimIsOwn` |
| | `OwnClaimed` | `OwnNeverPassedOver` |
| | `Refinement` | `SpawnMacOS` implements `Launch` |
| | `SearchBounded` | `CallsAdvance`: what a call has left to do only shrinks |
| `HelperRelayProofs` | `TypeCorrect` | `TypeOK` |
| | `Invariance` | the inductive invariant `RelayInv` |
| | `LinesKept` | `NoLineLost` |
| | `HangUps` | `HangsUpOnlyOrphans` |
| | `Refinement` | `HelperRelay` implements `CapturedOutput` |
| `AdoptWindowsProofs` | `TypeCorrect` | `TypeOK` |
| | `Invariance` | the inductive invariant `AdoptInv` |
| | `EarlyExits` | `EarlyExitIsGenuine` |
| | `OwnTracked` | `TracksOwn` |
| | `CallersDeath` | `CallerTakesItsOwn` |
| | `NewTracked` | `TracksNew` |
| | `OwnAdopted` | `OwnNeverPassedOver`, where every argument is in the command line |
| | `Refinement` | `AdoptWindows` implements `Launch` |
| `ProcessControlProofs` | `TypeCorrect` | `TypeOK` |
| | `Invariance` | the inductive invariant `ControlInv` |
| | `StatusCorrect` | `StatusIsReal` |
| | `OwnProcess` | `KeepsToItsOwn` |
| `CaptureWindowsProofs` | `TypeCorrect` | `TypeOK` |
| | `Invariance` | the inductive invariant `CaptureInv` |
| | `EndIsGenuine` | `EofIsGenuine` |
| | `BytesInOrder` | `BytesArriveInOrder` |
| | `Refinement` | `CaptureWindows` implements `CapturedOutput` |
| `KeystrokeWindowsProofs` | `TypeCorrect` | `TypeOK` |
| | `Invariance` | the inductive invariant `KeystrokeInv` |
| | `LandsRight` | `LandsOnTarget` |
| | `WholeChords` | `ChordIsWhole` |
| | `FrontGoesBack` | `HandsBack` |
| | `Refinement` | `KeystrokeWindows` implements `ChordTurns` |
| | `BoundedCalls` | `CallsAdvance`: what a call has left to do only shrinks |
| `DesktopMacOSProofs` | `TypeCorrect` | `TypeOK` |
| | `Invariance` | the inductive invariant `DesktopInv` |
| | `KeysArrive` | `KeysReachTarget` |
| | `FrontReturns` | `FrontComesBack` |
| | `PressesAct` | `PressActs` |

**ExitNotify.** That no callback is forgotten does not follow from itself: a step may move a
callback from a place that is live to one that is not unless one knows where else it is. `Inv`
therefore says that every registered callback is in exactly one place (`OnePlace`, `NoRepeats`),
which thread a callback on its way belongs to (`OwnerInv`), what each phase of `ExitState` implies
(`PhaseInv`: after the swap the queue is empty for good) and who may be where (`ControlInv`).
Conservation, firing once and the refinement follow: a step of `ExitNotify` that adds to
the log is `Run` of `ExitOnce`, of a callback that was not settled before (`RanGrows` says what it
adds), one that loses it is `Drop`, and everything else stutters or
registers. The order of the callbacks is followed from the queue to the watcher's list and on to the
log (`OrderInv`): whatever is left of the list was queued after whatever ran, and a callback
registered by another one was never in the queue, so it may come in between.

**SpawnMacOS.** Two claims are apart because a claimed instance is listed or gone, so that it is in
any later snapshot of the process, and the lock puts the snapshot of one launch after the claim of
the other. `ApartInv` carries that from the claim to the snapshot and on to the scan, for the
fallback too; `LockIsSection` is what makes it inductive, `SeenInv` what makes "in the snapshot" and
"gone" exhaustive. Simple launches are outside of all that: what the completion handler names is
theirs because the system says so, whatever the piped ones claim. That a launch does not pass its
own app over is an argument about one step: the arguments are a stretch of the argv of its own app,
so the scan that reads it finds it, and with unique arguments it finds nothing else; and a claim,
once made, stands. `Refinement` puts these together: `Scan` or `Receive` is the step that names a
process, the freshness of the name is `OneClaimPerProcess` of the next state, and every way out
returns a `Child` exactly if there is a claim. `CallsAdvance` is the half of `SpawnReturns` that is
no matter of fairness: each step of a call lowers `Left`, a natural number made of the rounds that
remain and the place in the round, and a process that dies or another launch that claims a pid does
not raise it, so there is no infinite run in which a call keeps stepping and never returns.

**HelperRelay.** The counters alone do not say that the helper exits last. `ThreadInv` does: a relay
thread of a clean stream ends only when the app has exited and the pty is empty, it is in sink mode
only when the pipe is closed, and a helper that exited did so before `open`, after both threads, or
by the parent's death. `PhaseInv` says that threads exist from their start on and that only a helper
that is not detached watches. `Refinement` reads the ends off that: a stream ends for the parent
when the helper has exited and the pipe is empty, and while the parent lives the helper exits before
`open` or after both threads, each of which has relayed every line or met one that is not UTF-8. The
two streams can end in one step, the helper's exit.

**AdoptWindows.** That an early exit is genuine rests on the order of two calls: the launched
process is looked at before the instances are listed. `EndInv` carries it from the one to the other.
A process that was seen to be gone stays gone, and starts no editor any more, so the listing that
follows has every process of the launch that still runs. `ProcInv` says whose every process is,
`SearchInv` that nobody's own process is in the snapshot from before it and that a search looks only
at processes that somebody started. `JobInv` keeps apart what is in the job (the caller's own, under
unique arguments) from what the caller's death may not reach, up to the moment it dies. `OwnAdopted`
has a hypothesis, that every argument is found in the command line that was made of it:
`AdoptQuoted` shows what happens without. `Refinement` is `TracksOwn` seen from the caller: the
process that ends the loop is one that somebody started (`SearchInv`), it is set once, and the
binding to the job and the return leave it alone.

**ProcessControl.** `StatusIsReal` needs that an exit code is set once. `DoomedInv` gives that: a
process that was killed and has not ended still runs, so its later end does not replace a code that
a call has already returned. `TypeOK` holds the rest of the argument: a handle that is open pins its
pid, so nobody else has it. `KeepsToItsOwn` is about steps: what a kill dooms, what becomes of its
Ok, what a later status says. Its own invariant, `OwnInv`, adds that the pid of a process that has
ended stays free (by the handle, or as long as pids do not come back), and that macOS reports no
other exit than the synthesized one; the hypothesis is not idle, for with reuse on macOS TLC finds a
stranger killed.

**CaptureWindows.** The end of a stream is genuine because our copy of the write end is closed
before the drain thread exists, and the app holds its own from its creation on (`SpawnInv`). A
thread that sees the end has therefore seen the app exit and has sent every line (`DrainInv`), and
the reader is told only when it has received them all. `BytesInv` says where a received byte is,
delivered or in the buffer, never both, and that the line in the buffer is the last one received,
for a reader that asked for no line with another half read. Each call of the reader moves bytes from
the one to the other, and the delivered bytes are then numbers 1 to n of the stream. `Refinement`
follows the reader's calls: one that finds a line receives it, one that finds the channel
disconnected has received them all, and `Read` and `FillBuf` are either, or move bytes of a line
that was received before.

**KeystrokeWindows.** One keystroke is in the section at a time (`LockInv`), so what is in the input
queue is the end of one chord, and what is held down is what its delivered part leaves down
(`ChordInv`). A chord whose events are all delivered leaves nothing. Whose window is in front is
`FrontInv`: the target, or whoever is in `stolen`; and, as long as nobody outside the lock takes it,
the target or the one the keystroke remembers, which is the user's unless a hand-back was refused.
In `Refinement` a queued event is not delivered yet, so `Type` stutters and `RawInput` is the
delivery: `HeldStep` says what each event of a chord does to the modifiers, and `HeldEnds` that none
is down when the turn ends. `CallsAdvance` is here about the attempts that fit into the 5 s: whoever
takes the foreground again between `TakeFront` and the check costs the call an attempt, and what
is left (`Left`: attempts, then events, hold and hand-back) shrinks with every step of the call.

**DesktopMacOS.** That a key arrives needs that the route it took agrees with where its target is
for as long as events are on their way (`KeyInv`): the switch that takes the front from the target
of a key on the session's route puts the key among the `lost`, the one that gives it to the target
of a key on the private route among the `gained`, and no other switch matters. A press acts because
validation lasts, and because what the app does to the item itself after the last look is seen as
`lapsed` (`PressInv`). That the front comes back
rests on there being one flash at a time, whose `prev` is the rightful app (`FrontInv`); a second
flash, a person's switch or a refused hand-back leaves nobody rightful (`Tangled`) until the next
switch outside of any flash.

**Only model-checked.** All liveness (`EverySettled`, `SpawnReturns`, `EverythingArrives`, both
`AppNeverStalls`, `AdoptionEnds`, `WaitReturns`, `CallsReturn`, `EofArrives`): fairness and
ENABLED are out of the prover's reach. What `SpawnReturns` and `CallsReturn` need besides, that a
call has only finitely many steps to take, is proved (`SearchBounded`, `BoundedCalls`; `Keystroke`
checks `CallsAdvance` too). Of the invariants none: every one that a passing run checks is stated by
a theorem.

## 5. Disagreements of code and comments

Three have a run:

1. `RelayStuck`. A search that fails while the helper still runs reads the helper's stderr to
   its end (`macos.rs:991`), under `SPAWN_PIPED_LOCK`. The helper keeps it open as long as the
   app runs: the launch, and every later piped one of the process, waits for the user to quit
   the app, where "give up rather than wait the full 10s" (977-978) has a bounded search in
   mind. If the app also wrote more to stdout than the pipe holds, nobody reads that, the
   helper's relay blocks in `write_all` (1313), and the helper never exits, against 1097: "Block
   on the drain threads. When both finish (app exited), exit 0." Then the wait has no end.
2. `RelayOrphan`. A parent that dies before the helper calls `getppid` (1261) is not watched,
   and the app outlives it, against 1094-1095.
3. `AdoptQuoted`. A double quote of an argument is escaped in the command line
   (`windows.rs:274`), and looked for unescaped (706): the launch's own editor never matches,
   against 661-662.

Met while modelling, without a run of their own:

* `on_exit` is given a synthesized 0 on Windows too (`lib.rs:73`, 92-95), where the
  documentation promises the real code (339-340).
* `lib.rs:67-70` sends callers that need the real exit code to `try_wait` and `wait`. On macOS
  these synthesize it as well (`macos.rs:652-681`, with the comment at 665).
* A callback registered after the exit but before the swap is queued and runs on the watcher
  thread, not "immediately on the calling thread" (326-327).
* The unverified fallback of `spawn_piped` (`macos.rs:968-976`) may claim a sibling's app or
  one that is gone.
* A search for an app without arguments, and the fallback, may claim an app that a
  `spawn_simple` of the same process started: it takes no lock (`macos.rs:702-798`).
* A simple launch that times out after 30 s (772-775) leaves the app to nobody.
* Two presses that flash at once take each other's target for the app in front (544), and the
  front ends with an app that nobody chose, where 527 says that "the previously frontmost app is
  restored right after the press". A person's own switch during a flash is undone by the
  hand-back (572-574).
* "the flash happens at most once per app" (526) is not so for an item that the app disables:
  every press of it flashes.
* A key for a frontmost target goes to the session's queue (226), and to another app if the front
  changes before it is read. One for a Qt app that comes to the front between the look and the
  post waits in the private queue until the next activation (192-195). `KeysReachTarget` says that
  these are the only ways, and which keys they take.
* A press returns Ok for an item that its app disables between the last look (543 or 557) and
  AXPress (567), which is swallowed, where 515-518 have the look as the gate. Without the exception
  of `lapsed` TLC finds such a press.
* A failed listing of the processes reads as an empty one (`windows.rs:469-471`), so that a
  handoff can look like the "genuine early exit" of 728; and a shell-open may return the
  transient `explorer.exe` after the grace period (724), which 730-732 mean to exclude.
* A shell-open with two arguments looks for both in the command line of an app that got only
  the first one (`windows.rs:291`, 706).
* A caller that dies during the adoption leaves its app running (401-409), as it is bound to
  the job only afterwards.
* `kill_io` returns an error for a process that ends between its two calls (212-219).
* Handles of a write end leak into apps that another thread launches at the same time
  (358-360), and delay the end of the stream.
* The read end of a pipe is inheritable too, between `CreatePipe` (452) and `SetHandleInformation`
  (456), against "READ end stays private to us" (444) and "only those are marked inheritable"
  (359). An app that another thread creates in between keeps the pipe open: after a line that is
  not UTF-8 has ended the drain thread, the writer is not told, and waits on a full pipe for as
  long as the other app runs. Without that exception TLC finds `AppNeverStalls` violated.
* A line that is not UTF-8 ends a relay thread (`macos.rs:1321`) and a drain thread
  (`lib.rs:590`), whose comments say they go on.
* A chord can be typed into the window of a person or of a `focus()` call that came forward
  after the check (`windows.rs:162-190`).

## 6. Not modelled

* Parsing: `KERN_PROCARGS2` buffers, the PEB, `Info.plist`, the helper's arguments. Modules
  take the result, and the failure.
* Windows of an app that close or change (`find_main_window_by_pid`): an app is one window,
  which stays.
* `find_menu_item` (`macos.rs` 76-83, 610-628): the walk of the menu bar alone, which
  changes nothing. Messages of accessibility that take long: a call is one step.
* Failures of WaitForSingleObject and GetExitCodeProcess on a handle that is open
  (`windows.rs` 213-216, 234-235, 239-240): they need a handle that is not valid.
* In the choice of a sibling (`windows.rs` 702-710) the looks at its window, command line and
  handle are one step. A sibling that exits between two of them is passed over, as one is whose
  command line cannot be read, and that is modelled.
* Which key is which: two tables. Logging, and the texts of errors.
* Finding the helper, and the `Command` builder: no state changes after they were set.
  `set_helper_invocation`'s text mentions a variable `LAUNCH_CONTROL_BIN` that nothing reads.
* Memory safety of the FFI: no property of a state machine.

## 7. Plan

Written, in the order of importance: exit notification, the claim of a pid with both ways to
launch on macOS, the helper, adoption, process control, capture, keystrokes, the desktop of
macOS; proofs for all eight.

Written since: the abstract modules of both platforms, `Launch` and `CapturedOutput`, and
`ChordTurns`, with the proofs that the modules implement them.

Next, modules: the helper of `HelperRelay` in the place of the one of `SpawnMacOS`, so that the
unread stdout and the lock meet in one run.

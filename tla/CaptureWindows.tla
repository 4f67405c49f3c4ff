---------------------------- MODULE CaptureWindows ----------------------------
(***************************************************************************)
(* The captured output of apps launched on Windows (src/src/windows.rs,    *)
(* spawn), from the app to the caller's ChildStdout (src/src/lib.rs).      *)
(*                                                                         *)
(* spawn makes a pipe, makes its read end private, creates the process,    *)
(* closes its copy of the write end and, once adoption has returned,       *)
(* starts a drain thread, which moves lines into an unbounded channel.  A  *)
(* process created with bInheritHandles gets every inheritable handle that *)
(* is open at that moment, also those of launches on other threads: their  *)
(* write ends, and the read end of a pipe that was only just made.         *)
(*                                                                         *)
(* A launch captures one stream here.  A stream is three counters, of the  *)
(* lines written, drained and received, and the reader's buffer; a line is *)
(* two bytes, its text and its newline.                                    *)
(***************************************************************************)
EXTENDS Naturals, Sequences, SequencesExt

CONSTANTS Launches,
          Piped,    \* launches with want_capture
          Output,   \* lines each app writes
          Bad,      \* launches whose second line is not UTF-8
          PipeCap   \* lines that fit into a pipe

ASSUME CaptureAssumption ==
  /\ Piped \subseteq Launches /\ Bad \subseteq Piped
  /\ Output \in Nat /\ PipeCap \in Nat \ {0}

VARIABLES
  pc,         \* spawn, per launch
  writeEnds,  \* launches whose write end is open in the caller
  app,        \* "none", "running", "exited"
  inherited,  \* per app: the launches whose write ends it holds
  leaked,     \* per app: the launches whose read ends it holds
  drain,      \* per launch: "none", "running", "ended"
  rx,         \* launches whose ChildStdout exists
  wrote, drained, received,
  buf, pos,   \* the line in the buffer of a ChildStdout, or 0, and how far it is read
  delivered,  \* history: the bytes the reader got, <<line, byte>>
  eof,        \* history: launches whose reader was told that the stream has ended
  mixed       \* history: launches whose reader received past a line half read

handles == <<inherited, leaked>>
counters == <<wrote, drained, received>>
reader == <<buf, pos, delivered, eof, mixed>>
vars == <<pc, writeEnds, app, handles, drain, rx, counters, reader>>

Width == 2
Bytes(line, from, n) == [i \in 1 .. n |-> <<line, from + i>>]

\* Somebody can still write to the pipe of l.
HasWriter(l) == l \in writeEnds \/ \E m \in Launches : app[m] = "running" /\ l \in inherited[m]

\* The read ends that a process created now would inherit.
Loose == {m \in Launches : pc[m] = "clear"}

\* The read end is open in the caller or in another app, so that a write to a full
\* pipe waits; otherwise it fails.
LeakHeld(l) == \E m \in Launches \ {l} : app[m] = "running" /\ l \in leaked[m]
HasReader(l) == drain[l] # "ended" \/ LeakHeld(l)

Init ==
  /\ pc = [l \in Launches |-> IF l \in Piped THEN "pipe" ELSE "create"]
  /\ writeEnds = {}
  /\ app = [l \in Launches |-> "none"]
  /\ inherited = [l \in Launches |-> {}]
  /\ leaked = [l \in Launches |-> {}]
  /\ drain = [l \in Launches |-> "none"]
  /\ rx = {}
  /\ wrote = [l \in Launches |-> 0]
  /\ drained = [l \in Launches |-> 0]
  /\ received = [l \in Launches |-> 0]
  /\ buf = [l \in Launches |-> 0]
  /\ pos = [l \in Launches |-> 0]
  /\ delivered = [l \in Launches |-> <<>>]
  /\ eof = {}
  /\ mixed = {}
-------------------------------------------------------------------------------
Goto(l, there) == pc' = [pc EXCEPT ![l] = there]

\* create_inheritable_pipe up to the pipe, both ends of which are inheritable; a
\* stream whose pipe cannot be made is not captured.
CreatePipe(l) ==
  /\ pc[l] = "pipe"
  /\ \/ writeEnds' = writeEnds \cup {l} /\ Goto(l, "clear")
     \/ UNCHANGED writeEnds /\ Goto(l, "create")
  /\ UNCHANGED <<app, handles, drain, rx, counters, reader>>

\* SetHandleInformation: the read end is private from here on.
ClearInherit(l) ==
  /\ pc[l] = "clear"
  /\ Goto(l, "create")
  /\ UNCHANGED <<writeEnds, app, handles, drain, rx, counters, reader>>

\* The error path closes both ends.
CreateProcess(l) ==
  /\ pc[l] = "create"
  /\ \/ /\ app' = [app EXCEPT ![l] = "running"]
        /\ inherited' = [inherited EXCEPT ![l] = IF l \in Piped THEN writeEnds ELSE {}]
        /\ leaked' = [leaked EXCEPT ![l] = IF l \in Piped THEN Loose ELSE {}]
        /\ Goto(l, IF l \in writeEnds THEN "close" ELSE "done")
        /\ UNCHANGED writeEnds
     \/ /\ writeEnds' = writeEnds \ {l}
        /\ Goto(l, "done")
        /\ UNCHANGED <<app, handles>>
  /\ UNCHANGED <<drain, rx, counters, reader>>

\* Mutant: our copy of the write end is kept open.
CloseNothing(l) ==
  /\ pc[l] = "close"
  /\ Goto(l, "adopt")
  /\ UNCHANGED <<writeEnds, app, handles, drain, rx, counters, reader>>

CloseWriteEnd(l) ==
  /\ pc[l] = "close"
  /\ writeEnds' = writeEnds \ {l}
  /\ Goto(l, "adopt")
  /\ UNCHANGED <<app, handles, drain, rx, counters, reader>>

\* After adopt_real_process: start_drain_thread and make_child_stdout.
StartDrain(l) ==
  /\ pc[l] = "adopt"
  /\ drain' = [drain EXCEPT ![l] = "running"]
  /\ rx' = rx \cup {l}
  /\ Goto(l, "done")
  /\ UNCHANGED <<writeEnds, app, handles, counters, reader>>
-------------------------------------------------------------------------------
\* Mutant: a failed send ends the thread's work, but not the thread.
DrainForReader(l) ==
  /\ drain[l] = "running" /\ l \in rx
  /\ drained[l] < wrote[l]
  /\ IF l \in Bad /\ drained[l] = 1
       THEN drain' = [drain EXCEPT ![l] = "ended"] /\ UNCHANGED drained
       ELSE drained' = [drained EXCEPT ![l] = @ + 1] /\ UNCHANGED drain
  /\ UNCHANGED <<pc, writeEnds, app, handles, rx, wrote, received, reader>>

\* One round of the drain thread's loop: a line is sent, to whoever is there to
\* receive it; a line that is not UTF-8 ends the thread, which closes its read end.
Drain(l) ==
  /\ drain[l] = "running"
  /\ drained[l] < wrote[l]
  /\ IF l \in Bad /\ drained[l] = 1
       THEN drain' = [drain EXCEPT ![l] = "ended"] /\ UNCHANGED drained
       ELSE drained' = [drained EXCEPT ![l] = @ + 1] /\ UNCHANGED drain
  /\ UNCHANGED <<pc, writeEnds, app, handles, rx, wrote, received, reader>>

\* Mutant: an empty pipe is taken for its end.
DrainEndsEmpty(l) ==
  /\ drain[l] = "running"
  /\ drained[l] = wrote[l]
  /\ drain' = [drain EXCEPT ![l] = "ended"]
  /\ UNCHANGED <<pc, writeEnds, app, handles, rx, counters, reader>>

DrainEnds(l) ==
  /\ drain[l] = "running"
  /\ drained[l] = wrote[l] /\ ~HasWriter(l)
  /\ drain' = [drain EXCEPT ![l] = "ended"]
  /\ UNCHANGED <<pc, writeEnds, app, handles, rx, counters, reader>>
-------------------------------------------------------------------------------
\* The receiver is empty, and the sender is gone with the drain thread.
Empty(l) == received[l] = drained[l]
Disconnected(l) == Empty(l) /\ drain[l] = "ended"

Deliver(l, bytes) == delivered' = [delivered EXCEPT ![l] = @ \o bytes]

\* Mutant: the buffer is taken for read when its last byte is yet to come.
RefillsEarly(l) == buf[l] = 0 \/ pos[l] + 1 >= Width

\* `self.pos >= self.buf.len()'
Refills(l) == buf[l] = 0 \/ pos[l] >= Width

\* A buffer that is read is replaced by the next line, for which the reader waits.
Fill(l) ==
  IF Refills(l)
    THEN ~Empty(l) /\ received' = [received EXCEPT ![l] = @ + 1]
    ELSE UNCHANGED received
Line(l) == IF Refills(l) THEN received[l] + 1 ELSE buf[l]
At(l) == IF Refills(l) THEN 0 ELSE pos[l]

\* read takes what there is of the buffer, up to n bytes.
Read(l, n) ==
  /\ l \in rx
  /\ Fill(l)
  /\ LET got == IF n < Width - At(l) THEN n ELSE Width - At(l)
     IN /\ Deliver(l, Bytes(Line(l), At(l), got))
        /\ buf' = [buf EXCEPT ![l] = Line(l)]
        /\ pos' = [pos EXCEPT ![l] = At(l) + got]
  /\ UNCHANGED <<pc, writeEnds, app, handles, drain, rx, wrote, drained, eof, mixed>>

\* Ok(0), and the empty slice of fill_buf.
ReadEof(l) ==
  /\ l \in rx
  /\ Refills(l) /\ Disconnected(l)
  /\ eof' = eof \cup {l}
  /\ UNCHANGED <<pc, writeEnds, app, handles, drain, rx, counters, buf, pos, delivered, mixed>>

\* fill_buf; what it returns is taken by consume.
FillBuf(l) ==
  /\ l \in rx
  /\ Fill(l)
  /\ buf' = [buf EXCEPT ![l] = Line(l)]
  /\ pos' = [pos EXCEPT ![l] = At(l)]
  /\ UNCHANGED <<pc, writeEnds, app, handles, drain, rx, wrote, drained, delivered, eof, mixed>>

Consume(l, n) ==
  /\ l \in rx
  /\ buf[l] # 0 /\ pos[l] + n <= Width
  /\ Deliver(l, Bytes(buf[l], pos[l], n))
  /\ pos' = [pos EXCEPT ![l] = @ + n]
  /\ UNCHANGED <<pc, writeEnds, app, handles, drain, rx, counters, buf, eof, mixed>>

\* recv_timeout and try_recv with a line: the buffer is not looked at.
Recv(l) ==
  /\ l \in rx
  /\ ~Empty(l)
  /\ received' = [received EXCEPT ![l] = @ + 1]
  /\ Deliver(l, Bytes(received[l] + 1, 0, Width))
  /\ mixed' = IF buf[l] # 0 /\ pos[l] < Width THEN mixed \cup {l} ELSE mixed
  /\ UNCHANGED <<pc, writeEnds, app, handles, drain, rx, wrote, drained, buf, pos, eof>>

\* Err(Disconnected)
RecvEof(l) ==
  /\ l \in rx
  /\ Disconnected(l)
  /\ eof' = eof \cup {l}
  /\ UNCHANGED <<pc, writeEnds, app, handles, drain, rx, counters, buf, pos, delivered, mixed>>

DropStream(l) ==
  /\ l \in rx
  /\ rx' = rx \ {l}
  /\ UNCHANGED <<pc, writeEnds, app, handles, drain, counters, reader>>
-------------------------------------------------------------------------------
\* The app blocks on a full pipe; what it writes to a closed one is gone.
Blocked(l) ==
  /\ app[l] = "running" /\ l \in inherited[l]
  /\ HasReader(l) /\ wrote[l] - drained[l] = PipeCap

AppWrites(l) ==
  /\ app[l] = "running" /\ l \in inherited[l]
  /\ wrote[l] < Output /\ HasReader(l) /\ ~Blocked(l)
  /\ wrote' = [wrote EXCEPT ![l] = @ + 1]
  /\ UNCHANGED <<pc, writeEnds, app, handles, drain, rx, drained, received, reader>>

AppExits(l) ==
  /\ app[l] = "running"
  /\ app' = [app EXCEPT ![l] = "exited"]
  /\ UNCHANGED <<pc, writeEnds, handles, drain, rx, counters, reader>>

SpawnStep(l) ==
  CreatePipe(l) \/ ClearInherit(l) \/ CreateProcess(l) \/ CloseWriteEnd(l) \/ StartDrain(l)
DrainStep(l) == Drain(l) \/ DrainEnds(l)
ReaderStep(l) ==
  \/ \E n \in 1 .. Width : Read(l, n) \/ Consume(l, n)
  \/ FillBuf(l) \/ ReadEof(l) \/ Recv(l) \/ RecvEof(l) \/ DropStream(l)

Next ==
  \E l \in Launches :
    SpawnStep(l) \/ DrainStep(l) \/ ReaderStep(l) \/ AppWrites(l) \/ AppExits(l)

Spec == Init /\ [][Next]_vars

\* The launching and the draining threads run.  Nobody is obliged to read, and no
\* app to write or to exit.
FairSpec == Spec /\ \A l \in Launches : WF_vars(SpawnStep(l)) /\ WF_vars(DrainStep(l))
-------------------------------------------------------------------------------
\* Every variable stays in its range, and a stream's counters in their order.
TypeOK ==
  /\ pc \in [Launches -> {"pipe", "clear", "create", "close", "adopt", "done"}]
  /\ writeEnds \subseteq Piped
  /\ app \in [Launches -> {"none", "running", "exited"}]
  /\ inherited \in [Launches -> SUBSET Piped] /\ leaked \in [Launches -> SUBSET Piped]
  /\ drain \in [Launches -> {"none", "running", "ended"}]
  /\ rx \subseteq Piped /\ eof \subseteq Piped /\ mixed \subseteq Piped
  /\ wrote \in [Launches -> Nat] /\ drained \in [Launches -> Nat] /\ received \in [Launches -> Nat]
  /\ buf \in [Launches -> Nat] /\ pos \in [Launches -> Nat]
  /\ \A l \in Launches :
       /\ received[l] <= drained[l] /\ drained[l] <= wrote[l] /\ wrote[l] <= Output
       /\ wrote[l] - drained[l] <= PipeCap
       /\ buf[l] <= received[l] /\ pos[l] <= Width
       /\ pc[l] = "done" => l \notin writeEnds

\* The bytes of the lines up to n, in order.
ByteAt(i) == <<(i - 1) \div Width + 1, ((i - 1) % Width) + 1>>
Stream(n) == [i \in 1 .. Width * n |-> ByteAt(i)]

\* What is left of the line in the buffer.
Rest(l) == IF buf[l] = 0 THEN <<>> ELSE Bytes(buf[l], pos[l], Width - pos[l])

\* A byte that was received is delivered or still in the buffer, and never delivered
\* twice, whatever calls a reader mixes; and the bytes are delivered in the order in
\* which the app wrote them, unless a line was asked for while another was half read.
BytesArriveInOrder ==
  \A l \in Piped :
    /\ IsInjective(delivered[l])
    /\ ToSet(delivered[l]) \cup ToSet(Rest(l)) = ToSet(Stream(received[l]))
    /\ l \notin mixed => IsPrefix(delivered[l], Stream(wrote[l]))

\* A reader that is told that the stream has ended has been given all of it, and
\* the app has exited, unless a line was not UTF-8.
EofIsGenuine ==
  \A l \in eof \ Bad : app[l] = "exited" /\ received[l] = wrote[l]

\* The inductive invariant behind EofIsGenuine (CaptureWindowsProofs): an app that is
\* drained holds its own write end, and a drain thread that ended left nothing.
SpawnInv ==
  \A l \in Launches :
    /\ pc[l] \in {"pipe", "clear"} => l \in Piped
    /\ pc[l] \in {"adopt", "done"} => l \notin writeEnds
    /\ pc[l] \in {"close", "adopt"} \/ drain[l] # "none" => app[l] # "none" /\ l \in inherited[l]
    /\ drain[l] # "none" => pc[l] = "done"
DrainInv ==
  /\ \A l \in Launches \ Bad : drain[l] = "ended" => app[l] = "exited" /\ drained[l] = wrote[l]
  /\ \A l \in eof : Disconnected(l)
CaptureInv == TypeOK /\ SpawnInv /\ DrainInv

\* The one behind BytesArriveInOrder: every byte of a received line is in one of two
\* places; and while no line was asked for with another half read, the one in the
\* buffer is the last.
Ordered(s) == \A i \in DOMAIN s : s[i] = ByteAt(i)
RestSet(l) == IF buf[l] = 0 THEN {} ELSE {buf[l]} \X (pos[l] + 1 .. Width)
BytesOf(l) ==
  /\ IsInjective(delivered[l])
  /\ ToSet(delivered[l]) \cap RestSet(l) = {}
  /\ ToSet(delivered[l]) \cup RestSet(l) = (1 .. received[l]) \X (1 .. Width)
  /\ l \notin mixed =>
       /\ Ordered(delivered[l])
       /\ IF Refills(l) THEN Len(delivered[l]) = Width * received[l]
          ELSE buf[l] = received[l] /\ Len(delivered[l]) = Width * (received[l] - 1) + pos[l]
ByteSeqs == Seq(Nat \X Nat)
BytesInv ==
  /\ delivered \in [Launches -> ByteSeqs]
  /\ \A l \in Launches : BytesOf(l)

\* The app is not blocked on its pipe for ever, whether its output is read, is not
\* read or the ChildStdout was dropped; except that an app with a line that is not
\* UTF-8 waits after it for as long as another app runs that was created between
\* CreatePipe and SetHandleInformation and holds the read end that nobody reads.
AppNeverStalls ==
  \A l \in Piped :
    Blocked(l) ~> ~Blocked(l) \/ (l \in Bad /\ drain[l] = "ended" /\ LeakHeld(l))

\* Once spawn has returned, the stream ends when the app has exited, and with it
\* every other app that was created while its write end was open in the caller.
EofArrives ==
  \A l \in Piped :
    /\ pc[l] = "done" /\ l \in inherited[l]
    /\ \A m \in Launches : l \in inherited[m] => app[m] = "exited"
    ~> drain[l] = "ended"

\* The pipe, the drain thread, the channel and the reader's calls implement the abstract
\* CapturedOutput: a reader gets every line once and in order, and is told of the end
\* after the last one.
CapturedEnd(l) ==
  IF drain[l] # "none" /\ l \notin rx THEN "gone" ELSE IF l \in eof THEN "ended" ELSE "open"
Captured ==
  INSTANCE CapturedOutput WITH
    Streams <- Piped,
    Lossy <- Bad,
    running <- {l \in Piped : app[l] = "running"},
    sent <- [l \in Piped |-> wrote[l]],
    got <- [l \in Piped |-> received[l]],
    end <- [l \in Piped |-> CapturedEnd(l)]
ImplementsCapturedOutput == Captured!Spec
===============================================================================

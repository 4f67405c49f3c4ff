--------------------------- MODULE CaptureWindowsProofs ---------------------------
(* Proofs about CaptureWindows, for any launches, output and size of the pipes. *)
EXTENDS CaptureWindows, TLAPS

USE CaptureAssumption

\* What a reader holds after a refill is a line that was received, and what it holds
\* otherwise is as before.
LEMMA FillFacts ==
  ASSUME TypeOK, NEW l \in Launches, Fill(l), UNCHANGED drained
  PROVE  /\ Line(l) \in Nat /\ At(l) \in Nat /\ At(l) <= Width
         /\ received' \in [Launches -> Nat] /\ Line(l) <= received'[l]
         /\ \A m \in Launches : received[m] <= received'[m] /\ received'[m] <= drained'[m]
<1> USE DEF TypeOK, Line, At, Width
<1>1. CASE Refills(l)
  BY <1>1 DEF Fill, Empty
<1>2. CASE ~Refills(l)
  BY <1>2 DEF Fill, Refills
<1> QED
  BY <1>1, <1>2

\* A step keeps every variable in its range and a stream's counters in their order.
LEMMA TypeStep == CaptureInv /\ [Next]_vars => TypeOK'
<1> SUFFICES ASSUME CaptureInv, [Next]_vars PROVE TypeOK'
  OBVIOUS
<1> USE DEF CaptureInv, TypeOK, SpawnInv, Width, counters, reader, handles
<1>1. ASSUME NEW l \in Launches, CreatePipe(l) PROVE TypeOK'
  BY <1>1 DEF CreatePipe, Goto
<1>17. ASSUME NEW l \in Launches, ClearInherit(l) PROVE TypeOK'
  BY <1>17 DEF ClearInherit, Goto
<1>2. ASSUME NEW l \in Launches, CreateProcess(l) PROVE TypeOK'
  BY <1>2 DEF CreateProcess, Goto, Loose
<1>3. ASSUME NEW l \in Launches, CloseWriteEnd(l) PROVE TypeOK'
  BY <1>3 DEF CloseWriteEnd, Goto
<1>4. ASSUME NEW l \in Launches, StartDrain(l) PROVE TypeOK'
  BY <1>4 DEF StartDrain, Goto
<1>5. ASSUME NEW l \in Launches, Drain(l) PROVE TypeOK'
  BY <1>5 DEF Drain
<1>6. ASSUME NEW l \in Launches, DrainEnds(l) PROVE TypeOK'
  BY <1>6 DEF DrainEnds, HasWriter
<1>7. ASSUME NEW l \in Launches, FillBuf(l) PROVE TypeOK'
  <2>1. /\ Line(l) \in Nat /\ At(l) \in Nat /\ At(l) <= Width
        /\ received' \in [Launches -> Nat] /\ Line(l) <= received'[l]
        /\ \A m \in Launches : received[m] <= received'[m] /\ received'[m] <= drained'[m]
    BY <1>7, FillFacts DEF FillBuf
  <2>2. /\ buf' = [buf EXCEPT ![l] = Line(l)] /\ pos' = [pos EXCEPT ![l] = At(l)]
        /\ UNCHANGED <<pc, writeEnds, app, handles, drain, rx, wrote, drained, eof, mixed>>
    BY <1>7 DEF FillBuf
  <2> QED
    BY <2>1, <2>2
<1>8. ASSUME NEW l \in Launches, ReadEof(l) PROVE TypeOK'
  BY <1>8 DEF ReadEof, Disconnected, Empty
<1>9. ASSUME NEW l \in Launches, Recv(l) PROVE TypeOK'
  BY <1>9 DEF Recv, Empty
<1>10. ASSUME NEW l \in Launches, RecvEof(l) PROVE TypeOK'
  BY <1>10 DEF RecvEof, Disconnected, Empty
<1>11. ASSUME NEW l \in Launches, DropStream(l) PROVE TypeOK'
  BY <1>11 DEF DropStream
<1>12. ASSUME NEW l \in Launches, AppWrites(l) PROVE TypeOK'
  BY <1>12 DEF AppWrites, Blocked
<1>13. ASSUME NEW l \in Launches, AppExits(l) PROVE TypeOK'
  BY <1>13 DEF AppExits
<1>14. ASSUME NEW l \in Launches, NEW n \in 1 .. Width, Read(l, n) PROVE TypeOK'
  <2> DEFINE got == IF n < Width - At(l) THEN n ELSE Width - At(l)
  <2>1. /\ Line(l) \in Nat /\ At(l) \in Nat /\ At(l) <= Width
        /\ received' \in [Launches -> Nat] /\ Line(l) <= received'[l]
        /\ \A m \in Launches : received[m] <= received'[m] /\ received'[m] <= drained'[m]
    BY <1>14, FillFacts DEF Read
  <2>2. At(l) + got \in Nat /\ At(l) + got <= Width
    BY <2>1
  <2>3. /\ buf' = [buf EXCEPT ![l] = Line(l)] /\ pos' = [pos EXCEPT ![l] = At(l) + got]
        /\ UNCHANGED <<pc, writeEnds, app, handles, drain, rx, wrote, drained, eof, mixed>>
    BY <1>14 DEF Read
  <2> HIDE DEF got
  <2> QED
    BY <2>1, <2>2, <2>3
<1>15. ASSUME NEW l \in Launches, NEW n \in 1 .. Width, Consume(l, n) PROVE TypeOK'
  BY <1>15 DEF Consume
<1>16. CASE UNCHANGED vars
  BY <1>16 DEF vars
<1> QED
  BY <1>1, <1>2, <1>3, <1>4, <1>5, <1>6, <1>7, <1>8, <1>9, <1>10, <1>11, <1>12, <1>13, <1>14, <1>15,
     <1>16, <1>17 DEF Next, SpawnStep, DrainStep, ReaderStep

\* A step leaves a drained app its own write end, and the caller none.
LEMMA SpawnStepInv == CaptureInv /\ [Next]_vars => SpawnInv'
<1> SUFFICES ASSUME CaptureInv, [Next]_vars PROVE SpawnInv'
  OBVIOUS
<1> USE DEF CaptureInv, TypeOK, SpawnInv, Width, counters, reader, handles
<1>1. ASSUME NEW l \in Launches, CreatePipe(l) PROVE SpawnInv'
  BY <1>1 DEF CreatePipe, Goto
<1>17. ASSUME NEW l \in Launches, ClearInherit(l) PROVE SpawnInv'
  BY <1>17 DEF ClearInherit, Goto
<1>2. ASSUME NEW l \in Launches, CreateProcess(l) PROVE SpawnInv'
  BY <1>2 DEF CreateProcess, Goto, Loose
<1>3. ASSUME NEW l \in Launches, CloseWriteEnd(l) PROVE SpawnInv'
  BY <1>3 DEF CloseWriteEnd, Goto
<1>4. ASSUME NEW l \in Launches, StartDrain(l) PROVE SpawnInv'
  BY <1>4 DEF StartDrain, Goto
<1>5. ASSUME NEW l \in Launches, Drain(l) PROVE SpawnInv'
  BY <1>5 DEF Drain
<1>6. ASSUME NEW l \in Launches, DrainEnds(l) PROVE SpawnInv'
  BY <1>6 DEF DrainEnds, HasWriter
<1>7. ASSUME NEW l \in Launches, FillBuf(l) PROVE SpawnInv'
  <2>1. /\ Line(l) \in Nat /\ At(l) \in Nat /\ At(l) <= Width
        /\ received' \in [Launches -> Nat] /\ Line(l) <= received'[l]
        /\ \A m \in Launches : received[m] <= received'[m] /\ received'[m] <= drained'[m]
    BY <1>7, FillFacts DEF FillBuf
  <2>2. /\ buf' = [buf EXCEPT ![l] = Line(l)] /\ pos' = [pos EXCEPT ![l] = At(l)]
        /\ UNCHANGED <<pc, writeEnds, app, handles, drain, rx, wrote, drained, eof, mixed>>
    BY <1>7 DEF FillBuf
  <2> QED
    BY <2>1, <2>2
<1>8. ASSUME NEW l \in Launches, ReadEof(l) PROVE SpawnInv'
  BY <1>8 DEF ReadEof, Disconnected, Empty
<1>9. ASSUME NEW l \in Launches, Recv(l) PROVE SpawnInv'
  BY <1>9 DEF Recv, Empty
<1>10. ASSUME NEW l \in Launches, RecvEof(l) PROVE SpawnInv'
  BY <1>10 DEF RecvEof, Disconnected, Empty
<1>11. ASSUME NEW l \in Launches, DropStream(l) PROVE SpawnInv'
  BY <1>11 DEF DropStream
<1>12. ASSUME NEW l \in Launches, AppWrites(l) PROVE SpawnInv'
  BY <1>12 DEF AppWrites, Blocked
<1>13. ASSUME NEW l \in Launches, AppExits(l) PROVE SpawnInv'
  BY <1>13 DEF AppExits
<1>14. ASSUME NEW l \in Launches, NEW n \in 1 .. Width, Read(l, n) PROVE SpawnInv'
  <2> DEFINE got == IF n < Width - At(l) THEN n ELSE Width - At(l)
  <2>1. /\ Line(l) \in Nat /\ At(l) \in Nat /\ At(l) <= Width
        /\ received' \in [Launches -> Nat] /\ Line(l) <= received'[l]
        /\ \A m \in Launches : received[m] <= received'[m] /\ received'[m] <= drained'[m]
    BY <1>14, FillFacts DEF Read
  <2>2. At(l) + got \in Nat /\ At(l) + got <= Width
    BY <2>1
  <2>3. /\ buf' = [buf EXCEPT ![l] = Line(l)] /\ pos' = [pos EXCEPT ![l] = At(l) + got]
        /\ UNCHANGED <<pc, writeEnds, app, handles, drain, rx, wrote, drained, eof, mixed>>
    BY <1>14 DEF Read
  <2> HIDE DEF got
  <2> QED
    BY <2>1, <2>2, <2>3
<1>15. ASSUME NEW l \in Launches, NEW n \in 1 .. Width, Consume(l, n) PROVE SpawnInv'
  BY <1>15 DEF Consume
<1>16. CASE UNCHANGED vars
  BY <1>16 DEF vars
<1> QED
  BY <1>1, <1>2, <1>3, <1>4, <1>5, <1>6, <1>7, <1>8, <1>9, <1>10, <1>11, <1>12, <1>13, <1>14, <1>15,
     <1>16, <1>17 DEF Next, SpawnStep, DrainStep, ReaderStep

\* A step ends no drain thread that has something left.
LEMMA DrainStepInv == CaptureInv /\ [Next]_vars => DrainInv'
<1> SUFFICES ASSUME CaptureInv, [Next]_vars PROVE DrainInv'
  OBVIOUS
<1> USE DEF CaptureInv, TypeOK, SpawnInv, Width, counters, reader, handles, DrainInv, Disconnected, Empty
<1>1. ASSUME NEW l \in Launches, CreatePipe(l) PROVE DrainInv'
  BY <1>1 DEF CreatePipe, Goto
<1>17. ASSUME NEW l \in Launches, ClearInherit(l) PROVE DrainInv'
  BY <1>17 DEF ClearInherit, Goto
<1>2. ASSUME NEW l \in Launches, CreateProcess(l) PROVE DrainInv'
  BY <1>2 DEF CreateProcess, Goto, Loose
<1>3. ASSUME NEW l \in Launches, CloseWriteEnd(l) PROVE DrainInv'
  BY <1>3 DEF CloseWriteEnd, Goto
<1>4. ASSUME NEW l \in Launches, StartDrain(l) PROVE DrainInv'
  BY <1>4 DEF StartDrain, Goto
<1>5. ASSUME NEW l \in Launches, Drain(l) PROVE DrainInv'
  BY <1>5 DEF Drain
<1>6. ASSUME NEW l \in Launches, DrainEnds(l) PROVE DrainInv'
  BY <1>6 DEF DrainEnds, HasWriter
<1>7. ASSUME NEW l \in Launches, FillBuf(l) PROVE DrainInv'
  BY <1>7 DEF FillBuf, Fill, Refills, Line, At, Empty
<1>8. ASSUME NEW l \in Launches, ReadEof(l) PROVE DrainInv'
  BY <1>8 DEF ReadEof, Disconnected, Empty
<1>9. ASSUME NEW l \in Launches, Recv(l) PROVE DrainInv'
  BY <1>9 DEF Recv, Empty
<1>10. ASSUME NEW l \in Launches, RecvEof(l) PROVE DrainInv'
  BY <1>10 DEF RecvEof, Disconnected, Empty
<1>11. ASSUME NEW l \in Launches, DropStream(l) PROVE DrainInv'
  BY <1>11 DEF DropStream
<1>12. ASSUME NEW l \in Launches, AppWrites(l) PROVE DrainInv'
  BY <1>12 DEF AppWrites, Blocked
<1>13. ASSUME NEW l \in Launches, AppExits(l) PROVE DrainInv'
  BY <1>13 DEF AppExits
<1>14. ASSUME NEW l \in Launches, NEW n \in 1 .. Width, Read(l, n) PROVE DrainInv'
  BY <1>14 DEF Read, Fill, Refills, Line, At, Empty
<1>15. ASSUME NEW l \in Launches, NEW n \in 1 .. Width, Consume(l, n) PROVE DrainInv'
  BY <1>15 DEF Consume
<1>16. CASE UNCHANGED vars
  BY <1>16 DEF vars
<1> QED
  BY <1>1, <1>2, <1>3, <1>4, <1>5, <1>6, <1>7, <1>8, <1>9, <1>10, <1>11, <1>12, <1>13, <1>14, <1>15,
     <1>16, <1>17 DEF Next, SpawnStep, DrainStep, ReaderStep

\* The inductive invariant holds in every reachable state.
THEOREM Invariance == Spec => []CaptureInv
<1>1. Init => CaptureInv
  <2> SUFFICES ASSUME Init PROVE CaptureInv
    OBVIOUS
  <2>1. TypeOK
    BY DEF Init, TypeOK, Width
  <2>2. SpawnInv /\ DrainInv
    BY DEF Init, SpawnInv, DrainInv
  <2> QED
    BY <2>1, <2>2 DEF CaptureInv
<1>2. CaptureInv /\ [Next]_vars => CaptureInv'
  BY TypeStep, SpawnStepInv, DrainStepInv DEF CaptureInv
<1> QED
  BY <1>1, <1>2, PTL DEF Spec

\* Every variable keeps its range, a stream's counters their order and the pipe its
\* bound.
THEOREM TypeCorrect == Spec => []TypeOK
<1>1. CaptureInv => TypeOK
  BY DEF CaptureInv
<1> QED
  BY <1>1, Invariance, PTL

\* A reader is told of the end only when the app has exited and everything it wrote
\* was received.
THEOREM EndIsGenuine == Spec => []EofIsGenuine
<1>1. CaptureInv => EofIsGenuine
  BY DEF CaptureInv, TypeOK, DrainInv, EofIsGenuine, Disconnected, Empty
<1> QED
  BY <1>1, Invariance, PTL
-------------------------------------------------------------------------------
\* Bytes are numbered line by line.
LEMMA ByteOfLine ==
  ASSUME NEW k \in Nat \ {0}, NEW b \in 1 .. 2
  PROVE  ByteAt(2 * (k - 1) + b) = <<k, b>>
BY DEF ByteAt, Width

\* The bytes of the first n lines, as a sequence and as a set.
LEMMA StreamSet ==
  ASSUME NEW n \in Nat
  PROVE  /\ ToSet(Stream(n)) = (1 .. n) \X (1 .. 2)
         /\ Stream(n) \in Seq(Nat \X Nat) /\ Len(Stream(n)) = 2 * n
         /\ \A i \in 1 .. 2 * n : Stream(n)[i] = ByteAt(i)
<1>1. /\ DOMAIN Stream(n) = 1 .. 2 * n
      /\ \A i \in 1 .. 2 * n : Stream(n)[i] = ByteAt(i)
  BY DEF Stream, Width
<1>2. ASSUME NEW i \in 1 .. 2 * n PROVE ByteAt(i) \in (1 .. n) \X (1 .. 2)
  BY <1>2 DEF ByteAt, Width
<1>3. ASSUME NEW k \in 1 .. n, NEW b \in 1 .. 2
      PROVE  \E i \in 1 .. 2 * n : ByteAt(i) = <<k, b>>
  <2>1. 2 * (k - 1) + b \in 1 .. 2 * n
    OBVIOUS
  <2>2. k \in Nat \ {0}
    OBVIOUS
  <2>3. ByteAt(2 * (k - 1) + b) = <<k, b>>
    BY <2>2, ByteOfLine
  <2> QED  BY <2>1, <2>3
<1>4. ToSet(Stream(n)) = {Stream(n)[i] : i \in 1 .. 2 * n}
  BY <1>1 DEF ToSet
<1>5. ToSet(Stream(n)) = (1 .. n) \X (1 .. 2)
  <2>1. ASSUME NEW x \in ToSet(Stream(n)) PROVE x \in (1 .. n) \X (1 .. 2)
    BY <1>1, <1>2, <1>4
  <2>2. ASSUME NEW k \in 1 .. n, NEW b \in 1 .. 2 PROVE <<k, b>> \in ToSet(Stream(n))
    <3>1. PICK i \in 1 .. 2 * n : ByteAt(i) = <<k, b>>
      BY <1>3
    <3> QED  BY <1>1, <1>4, <3>1
  <2>3. ASSUME NEW x \in (1 .. n) \X (1 .. 2) PROVE x \in ToSet(Stream(n))
    <3>1. x = <<x[1], x[2]>> /\ x[1] \in 1 .. n /\ x[2] \in 1 .. 2
      OBVIOUS
    <3> QED  BY <2>2, <3>1
  <2> QED  BY <2>1, <2>3
<1>6. Stream(n) \in [1 .. 2 * n -> Nat \X Nat]
  <2>1. \A i \in 1 .. 2 * n : ByteAt(i) \in Nat \X Nat
    BY <1>2
  <2> QED  BY <2>1 DEF Stream, Width
<1>7. Stream(n) \in Seq(Nat \X Nat) /\ Len(Stream(n)) = 2 * n
  BY <1>6
<1> QED
  BY <1>1, <1>5, <1>7

\* What a part of a line is, as a sequence and as a set.
LEMMA BytesSeq ==
  ASSUME NEW k \in Nat, NEW p \in Nat, NEW n \in Nat
  PROVE  /\ Bytes(k, p, n) \in Seq(Nat \X Nat) /\ Len(Bytes(k, p, n)) = n
         /\ DOMAIN Bytes(k, p, n) = 1 .. n
         /\ \A i \in 1 .. n : Bytes(k, p, n)[i] = <<k, p + i>>
<1> DEFINE B == Bytes(k, p, n)
<1>1. B \in [1 .. n -> Nat \X Nat] /\ \A i \in 1 .. n : B[i] = <<k, p + i>>
  BY DEF Bytes
<1> HIDE DEF B
<1>2. B \in Seq(Nat \X Nat) /\ Len(B) = n /\ DOMAIN B = 1 .. n
  BY <1>1
<1> QED
  BY <1>1, <1>2 DEF B

LEMMA BytesSet ==
  ASSUME NEW k \in Nat, NEW p \in Nat, NEW n \in Nat
  PROVE  ToSet(Bytes(k, p, n)) = {k} \X (p + 1 .. p + n)
<1> DEFINE B == Bytes(k, p, n)
<1>1. DOMAIN B = 1 .. n /\ \A i \in 1 .. n : B[i] = <<k, p + i>>
  BY DEF Bytes
<1> HIDE DEF B
<1>2. ToSet(B) = {B[i] : i \in 1 .. n}
  BY <1>1 DEF ToSet
<1>3. ASSUME NEW b \in p + 1 .. p + n PROVE \E i \in 1 .. n : B[i] = <<k, b>>
  <2>1. b - p \in 1 .. n /\ p + (b - p) = b
    BY <1>3
  <2> QED  BY <1>1, <2>1
<1>4. \A i \in 1 .. n : p + i \in p + 1 .. p + n
  OBVIOUS
<1>5. ToSet(B) = {k} \X (p + 1 .. p + n)
  <2>1. ASSUME NEW x \in ToSet(B) PROVE x \in {k} \X (p + 1 .. p + n)
    <3>1. PICK i \in 1 .. n : x = B[i]
      BY <1>2
    <3>2. x = <<k, p + i>> /\ p + i \in p + 1 .. p + n
      BY <1>1, <1>4, <3>1
    <3> QED  BY <3>2
  <2>2. ASSUME NEW b \in p + 1 .. p + n PROVE <<k, b>> \in ToSet(B)
    BY <1>2, <1>3
  <2> QED  BY <2>1, <2>2
<1> QED
  BY <1>5 DEF B

\* What was delivered, with n bytes more of line k.
After(s, k, p, n) == s \o Bytes(k, p, n)

\* A part of a line that was not delivered yet is appended to what was.
LEMMA Appended ==
  ASSUME NEW s \in ByteSeqs, NEW k \in Nat \ {0}, NEW p \in Nat, NEW n \in Nat, p + n <= 2,
         IsInjective(s), ToSet(s) \cap ({k} \X (p + 1 .. 2)) = {},
         NEW t, t = After(s, k, p, n)
  PROVE  /\ t \in ByteSeqs /\ Len(t) = Len(s) + n
         /\ IsInjective(t)
         /\ ToSet(t) = ToSet(s) \cup ({k} \X (p + 1 .. p + n))
         /\ Ordered(s) /\ Len(s) = 2 * (k - 1) + p
              => Ordered(t)
<1> DEFINE B == Bytes(k, p, n)
<1>1. /\ B \in Seq(Nat \X Nat) /\ Len(B) = n /\ IsInjective(B)
      /\ \A i \in 1 .. n : B[i] = <<k, p + i>>
      /\ ToSet(B) = {k} \X (p + 1 .. p + n)
  <2>1. k \in Nat
    OBVIOUS
  <2>2. Bytes(k, p, n) \in Seq(Nat \X Nat) /\ Len(Bytes(k, p, n)) = n
    BY <2>1, BytesSeq
  <2>3. DOMAIN Bytes(k, p, n) = 1 .. n /\ \A i \in 1 .. n : Bytes(k, p, n)[i] = <<k, p + i>>
    BY DEF Bytes
  <2>4. IsInjective(Bytes(k, p, n))
    BY <2>1, <2>3 DEF IsInjective
  <2>5. ToSet(Bytes(k, p, n)) = {k} \X (p + 1 .. p + n)
    BY <2>1, BytesSet
  <2> QED  BY <2>2, <2>3, <2>4, <2>5
<1>2. t = s \o B /\ s \in Seq(Nat \X Nat)
  BY DEF After, ByteSeqs
<1> HIDE DEF B
<1>3. /\ t \in Seq(Nat \X Nat) /\ Len(t) = Len(s) + n /\ Len(s) \in Nat
      /\ DOMAIN t = 1 .. Len(s) + n /\ DOMAIN s = 1 .. Len(s) /\ DOMAIN B = 1 .. n
      /\ \A i \in 1 .. Len(s) : t[i] = s[i]
      /\ \A i \in 1 .. n : t[Len(s) + i] = B[i]
  <2> DEFINE S == Nat \X Nat
  <2>1. s \in Seq(S) /\ B \in Seq(S) /\ Len(B) = n
    BY <1>1, <1>2
  <2> HIDE DEF S
  <2>2. /\ t \in Seq(S) /\ Len(t) = Len(s) + n /\ Len(s) \in Nat
        /\ \A i \in 1 .. Len(s) : t[i] = s[i]
        /\ \A i \in 1 .. n : t[Len(s) + i] = B[i]
    <3>1. /\ s \o B \in Seq(S) /\ Len(s \o B) = Len(s) + Len(B) /\ Len(s) \in Nat
          /\ \A i \in 1 .. Len(s) : (s \o B)[i] = s[i]
          /\ \A i \in 1 .. Len(B) : (s \o B)[Len(s) + i] = B[i]
      BY <2>1
    <3> QED  BY <1>2, <2>1, <3>1
  <2> QED  BY <2>1, <2>2 DEF S
<1>4. \A i \in DOMAIN t : i \in DOMAIN s \/ (i - Len(s) \in 1 .. n /\ t[i] = B[i - Len(s)])
  <2>1. ASSUME NEW i \in DOMAIN t, i \notin DOMAIN s
        PROVE  i - Len(s) \in 1 .. n /\ Len(s) + (i - Len(s)) = i
    BY <1>3, <2>1
  <2> QED  BY <1>3, <2>1
<1>5. ToSet(s) = {s[i] : i \in 1 .. Len(s)} /\ ToSet(B) = {B[i] : i \in 1 .. n}
      /\ ToSet(t) = {t[i] : i \in 1 .. Len(s) + n}
  BY <1>3 DEF ToSet
<1>6. ToSet(t) = ToSet(s) \cup ToSet(B)
  <2>1. \A i \in 1 .. n : Len(s) + i \in 1 .. Len(s) + n
    BY <1>3
  <2>2. \A i \in 1 .. Len(s) : i \in 1 .. Len(s) + n
    BY <1>3
  <2>3. ASSUME NEW x \in ToSet(t) PROVE x \in ToSet(s) \cup ToSet(B)
    <3>1. PICK i \in DOMAIN t : x = t[i]
      BY <1>3, <1>5
    <3> QED  BY <1>3, <1>4, <1>5, <3>1
  <2>4. ASSUME NEW x \in ToSet(s) \cup ToSet(B) PROVE x \in ToSet(t)
    BY <1>3, <1>5, <2>1, <2>2
  <2> QED  BY <2>3, <2>4
<1>7. ToSet(s) \cap ToSet(B) = {}
  <2>1. p + 1 .. p + n \subseteq p + 1 .. 2
    OBVIOUS
  <2> QED  BY <1>1, <2>1
<1>8. IsInjective(t)
  <2>1. ASSUME NEW i \in DOMAIN t, NEW j \in DOMAIN t, t[i] = t[j] PROVE i = j
    <3>1. CASE i \in DOMAIN s /\ j \in DOMAIN s
      BY <1>3, <2>1, <3>1 DEF IsInjective
    <3>2. CASE i \in DOMAIN s /\ j \notin DOMAIN s
      <4>1. t[i] \in ToSet(s) /\ t[j] \in ToSet(B)
        BY <1>3, <1>4, <1>5, <3>2
      <4> QED  BY <1>7, <2>1, <4>1
    <3>3. CASE i \notin DOMAIN s /\ j \in DOMAIN s
      <4>1. t[j] \in ToSet(s) /\ t[i] \in ToSet(B)
        BY <1>3, <1>4, <1>5, <3>3
      <4> QED  BY <1>7, <2>1, <4>1
    <3>4. CASE i \notin DOMAIN s /\ j \notin DOMAIN s
      <4>1. /\ i - Len(s) \in DOMAIN B /\ j - Len(s) \in DOMAIN B
            /\ B[i - Len(s)] = B[j - Len(s)]
        BY <1>3, <1>4, <2>1, <3>4
      <4>2. i - Len(s) = j - Len(s)
        BY <1>1, <4>1 DEF IsInjective
      <4> QED  BY <1>3, <4>2
    <3> QED  BY <3>1, <3>2, <3>3, <3>4
  <2> QED  BY <2>1 DEF IsInjective
<1>9. ASSUME Ordered(s), Len(s) = 2 * (k - 1) + p, NEW i \in DOMAIN t
      PROVE  t[i] = ByteAt(i)
  <2>1. CASE i \in DOMAIN s
    BY <1>3, <1>9, <2>1 DEF Ordered
  <2>2. CASE i \notin DOMAIN s
    <3> DEFINE j == i - Len(s)
    <3>1. j \in 1 .. n /\ t[i] = <<k, p + j>>
      BY <1>1, <1>4, <2>2
    <3>2. p + j \in 1 .. 2 /\ i = 2 * (k - 1) + (p + j)
      <4>1. i \in Nat /\ Len(s) \in Nat /\ i = Len(s) + j
        BY <1>3
      <4> HIDE DEF j
      <4> QED  BY <1>9, <3>1, <4>1
    <3> HIDE DEF j
    <3>3. ByteAt(2 * (k - 1) + (p + j)) = <<k, p + j>>
      BY <3>2, ByteOfLine
    <3> QED  BY <3>1, <3>2, <3>3
  <2> QED  BY <2>1, <2>2
<1>10. Ordered(s) /\ Len(s) = 2 * (k - 1) + p => Ordered(t)
  BY <1>9 DEF Ordered
<1> QED
  BY <1>1, <1>3, <1>6, <1>8, <1>10 DEF ByteSeqs

\* A step that touches the reader of one launch leaves the others alone.
LEMMA BytesOfOthers ==
  ASSUME BytesInv, NEW l \in Launches, BytesOf(l)', delivered' \in [Launches -> ByteSeqs],
         \A m \in Launches \ {l} :
           /\ delivered'[m] = delivered[m] /\ buf'[m] = buf[m] /\ pos'[m] = pos[m]
           /\ received'[m] = received[m] /\ (m \in mixed => m \in mixed')
           /\ (m \in mixed' => m \in mixed)
  PROVE  BytesInv'
<1>1. ASSUME NEW m \in Launches \ {l} PROVE BytesOf(m)'
  <2>1. /\ delivered'[m] = delivered[m] /\ buf'[m] = buf[m] /\ pos'[m] = pos[m]
        /\ received'[m] = received[m] /\ (m \in mixed <=> m \in mixed')
    BY <1>1
  <2>2. RestSet(m)' = RestSet(m) /\ (Refills(m)' <=> Refills(m))
    BY <2>1 DEF RestSet, Refills
  <2>3. BytesOf(m)
    BY <1>1 DEF BytesInv
  <2> QED  BY <2>1, <2>2, <2>3 DEF BytesOf
<1> QED
  BY <1>1 DEF BytesInv

\* A step that touches no reader keeps them all.
LEMMA BytesKept ==
  ASSUME BytesInv, UNCHANGED <<delivered, buf, pos, received, mixed>>
  PROVE  BytesInv'
BY DEF BytesInv, BytesOf, RestSet, Refills

\* The line that read and fill_buf work on, and where in it: all of what was received
\* is delivered or in what is left of that line.
LEMMA FillBytes ==
  ASSUME CaptureInv, BytesInv, NEW l \in Launches, Fill(l)
  PROVE  /\ Line(l) \in Nat \ {0} /\ At(l) \in {0, 1}
         /\ received'[l] \in Nat /\ \A m \in Launches \ {l} : received'[m] = received[m]
         /\ ToSet(delivered[l]) \cap ({Line(l)} \X (At(l) + 1 .. 2)) = {}
         /\ ToSet(delivered[l]) \cup ({Line(l)} \X (At(l) + 1 .. 2)) = (1 .. received'[l]) \X (1 .. 2)
         /\ l \notin mixed => /\ Ordered(delivered[l])
                              /\ Line(l) = received'[l]
                              /\ Len(delivered[l]) = 2 * (Line(l) - 1) + At(l)
<1> USE DEF Width
<1>1. received \in [Launches -> Nat] /\ buf[l] \in Nat /\ pos[l] \in Nat /\ buf[l] <= received[l]
  BY DEF CaptureInv, TypeOK
<1>2. BytesOf(l)
  BY DEF BytesInv
<1>3. CASE Refills(l)
  <2>1. Line(l) = received[l] + 1 /\ At(l) = 0
    BY <1>3 DEF Line, At
  <2>2. received'[l] = received[l] + 1 /\ \A m \in Launches \ {l} : received'[m] = received[m]
    BY <1>1, <1>3 DEF Fill
  <2>3. RestSet(l) = {}
    BY <1>1, <1>3 DEF RestSet, Refills
  <2>4. ToSet(delivered[l]) = (1 .. received[l]) \X (1 .. 2)
    BY <1>2, <2>3 DEF BytesOf
  <2>5. /\ received[l] + 1 \notin 1 .. received[l]
        /\ 1 .. received[l] + 1 = 1 .. received[l] \cup {received[l] + 1}
    BY <1>1
  <2>6. l \notin mixed => /\ Ordered(delivered[l])
                          /\ Len(delivered[l]) = 2 * received[l]
    BY <1>2, <1>3 DEF BytesOf
  <2>7. 2 * (received[l] + 1 - 1) + 0 = 2 * received[l]
    BY <1>1
  <2>8. (1 .. received[l]) \X (1 .. 2) \cup ({received[l] + 1} \X (1 .. 2))
          = (1 .. received[l] + 1) \X (1 .. 2)
    BY <2>5
  <2>9. ToSet(delivered[l]) \cap ({received[l] + 1} \X (1 .. 2)) = {}
    BY <2>4, <2>5
  <2>10. received[l] + 1 \in Nat \ {0}
    BY <1>1
  <2>11. At(l) + 1 .. 2 = 1 .. 2
    BY <2>1
  <2>12. ToSet(delivered[l]) \cup ({received[l] + 1} \X (1 .. 2)) = (1 .. received'[l]) \X (1 .. 2)
    BY <2>2, <2>4, <2>8
  <2>13. /\ Line(l) = received'[l] /\ Line(l) \in Nat \ {0} /\ At(l) \in {0, 1}
         /\ received'[l] \in Nat /\ \A m \in Launches \ {l} : received'[m] = received[m]
    BY <2>1, <2>2, <2>10
  <2>14. /\ ToSet(delivered[l]) \cap ({Line(l)} \X (At(l) + 1 .. 2)) = {}
         /\ ToSet(delivered[l]) \cup ({Line(l)} \X (At(l) + 1 .. 2)) = (1 .. received'[l]) \X (1 .. 2)
    BY <2>1, <2>9, <2>11, <2>12
  <2>15. 2 * (Line(l) - 1) + At(l) = 2 * received[l]
    <3> DEFINE k == Line(l)
               p == At(l)
    <3>1. k = received[l] + 1 /\ p = 0
      BY <2>1
    <3> HIDE DEF k, p
    <3>2. 2 * (k - 1) + p = 2 * received[l]
      BY <1>1, <3>1
    <3> QED  BY <3>2 DEF k, p
  <2> QED  BY <2>6, <2>13, <2>14, <2>15
<1>4. CASE ~Refills(l)
  <2>1. Line(l) = buf[l] /\ At(l) = pos[l] /\ received' = received /\ buf[l] # 0 /\ pos[l] < 2
    <3>1. buf[l] # 0 /\ pos[l] < 2
      BY <1>1, <1>4 DEF Refills
    <3> QED  BY <1>4, <3>1 DEF Line, At, Fill
  <2>2. RestSet(l) = {buf[l]} \X (pos[l] + 1 .. 2)
    BY <2>1 DEF RestSet
  <2> QED  BY <1>1, <1>2, <1>4, <2>1, <2>2 DEF BytesOf
<1> QED
  BY <1>3, <1>4

\* Delivering the next n bytes of a line of which those up to p are not left any more.
LEMMA Delivers ==
  ASSUME BytesInv, NEW l \in Launches, NEW k \in Nat \ {0}, NEW p \in Nat, NEW n \in Nat, p + n <= 2,
         ToSet(delivered[l]) \cap ({k} \X (p + 1 .. 2)) = {},
         ToSet(delivered[l]) \cup ({k} \X (p + 1 .. 2)) = (1 .. received'[l]) \X (1 .. 2),
         l \notin mixed => /\ Ordered(delivered[l])
                           /\ k = received'[l]
                           /\ Len(delivered[l]) = 2 * (k - 1) + p,
         delivered'[l] = After(delivered[l], k, p, n),
         buf'[l] = k, pos'[l] = p + n, mixed' = mixed
  PROVE  BytesOf(l)' /\ delivered'[l] \in ByteSeqs
<1> DEFINE s == delivered[l]
           t == After(s, k, p, n)
<1>1. s \in ByteSeqs /\ IsInjective(s)
  BY DEF BytesInv, BytesOf
<1>2. delivered'[l] = t
  OBVIOUS
<1>3. /\ t \in ByteSeqs /\ Len(t) = Len(s) + n
      /\ IsInjective(t)
      /\ ToSet(t) = ToSet(s) \cup ({k} \X (p + 1 .. p + n))
      /\ Ordered(s) /\ Len(s) = 2 * (k - 1) + p
           => Ordered(t)
  <2>1. ToSet(s) \cap ({k} \X (p + 1 .. 2)) = {} /\ t = After(s, k, p, n)
    OBVIOUS
  <2> HIDE DEF s, t
  <2>5. s \in ByteSeqs /\ k \in Nat \ {0} /\ p \in Nat /\ n \in Nat /\ p + n <= 2
    BY <1>1
  <2>2. t \in ByteSeqs /\ Len(t) = Len(s) + n
    BY <1>1, <2>1, <2>5, Appended
  <2>3. IsInjective(t) /\ ToSet(t) = ToSet(s) \cup ({k} \X (p + 1 .. p + n))
    BY <1>1, <2>1, <2>5, Appended
  <2>4. Ordered(s) /\ Len(s) = 2 * (k - 1) + p
          => Ordered(t)
    BY <1>1, <2>1, <2>5, Appended
  <2> QED  BY <2>2, <2>3, <2>4
<1>4. RestSet(l)' = {k} \X (p + n + 1 .. 2)
  BY DEF RestSet, Width
<1>5. Refills(l)' <=> p + n = 2
  BY DEF Refills, Width
<1>6. /\ p + 1 .. 2 = (p + 1 .. p + n) \cup (p + n + 1 .. 2)
      /\ (p + 1 .. p + n) \cap (p + n + 1 .. 2) = {}
  OBVIOUS
<1>7. ToSet(s) \cap ({k} \X (p + 1 .. 2)) = {}
  OBVIOUS
<1>8. ToSet(s) \cup ({k} \X (p + 1 .. 2)) = (1 .. received'[l]) \X (1 .. 2)
  OBVIOUS
<1>9. l \notin mixed => /\ Ordered(s)
                        /\ k = received'[l]
                        /\ Len(s) = 2 * (k - 1) + p
  OBVIOUS
<1>10. mixed' = mixed /\ buf'[l] = k /\ pos'[l] = p + n
  OBVIOUS
<1> HIDE DEF s, t
<1>11. ToSet(t) \cap ({k} \X (p + n + 1 .. 2)) = {}
  BY <1>3, <1>6, <1>7
<1>12. ToSet(t) \cup ({k} \X (p + n + 1 .. 2)) = (1 .. received'[l]) \X (1 .. 2)
  BY <1>3, <1>6, <1>8
<1>13. ASSUME l \notin mixed
       PROVE  /\ Ordered(t)
              /\ IF p + n = 2 THEN Len(t) = 2 * received'[l]
                 ELSE k = received'[l] /\ Len(t) = 2 * (received'[l] - 1) + (p + n)
  BY <1>3, <1>9, <1>13
<1> QED
  BY <1>2, <1>3, <1>4, <1>5, <1>10, <1>11, <1>12, <1>13 DEF BytesOf, Width

\* A step keeps every byte in one place.
LEMMA BytesStep ==
  ASSUME CaptureInv, BytesInv, [Next]_vars
  PROVE  BytesInv'
<1> USE DEF counters, reader, handles
<1>0. /\ received \in [Launches -> Nat] /\ buf \in [Launches -> Nat] /\ pos \in [Launches -> Nat]
      /\ \A l \in Launches : buf[l] <= received[l]
  BY DEF CaptureInv, TypeOK
<1>1. ASSUME NEW l \in Launches, NEW n \in 1 .. Width, Read(l, n) PROVE BytesInv'
  <2> DEFINE k == Line(l)
             p == At(l)
             got == IF n < 2 - p THEN n ELSE 2 - p
  <2>1. /\ k \in Nat \ {0} /\ p \in {0, 1}
        /\ received'[l] \in Nat /\ \A m \in Launches \ {l} : received'[m] = received[m]
        /\ ToSet(delivered[l]) \cap ({k} \X (p + 1 .. 2)) = {}
        /\ ToSet(delivered[l]) \cup ({k} \X (p + 1 .. 2)) = (1 .. received'[l]) \X (1 .. 2)
        /\ l \notin mixed => /\ Ordered(delivered[l])
                             /\ k = received'[l]
                             /\ Len(delivered[l]) = 2 * (k - 1) + p
    BY <1>1, FillBytes DEF Read
  <2>2. /\ delivered' = [delivered EXCEPT ![l] = After(delivered[l], k, p, got)]
        /\ buf' = [buf EXCEPT ![l] = k] /\ pos' = [pos EXCEPT ![l] = p + got]
        /\ mixed' = mixed
    BY <1>1 DEF Read, Deliver, Width, After
  <2>3. got \in Nat /\ p + got <= 2 /\ p \in Nat
    BY <2>1 DEF Width
  <2> HIDE DEF k, p, got
  <2>4. delivered \in [Launches -> ByteSeqs]
    BY DEF BytesInv
  <2>5. delivered'[l] = After(delivered[l], k, p, got) /\ buf'[l] = k /\ pos'[l] = p + got
    BY <1>0, <2>2, <2>4
  <2>6. BytesOf(l)' /\ delivered'[l] \in ByteSeqs
    BY <2>1, <2>2, <2>3, <2>5, Delivers
  <2>7. delivered' \in [Launches -> ByteSeqs]
    BY <2>2, <2>4, <2>6
  <2> QED  BY <1>0, <2>1, <2>2, <2>4, <2>6, <2>7, BytesOfOthers
<1>2. ASSUME NEW l \in Launches, FillBuf(l) PROVE BytesInv'
  <2>1. /\ Line(l) \in Nat \ {0} /\ At(l) \in {0, 1}
        /\ \A m \in Launches \ {l} : received'[m] = received[m]
        /\ ToSet(delivered[l]) \cap ({Line(l)} \X (At(l) + 1 .. 2)) = {}
        /\ ToSet(delivered[l]) \cup ({Line(l)} \X (At(l) + 1 .. 2)) = (1 .. received'[l]) \X (1 .. 2)
        /\ l \notin mixed => /\ Ordered(delivered[l])
                             /\ Line(l) = received'[l]
                             /\ Len(delivered[l]) = 2 * (Line(l) - 1) + At(l)
    BY <1>2, FillBytes DEF FillBuf
  <2>2. buf'[l] = Line(l) /\ pos'[l] = At(l) /\ delivered' = delivered /\ mixed' = mixed
    BY <1>0, <1>2 DEF FillBuf
  <2>3. RestSet(l)' = {Line(l)} \X (At(l) + 1 .. 2) /\ ~Refills(l)'
    BY <2>1, <2>2 DEF RestSet, Refills, Width
  <2>4. delivered' \in [Launches -> ByteSeqs] /\ IsInjective(delivered[l])
    BY <2>2 DEF BytesInv, BytesOf
  <2>5. BytesOf(l)'
    BY <2>1, <2>2, <2>3, <2>4 DEF BytesOf, Width
  <2>6. \A m \in Launches \ {l} : buf'[m] = buf[m] /\ pos'[m] = pos[m]
    BY <1>0, <1>2 DEF FillBuf
  <2> QED  BY <2>1, <2>2, <2>4, <2>5, <2>6, BytesOfOthers
<1>3. ASSUME NEW l \in Launches, NEW n \in 1 .. Width, Consume(l, n) PROVE BytesInv'
  <2>1. /\ buf[l] \in Nat \ {0} /\ pos[l] \in Nat /\ n \in Nat /\ pos[l] + n <= 2
        /\ pos[l] < 2 /\ ~Refills(l)
    BY <1>0, <1>3 DEF Consume, Width, Refills
  <2>2. RestSet(l) = {buf[l]} \X (pos[l] + 1 .. 2)
    BY <2>1 DEF RestSet, Width
  <2>3. delivered \in [Launches -> ByteSeqs] /\ BytesOf(l)
    BY DEF BytesInv
  <2>4. received' = received /\ buf' = buf /\ mixed' = mixed
        /\ delivered' = [delivered EXCEPT ![l] = After(delivered[l], buf[l], pos[l], n)]
        /\ pos' = [pos EXCEPT ![l] = pos[l] + n]
    BY <1>3 DEF Consume, Deliver, After
  <2>5. /\ delivered'[l] = After(delivered[l], buf[l], pos[l], n)
        /\ buf'[l] = buf[l] /\ pos'[l] = pos[l] + n
    BY <1>0, <2>3, <2>4
  <2>6. /\ ToSet(delivered[l]) \cap ({buf[l]} \X (pos[l] + 1 .. 2)) = {}
        /\ ToSet(delivered[l]) \cup ({buf[l]} \X (pos[l] + 1 .. 2)) = (1 .. received'[l]) \X (1 .. 2)
        /\ l \notin mixed => /\ Ordered(delivered[l])
                             /\ buf[l] = received'[l]
                             /\ Len(delivered[l]) = 2 * (buf[l] - 1) + pos[l]
    BY <2>1, <2>2, <2>3, <2>4 DEF BytesOf, Width
  <2>7. BytesOf(l)' /\ delivered'[l] \in ByteSeqs
    BY <2>1, <2>4, <2>5, <2>6, Delivers
  <2>8. delivered' \in [Launches -> ByteSeqs]
    BY <2>3, <2>4, <2>7
  <2> QED  BY <1>0, <2>3, <2>4, <2>7, <2>8, BytesOfOthers
<1>4. ASSUME NEW l \in Launches, Recv(l) PROVE BytesInv'
  <2> DEFINE k == received[l] + 1
             t == After(delivered[l], k, 0, 2)
  <2>1. k \in Nat \ {0} /\ k \notin 1 .. received[l] /\ 1 .. k = 1 .. received[l] \cup {k}
        /\ buf[l] # k /\ received[l] = k - 1
    BY <1>0
  <2>2. delivered \in [Launches -> ByteSeqs] /\ BytesOf(l)
    BY DEF BytesInv
  <2>3. /\ received' = [received EXCEPT ![l] = k] /\ buf' = buf /\ pos' = pos
        /\ delivered' = [delivered EXCEPT ![l] = t]
        /\ mixed' = IF ~Refills(l) THEN mixed \cup {l} ELSE mixed
    <3>1. received' = [received EXCEPT ![l] = k] /\ buf' = buf /\ pos' = pos
      BY <1>4 DEF Recv
    <3>2. delivered' = [delivered EXCEPT ![l] = t]
      BY <1>4 DEF Recv, Deliver, Width, After
    <3>3. ~Refills(l) <=> buf[l] # 0 /\ pos[l] < Width
      BY <1>0 DEF Refills, Width
    <3> QED  BY <1>4, <3>1, <3>2, <3>3 DEF Recv
  <2>4. delivered'[l] = t /\ received'[l] = k
    BY <1>0, <2>2, <2>3
  <2>5. RestSet(l)' = RestSet(l) /\ (Refills(l)' <=> Refills(l))
    BY <2>3 DEF RestSet, Refills
  <2>6. RestSet(l) \cap ({k} \X (1 .. 2)) = {}
    BY <2>1 DEF RestSet
  <2> HIDE DEF k, t
  <2>7. ToSet(delivered[l]) \cap ({k} \X (1 .. 2)) = {}
    BY <2>1, <2>2 DEF BytesOf
  <2>8. /\ t \in ByteSeqs /\ Len(t) = Len(delivered[l]) + 2
        /\ IsInjective(t)
        /\ ToSet(t) = ToSet(delivered[l]) \cup ({k} \X (1 .. 2))
        /\ Ordered(delivered[l]) /\ Len(delivered[l]) = 2 * (k - 1) => Ordered(t)
    <3> DEFINE s == delivered[l]
    <3>1. s \in ByteSeqs /\ IsInjective(s) /\ t = After(s, k, 0, 2)
      BY <2>2 DEF BytesOf, t
    <3>2. PICK p \in Nat : p = 0
      OBVIOUS
    <3>3. p + 2 <= 2 /\ t = After(s, k, p, 2) /\ ToSet(s) \cap ({k} \X (p + 1 .. 2)) = {}
      <4>1. p + 1 .. 2 = 1 .. 2
        BY <3>2
      <4> QED  BY <2>7, <3>1, <3>2, <4>1
    <3> HIDE DEF s
    <3>4. t \in ByteSeqs /\ Len(t) = Len(s) + 2
      BY <2>1, <3>1, <3>3, Appended
    <3>5. IsInjective(t) /\ ToSet(t) = ToSet(s) \cup ({k} \X (p + 1 .. p + 2))
      BY <2>1, <3>1, <3>3, Appended
    <3>6. Ordered(s) /\ Len(s) = 2 * (k - 1) + p => Ordered(t)
      BY <2>1, <3>1, <3>3, Appended
    <3>7. p + 1 .. p + 2 = 1 .. 2 /\ 2 * (k - 1) + p = 2 * (k - 1)
      BY <2>1, <3>2
    <3> QED  BY <3>4, <3>5, <3>6, <3>7 DEF s
  <2>9. ToSet(t) \cap RestSet(l) = {}
    BY <2>2, <2>6, <2>8 DEF BytesOf
  <2>10. ToSet(t) \cup RestSet(l) = (1 .. k) \X (1 .. 2)
    <3>1. ToSet(delivered[l]) \cup RestSet(l) = (1 .. received[l]) \X (1 .. 2)
      BY <2>2 DEF BytesOf, Width
    <3> QED  BY <2>1, <2>8, <3>1
  <2>11. ASSUME l \notin mixed'
         PROVE  Refills(l) /\ Ordered(t) /\ Len(t) = 2 * k
    <3>1. Refills(l) /\ l \notin mixed
      BY <2>3, <2>11
    <3>2. Ordered(delivered[l]) /\ Len(delivered[l]) = 2 * received[l]
      BY <2>2, <3>1 DEF BytesOf, Width
    <3> QED  BY <2>1, <2>8, <3>1, <3>2
  <2>12. BytesOf(l)'
    BY <2>4, <2>5, <2>8, <2>9, <2>10, <2>11 DEF BytesOf, Width
  <2>13. delivered' \in [Launches -> ByteSeqs] /\ delivered'[l] \in ByteSeqs
    BY <2>2, <2>3, <2>8
  <2>14. \A m \in Launches \ {l} :
           /\ delivered'[m] = delivered[m] /\ received'[m] = received[m]
           /\ (m \in mixed => m \in mixed') /\ (m \in mixed' => m \in mixed)
    BY <1>0, <2>2, <2>3
  <2> QED  BY <2>3, <2>12, <2>13, <2>14, BytesOfOthers
<1>5. ASSUME NEW l \in Launches,
             SpawnStep(l) \/ DrainStep(l) \/ ReadEof(l) \/ RecvEof(l) \/ DropStream(l)
             \/ AppWrites(l) \/ AppExits(l)
      PROVE  BytesInv'
  <2>1. UNCHANGED <<delivered, buf, pos, received, mixed>>
    BY <1>5 DEF SpawnStep, CreatePipe, ClearInherit, CreateProcess, CloseWriteEnd, StartDrain, DrainStep, Drain,
                DrainEnds, ReadEof, RecvEof, DropStream, AppWrites, AppExits
  <2> QED  BY <2>1, BytesKept
<1>6. CASE UNCHANGED vars
  BY <1>6, BytesKept DEF vars
<1> QED
  BY <1>1, <1>2, <1>3, <1>4, <1>5, <1>6 DEF Next, ReaderStep

\* Nothing was received yet.
LEMMA BytesInit ==
  ASSUME Init
  PROVE  BytesInv
<1> DEFINE E == <<>>
<1>1. E \in ByteSeqs /\ IsInjective(E) /\ ToSet(E) = {} /\ Ordered(E) /\ Len(E) = 0
  BY DEF ByteSeqs, IsInjective, ToSet, Ordered
<1>2. \A l \in Launches : delivered[l] = E /\ buf[l] = 0 /\ received[l] = 0
  BY DEF Init
<1>3. delivered \in [Launches -> ByteSeqs]
  BY <1>1 DEF Init
<1>4. \A l \in Launches : RestSet(l) = {} /\ Refills(l)
  BY <1>2 DEF RestSet, Refills
<1>5. (1 .. 0) \X (1 .. 2) = {}
  OBVIOUS
<1> HIDE DEF E
<1>6. ASSUME NEW l \in Launches PROVE BytesOf(l)
  BY <1>1, <1>2, <1>4, <1>5 DEF BytesOf, Width
<1> QED
  BY <1>3, <1>6 DEF BytesInv

\* What the two invariants say together: the bytes are all there, and in order.
LEMMA BytesInvOrder ==
  ASSUME CaptureInv, BytesInv
  PROVE  BytesArriveInOrder
<1> SUFFICES ASSUME NEW l \in Piped
             PROVE  /\ IsInjective(delivered[l])
                    /\ ToSet(delivered[l]) \cup ToSet(Rest(l)) = ToSet(Stream(received[l]))
                    /\ l \notin mixed => IsPrefix(delivered[l], Stream(wrote[l]))
  BY DEF BytesArriveInOrder
<1>1. l \in Launches
  BY CaptureAssumption
<1>2. /\ received[l] \in Nat /\ wrote[l] \in Nat /\ received[l] <= wrote[l]
      /\ buf[l] \in Nat /\ buf[l] <= received[l] /\ pos[l] \in Nat /\ pos[l] <= 2
  BY <1>1 DEF CaptureInv, TypeOK, Width
<1>3. BytesOf(l) /\ delivered[l] \in Seq(Nat \X Nat)
  BY <1>1 DEF BytesInv, ByteSeqs
<1>4. ToSet(Rest(l)) = RestSet(l)
  <2>1. CASE buf[l] = 0
    BY <2>1 DEF Rest, RestSet, ToSet
  <2>2. CASE buf[l] # 0
    <3>1. 2 - pos[l] \in Nat /\ pos[l] + (2 - pos[l]) = 2
      BY <1>2
    <3> DEFINE k == buf[l]
               p == pos[l]
               n == 2 - p
    <3>2. k \in Nat /\ p \in Nat /\ n \in Nat /\ p + n = 2
      BY <1>2, <3>1
    <3>3. Rest(l) = Bytes(k, p, n) /\ RestSet(l) = {k} \X (p + 1 .. 2)
      BY <2>2 DEF Rest, RestSet, Width
    <3> HIDE DEF k, p, n
    <3>4. ToSet(Bytes(k, p, n)) = {k} \X (p + 1 .. p + n)
      BY <3>2, BytesSet
    <3> QED  BY <3>2, <3>3, <3>4
  <2> QED  BY <2>1, <2>2
<1>5. ToSet(delivered[l]) \cup ToSet(Rest(l)) = ToSet(Stream(received[l]))
  <2>1. ToSet(Stream(received[l])) = (1 .. received[l]) \X (1 .. 2)
    BY <1>2, StreamSet
  <2> QED  BY <1>3, <1>4, <2>1 DEF BytesOf, Width
<1>6. ASSUME l \notin mixed PROVE IsPrefix(delivered[l], Stream(wrote[l]))
  <2> DEFINE s == delivered[l]
             w == wrote[l]
  <2>1. Len(s) \in Nat /\ DOMAIN s = 1 .. Len(s) /\ Len(s) <= 2 * w
    <3>1. Len(s) \in Nat /\ DOMAIN s = 1 .. Len(s)
      BY <1>3
    <3>2. IF Refills(l) THEN Len(s) = 2 * received[l]
          ELSE Len(s) = 2 * (received[l] - 1) + pos[l]
      BY <1>3, <1>6 DEF BytesOf, Width
    <3> QED  BY <1>2, <3>1, <3>2
  <2>2. \A i \in 1 .. Len(s) : s[i] = ByteAt(i)
    BY <1>3, <1>6, <2>1 DEF BytesOf, Ordered
  <2>3. Len(Stream(w)) = 2 * w /\ \A i \in 1 .. 2 * w : Stream(w)[i] = ByteAt(i)
    BY <1>2, StreamSet
  <2>4. Stream(w) \in Seq(Nat \X Nat)
    BY <1>2, StreamSet
  <2>5. s \in Seq(Nat \X Nat) /\ w \in Nat
    BY <1>2, <1>3
  <2> DEFINE T == Stream(w)
  <2>6. T \in Seq(Nat \X Nat) /\ Len(T) = 2 * w /\ \A i \in 1 .. 2 * w : T[i] = ByteAt(i)
    BY <2>3, <2>4
  <2> HIDE DEF s, w, T
  <2>7. Len(s) <= Len(T) /\ \A i \in 1 .. Len(s) : s[i] = T[i]
    BY <2>1, <2>2, <2>5, <2>6
  <2>8. SubSeq(s, 1, Len(s)) = [i \in 1 .. Len(s) |-> s[i]]
      /\ SubSeq(T, 1, Len(s)) = [i \in 1 .. Len(s) |-> T[i]]
    BY <2>1, <2>5, <2>6, <2>7
  <2> QED  BY <2>7, <2>8 DEF IsPrefix, s, w, T
<1> QED
  BY <1>3, <1>5, <1>6 DEF BytesOf

\* What ChildStdout gives its reader is what the app wrote: no byte of a line that was
\* received is lost or given twice, however read, fill_buf, consume and recv are mixed,
\* and the bytes come in order while no line is asked for with another half read.
THEOREM BytesInOrder == Spec => []BytesArriveInOrder
<1>1. Init => BytesInv
  BY BytesInit
<1>2. CaptureInv /\ BytesInv /\ [Next]_vars => BytesInv'
  BY BytesStep
<1>3. CaptureInv /\ BytesInv => BytesArriveInOrder
  BY BytesInvOrder
<1> QED
  BY <1>1, <1>2, <1>3, Invariance, PTL DEF Spec
-------------------------------------------------------------------------------
\* What is left of a stream in the abstract: its end, whether its app runs, and two of its
\* counters.
LEMMA SameStreams ==
  ASSUME UNCHANGED <<app, wrote, received>>,
         \A l \in Piped : CapturedEnd(l)' = CapturedEnd(l)
  PROVE  UNCHANGED Captured!vars
BY CaptureAssumption DEF Captured!vars

\* A step of an app or of its launch changes no end.
LEMMA SameEnds ==
  ASSUME UNCHANGED <<drain, rx, eof>>
  PROVE  \A l \in Piped : CapturedEnd(l)' = CapturedEnd(l)
BY DEF CapturedEnd

\* An end is told once the drain thread has ended: the app has been created by then, and
\* nothing is left to receive.
LEMMA ToldLate ==
  ASSUME CaptureInv, NEW l \in eof
  PROVE  drain[l] = "ended" /\ received[l] = drained[l] /\ pc[l] = "done"
BY CaptureAssumption DEF CaptureInv, TypeOK, SpawnInv, DrainInv, Disconnected, Empty

\* A line that is received is the abstract receipt of the next line of an open stream.
LEMMA ReceiveStep ==
  ASSUME CaptureInv, NEW l \in rx, ~Empty(l), received' = [received EXCEPT ![l] = @ + 1],
         UNCHANGED <<app, drain, rx, eof, wrote>>
  PROVE  [Captured!Next]_(Captured!vars)
<1>1. l \in Piped /\ l \in Launches /\ l \notin eof
  BY CaptureAssumption, ToldLate DEF CaptureInv, TypeOK, Empty
<1>2. CapturedEnd(l) = "open" /\ \A m \in Piped : CapturedEnd(m)' = CapturedEnd(m)
  BY <1>1, SameEnds DEF CapturedEnd
<1>3. received[l] < wrote[l]
  <2>1. received[l] \in Nat /\ drained[l] \in Nat /\ wrote[l] \in Nat
        /\ received[l] <= drained[l] /\ drained[l] <= wrote[l]
    BY <1>1 DEF CaptureInv, TypeOK
  <2> QED
    BY <2>1 DEF Empty
<1> DEFINE got == [m \in Piped |-> received[m]]
<1>4. got' = [got EXCEPT ![l] = @ + 1]
  BY <1>1 DEF CaptureInv, TypeOK
<1>5. Captured!End({})
  BY <1>2 DEF Captured!End
<1>6. Captured!Receive(l)
  BY <1>1, <1>2, <1>3, <1>4, <1>5 DEF Captured!Receive
<1> QED
  BY <1>1, <1>6 DEF Captured!Next

\* What reads a line reads one that was there, or the one in the buffer.
LEMMA FillStep ==
  ASSUME CaptureInv, NEW l \in rx, Fill(l), UNCHANGED <<app, drain, rx, eof, wrote>>
  PROVE  [Captured!Next]_(Captured!vars)
<1>1. CASE Refills(l)
  BY <1>1, ReceiveStep DEF Fill
<1>2. CASE ~Refills(l)
  BY <1>2, SameEnds, SameStreams DEF Fill
<1> QED
  BY <1>1, <1>2

\* A reader that is told of the end has received everything, and the app is gone.
LEMMA EofStep ==
  ASSUME CaptureInv, NEW l \in rx, Disconnected(l), eof' = eof \cup {l},
         UNCHANGED <<app, drain, rx, wrote, received>>
  PROVE  [Captured!Next]_(Captured!vars)
<1>1. l \in Piped /\ l \in Launches /\ drain[l] = "ended" /\ received[l] = drained[l]
  BY CaptureAssumption DEF CaptureInv, TypeOK, Disconnected, Empty
<1>2. \A m \in Piped \ {l} : CapturedEnd(m)' = CapturedEnd(m)
  BY DEF CapturedEnd
<1>3. CASE l \in eof
  BY <1>2, <1>3, SameEnds, SameStreams
<1>4. CASE l \notin eof
  <2>1. CapturedEnd(l) = "open" /\ CapturedEnd(l)' = "ended"
    BY <1>1, <1>4 DEF CapturedEnd
  <2>2. l \notin Bad => app[l] # "running" /\ received'[l] = wrote[l]
    BY <1>1 DEF CaptureInv, DrainInv
  <2>3. Captured!End({l})
    BY <1>1, <1>2, <2>1, <2>2 DEF Captured!End
  <2>4. Captured!Finish({l})
    BY <2>3 DEF Captured!Finish
  <2> QED
    BY <1>1, <2>4 DEF Captured!Next
<1> QED
  BY <1>3, <1>4

\* Every step is a step of the abstract stream, or none.
LEMMA CaptureStep == CaptureInv /\ [Next]_vars => [Captured!Next]_(Captured!vars)
<1> SUFFICES ASSUME CaptureInv, [Next]_vars PROVE [Captured!Next]_(Captured!vars)
  OBVIOUS
<1> USE DEF counters, reader, handles
<1>1. ASSUME NEW l \in Launches, CreatePipe(l) \/ ClearInherit(l) \/ CloseWriteEnd(l)
      PROVE  [Captured!Next]_(Captured!vars)
  BY <1>1, SameEnds, SameStreams DEF CreatePipe, ClearInherit, CloseWriteEnd
<1>2. ASSUME NEW l \in Launches, CreateProcess(l) PROVE [Captured!Next]_(Captured!vars)
  <2>1. UNCHANGED <<drain, rx, eof, wrote, received>> /\ pc[l] = "create"
    BY <1>2 DEF CreateProcess
  <2>2. \A m \in Piped : CapturedEnd(m)' = CapturedEnd(m)
    BY <2>1, SameEnds
  <2>3. CASE UNCHANGED app
    BY <2>1, <2>2, <2>3, SameStreams
  <2>4. CASE app' = [app EXCEPT ![l] = "running"]
    <3> DEFINE S == {l} \cap Piped
    <3>1. l \notin eof
      BY <2>1, ToldLate
    <3>2. \A m \in S : CapturedEnd(m) # "ended"
      BY <3>1 DEF CapturedEnd
    <3>3. {m \in Piped : app'[m] = "running"} = {m \in Piped : app[m] = "running"} \cup S
      BY <2>4, CaptureAssumption DEF CaptureInv, TypeOK
    <3>4. S \in SUBSET Piped
      OBVIOUS
    <3> HIDE DEF S
    <3>5. Captured!AppStarts(S)
      BY <2>1, <2>2, <3>2, <3>3, CaptureAssumption DEF Captured!AppStarts
    <3> QED
      BY <3>4, <3>5 DEF Captured!Next
  <2> QED
    BY <1>2, <2>3, <2>4 DEF CreateProcess
<1>3. ASSUME NEW l \in Launches, StartDrain(l) PROVE [Captured!Next]_(Captured!vars)
  <2>1. drain[l] = "none" /\ l \notin eof
    BY <1>3, ToldLate DEF StartDrain, CaptureInv, SpawnInv, TypeOK
  <2>2. drain' = [drain EXCEPT ![l] = "running"] /\ rx' = rx \cup {l}
        /\ UNCHANGED <<app, wrote, received, eof>>
    BY <1>3 DEF StartDrain
  <2>3. \A m \in Piped : CapturedEnd(m)' = CapturedEnd(m)
    BY <2>1, <2>2, CaptureAssumption DEF CapturedEnd, CaptureInv, TypeOK
  <2> QED
    BY <2>2, <2>3, SameStreams
<1>4. ASSUME NEW l \in Launches, DrainStep(l) PROVE [Captured!Next]_(Captured!vars)
  <2>1. UNCHANGED <<app, rx, wrote, received, eof>> /\ drain[l] = "running"
        /\ (UNCHANGED drain \/ drain' = [drain EXCEPT ![l] = "ended"])
    BY <1>4 DEF DrainStep, Drain, DrainEnds
  <2>2. \A m \in Piped : CapturedEnd(m)' = CapturedEnd(m)
    BY <2>1, CaptureAssumption DEF CapturedEnd, CaptureInv, TypeOK
  <2> QED
    BY <2>1, <2>2, SameStreams
<1>5. ASSUME NEW l \in Launches, NEW n \in 1 .. Width, Read(l, n)
      PROVE  [Captured!Next]_(Captured!vars)
  BY <1>5, FillStep DEF Read
<1>6. ASSUME NEW l \in Launches, FillBuf(l) PROVE [Captured!Next]_(Captured!vars)
  BY <1>6, FillStep DEF FillBuf
<1>7. ASSUME NEW l \in Launches, Recv(l) PROVE [Captured!Next]_(Captured!vars)
  BY <1>7, ReceiveStep DEF Recv
<1>8. ASSUME NEW l \in Launches, NEW n \in 1 .. Width, Consume(l, n)
      PROVE  [Captured!Next]_(Captured!vars)
  BY <1>8, SameEnds, SameStreams DEF Consume
<1>9. ASSUME NEW l \in Launches, ReadEof(l) \/ RecvEof(l) PROVE [Captured!Next]_(Captured!vars)
  BY <1>9, EofStep DEF ReadEof, RecvEof
<1>10. ASSUME NEW l \in Launches, DropStream(l) PROVE [Captured!Next]_(Captured!vars)
  <2>1. /\ l \in Piped /\ rx' = rx \ {l} /\ UNCHANGED <<app, drain, wrote, received, eof>>
    BY <1>10 DEF DropStream, CaptureInv, TypeOK
  <2>2. \A m \in Piped \ {l} : CapturedEnd(m)' = CapturedEnd(m)
    BY <2>1 DEF CapturedEnd
  <2>3. CASE drain[l] = "none"
    <3>1. CapturedEnd(l)' = CapturedEnd(l)
      BY <2>1, <2>3 DEF CapturedEnd
    <3> QED
      BY <2>1, <2>2, <3>1, SameStreams
  <2>4. CASE drain[l] # "none"
    <3>1. CapturedEnd(l)' = "gone"
      BY <2>1, <2>4 DEF CapturedEnd
    <3>2. Captured!Leave({l})
      BY <2>1, <2>2, <3>1 DEF Captured!Leave
    <3> QED
      BY <2>1, <3>2 DEF Captured!Next
  <2> QED
    BY <2>3, <2>4
<1>11. ASSUME NEW l \in Launches, AppWrites(l) PROVE [Captured!Next]_(Captured!vars)
  <2>1. l \in Piped /\ app[l] = "running" /\ wrote' = [wrote EXCEPT ![l] = @ + 1]
        /\ UNCHANGED <<app, drain, rx, received, eof>>
    BY <1>11 DEF AppWrites, CaptureInv, TypeOK
  <2>2. \A m \in Piped : CapturedEnd(m)' = CapturedEnd(m)
    BY <2>1, SameEnds
  <2> DEFINE sent == [m \in Piped |-> wrote[m]]
  <2>3. sent' = [sent EXCEPT ![l] = @ + 1]
    BY <2>1, CaptureAssumption DEF CaptureInv, TypeOK
  <2>4. Captured!Write(l)
    BY <2>1, <2>2, <2>3 DEF Captured!Write
  <2> QED
    BY <2>1, <2>4 DEF Captured!Next
<1>12. ASSUME NEW l \in Launches, AppExits(l) PROVE [Captured!Next]_(Captured!vars)
  <2>1. app' = [app EXCEPT ![l] = "exited"] /\ UNCHANGED <<drain, rx, wrote, received, eof>>
    BY <1>12 DEF AppExits
  <2>2. \A m \in Piped : CapturedEnd(m)' = CapturedEnd(m)
    BY <2>1, SameEnds
  <2> DEFINE S == {l} \cap Piped
  <2>3. {m \in Piped : app'[m] = "running"} = {m \in Piped : app[m] = "running"} \ S
    BY <2>1, CaptureAssumption DEF CaptureInv, TypeOK
  <2>4. S \in SUBSET Piped
    OBVIOUS
  <2> HIDE DEF S
  <2>5. Captured!AppExits(S)
    BY <2>1, <2>2, <2>3, CaptureAssumption DEF Captured!AppExits
  <2> QED
    BY <2>4, <2>5 DEF Captured!Next
<1>13. CASE UNCHANGED vars
  BY <1>13, SameEnds, SameStreams DEF vars
<1> QED
  BY <1>1, <1>2, <1>3, <1>4, <1>5, <1>6, <1>7, <1>8, <1>9, <1>10, <1>11, <1>12, <1>13
     DEF Next, SpawnStep, ReaderStep

\* The pipe, the drain thread, the channel and the calls of a ChildStdout implement what
\* CapturedOutput promises: every line is received once and in order, and a stream without
\* a line that is not UTF-8 ends for its reader when the app is gone and the last line
\* was received.
THEOREM Refinement == Spec => ImplementsCapturedOutput
<1>1. Init => Captured!Init
  <2> SUFFICES ASSUME Init PROVE Captured!Init
    OBVIOUS
  <2>1. \A l \in Piped : /\ CapturedEnd(l) = "open"
                         /\ app[l] = "none" /\ wrote[l] = 0 /\ received[l] = 0
    BY CaptureAssumption DEF Init, CapturedEnd
  <2> QED
    BY <2>1 DEF Captured!Init
<1>2. CaptureInv /\ [Next]_vars => [Captured!Next]_(Captured!vars)
  BY CaptureStep
<1> QED
  BY <1>1, <1>2, Invariance, PTL DEF Spec, ImplementsCapturedOutput, Captured!Spec
===============================================================================

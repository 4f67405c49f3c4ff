------------------------- MODULE KeystrokeWindowsProofs -------------------------
(***************************************************************************)
(* Proofs about KeystrokeWindows, for any number of keystrokes and of      *)
(* calls of focus, any chords and any people.  The lock is the section     *)
(* (LockInv); so at most one chord is in the queue, what the system holds  *)
(* is what its delivered part leaves down (ChordInv), and only outsiders   *)
(* take the foreground from it (FrontInv).                                 *)
(***************************************************************************)
EXTENDS KeystrokeWindows, TLAPS

Events == (STRING \cup {Key}) \X {"down", "up"}

LEMMA CatAt ==
  ASSUME NEW S, NEW a \in Seq(S), NEW b \in Seq(S)
  PROVE  /\ a \o b \in Seq(S) /\ Len(a \o b) = Len(a) + Len(b)
         /\ Len(a) \in Nat /\ Len(b) \in Nat
         /\ \A i \in 1 .. Len(a) : (a \o b)[i] = a[i]
         /\ \A i \in 1 .. Len(b) : (a \o b)[Len(a) + i] = b[i]
OBVIOUS

LEMMA FunIsSeq ==
  ASSUME NEW S, NEW m \in Nat, NEW f \in [1 .. m -> S]
  PROVE  f \in Seq(S) /\ Len(f) = m
OBVIOUS

\* The parts of a chord, by position.
LEMMA ChordAt ==
  ASSUME NEW t \in Senders, NEW m, m = Len(Mods[t])
  PROVE  /\ m \in Nat /\ DOMAIN Mods[t] = 1 .. m
         /\ Chord(t) \in Seq(Events) /\ Len(Chord(t)) = 2 * m + 2
         /\ \A i \in 1 .. m : Chord(t)[i] = <<Mods[t][i], "down">>
         /\ Chord(t)[m + 1] = <<Key, "down">> /\ Chord(t)[m + 2] = <<Key, "up">>
         /\ \A i \in 1 .. m : Chord(t)[m + 2 + i] = <<Mods[t][m + 1 - i], "up">>
<1> DEFINE A == [i \in DOMAIN Mods[t] |-> <<Mods[t][i], "down">>]
           K == <<<<Key, "down">>, <<Key, "up">>>>
           B == [i \in DOMAIN Mods[t] |-> <<Reverse(Mods[t])[i], "up">>]
<1>1. /\ m \in Nat /\ DOMAIN Mods[t] = 1 .. m
      /\ \A i \in 1 .. m : Mods[t][i] \in STRING
  BY KeystrokeAssumption
<1>2. A \in Seq(Events) /\ Len(A) = m /\ \A i \in 1 .. m : A[i] = <<Mods[t][i], "down">>
  BY <1>1 DEF Events
<1>3. K \in Seq(Events) /\ Len(K) = 2 /\ K[1] = <<Key, "down">> /\ K[2] = <<Key, "up">>
  BY DEF Events
<1>4. \A i \in 1 .. m : m + 1 - i \in 1 .. m /\ Reverse(Mods[t])[i] = Mods[t][m + 1 - i]
  <2>1. \A i \in 1 .. m : m + 1 - i \in 1 .. m /\ (m - i) + 1 = m + 1 - i
    BY <1>1
  <2> QED  BY <1>1, <2>1 DEF Reverse
<1>5. B \in Seq(Events) /\ Len(B) = m /\ \A i \in 1 .. m : B[i] = <<Mods[t][m + 1 - i], "up">>
  <2>1. \A i \in 1 .. m : Mods[t][m + 1 - i] \in STRING
    BY <1>1, <1>4
  <2>2. B = [i \in 1 .. m |-> <<Mods[t][m + 1 - i], "up">>]
    BY <1>1, <1>4
  <2>3. B \in [1 .. m -> Events]
    BY <2>1, <2>2 DEF Events
  <2>4. \A i \in 1 .. m : B[i] = <<Mods[t][m + 1 - i], "up">>
    BY <2>2
  <2> HIDE DEF B
  <2> QED  BY <1>1, <2>3, <2>4, FunIsSeq
<1>6. Chord(t) = A \o K \o B
  BY DEF Chord
<1> HIDE DEF A, K, B
<1>7. /\ A \o K \in Seq(Events) /\ Len(A \o K) = m + 2
      /\ \A i \in 1 .. m : (A \o K)[i] = A[i]
      /\ (A \o K)[m + 1] = K[1] /\ (A \o K)[m + 2] = K[2]
  <2>1. A \in Seq(Events) /\ K \in Seq(Events) /\ Len(A) = m /\ Len(K) = 2
    BY <1>2, <1>3
  <2>2. /\ A \o K \in Seq(Events) /\ Len(A \o K) = Len(A) + Len(K)
        /\ \A i \in 1 .. Len(A) : (A \o K)[i] = A[i]
        /\ \A i \in 1 .. Len(K) : (A \o K)[Len(A) + i] = K[i]
    BY <2>1, CatAt
  <2>3. (A \o K)[m + 1] = K[1] /\ (A \o K)[m + 2] = K[2]
    BY <2>1, <2>2
  <2> QED  BY <2>1, <2>2, <2>3
<1> DEFINE C == A \o K
<1>8. /\ C \o B \in Seq(Events) /\ Len(C \o B) = 2 * m + 2
      /\ \A i \in 1 .. m + 2 : (C \o B)[i] = C[i]
      /\ \A i \in 1 .. m : (C \o B)[m + 2 + i] = B[i]
  <2>1. C \in Seq(Events) /\ Len(C) = m + 2
    BY <1>7
  <2>4. B \in Seq(Events)
    BY <1>5
  <2> HIDE DEF C
  <2>2. m + 2 + m = 2 * m + 2
    BY <1>1
  <2>3. /\ C \o B \in Seq(Events) /\ Len(C \o B) = Len(C) + Len(B)
        /\ \A i \in 1 .. Len(C) : (C \o B)[i] = C[i]
        /\ \A i \in 1 .. Len(B) : (C \o B)[Len(C) + i] = B[i]
    BY <2>1, <2>4
  <2> QED  BY <1>1, <1>5, <2>1, <2>2, <2>3
<1>9. Chord(t) = C \o B
  BY <1>6
<1>10. \A i \in 1 .. m : i \in 1 .. m + 2 /\ m + 1 \in 1 .. m + 2 /\ m + 2 \in 1 .. m + 2
  BY <1>1
<1> HIDE DEF C
<1>11. \A i \in 1 .. m : Chord(t)[i] = <<Mods[t][i], "down">>
  <2> SUFFICES ASSUME NEW i \in 1 .. m PROVE Chord(t)[i] = <<Mods[t][i], "down">>
    OBVIOUS
  <2>1. C[i] = A[i]
    BY <1>7 DEF C
  <2> QED  BY <1>2, <1>8, <1>9, <1>10, <2>1
<1>12. Chord(t)[m + 1] = <<Key, "down">> /\ Chord(t)[m + 2] = <<Key, "up">>
  <2>1. C[m + 1] = K[1] /\ C[m + 2] = K[2]
    BY <1>7 DEF C
  <2>2. m + 1 \in 1 .. m + 2 /\ m + 2 \in 1 .. m + 2
    BY <1>1
  <2> QED  BY <1>3, <1>8, <1>9, <2>1, <2>2
<1>13. \A i \in 1 .. m : Chord(t)[m + 2 + i] = <<Mods[t][m + 1 - i], "up">>
  BY <1>5, <1>8, <1>9
<1> QED
  BY <1>1, <1>8, <1>9, <1>11, <1>12, <1>13

\* The event that is delivered n-th, and what the system holds before and after it.
LEMMA HeldStep ==
  ASSUME NEW t \in Senders, NEW n \in Nat, n < Len(Chord(t)),
         NEW k, NEW way, Chord(t)[n + 1] = <<k, way>>
  PROVE  /\ k = Key => HeldAfter(t, n) = ToSet(Mods[t]) /\ HeldAfter(t, n + 1) = HeldAfter(t, n)
         /\ k # Key /\ way = "down" => HeldAfter(t, n + 1) = HeldAfter(t, n) \cup {k}
         /\ k # Key /\ way # "down" => HeldAfter(t, n + 1) = HeldAfter(t, n) \ {k}
<1> DEFINE m == Len(Mods[t])
           M == Mods[t]
<1>1. /\ m \in Nat /\ DOMAIN M = 1 .. m /\ Len(Chord(t)) = 2 * m + 2
      /\ \A i \in 1 .. m : Chord(t)[i] = <<M[i], "down">>
      /\ Chord(t)[m + 1] = <<Key, "down">> /\ Chord(t)[m + 2] = <<Key, "up">>
      /\ \A i \in 1 .. m : Chord(t)[m + 2 + i] = <<M[m + 1 - i], "up">>
  BY ChordAt
<1>2. /\ \A i, j \in 1 .. m : M[i] = M[j] => i = j
      /\ \A i \in 1 .. m : M[i] # Key
      /\ ToSet(M) = {M[i] : i \in 1 .. m}
  <2>1. IsInjective(M) /\ Key \notin ToSet(M)
    BY KeystrokeAssumption
  <2>2. ToSet(M) = {M[i] : i \in 1 .. m}
    BY <1>1 DEF ToSet
  <2> HIDE DEF M, m
  <2>3. \A i, j \in 1 .. m : M[i] = M[j] => i = j
    BY <1>1, <2>1 DEF IsInjective
  <2> QED  BY <2>1, <2>2, <2>3
<1>3. \A l \in Nat : HeldAfter(t, l) = {M[i] : i \in {j \in 1 .. m : j <= l /\ l < 2 * m + 3 - j}}
  BY <1>1 DEF HeldAfter
<1> DEFINE Down(l) == {j \in 1 .. m : j <= l /\ l < 2 * m + 3 - j}
<1> HIDE DEF m, M
<1>0. m \in Nat
  BY <1>1
<1>4. CASE n + 1 \in 1 .. m
  <2>1. k = M[n + 1] /\ way = "down" /\ k # Key
    BY <1>1, <1>2, <1>4
  <2>2. Down(n + 1) = Down(n) \cup {n + 1}
    BY <1>1, <1>4
  <2>3. HeldAfter(t, n) = {M[i] : i \in Down(n)} /\ HeldAfter(t, n + 1) = {M[i] : i \in Down(n + 1)}
    BY <1>3
  <2> HIDE DEF Down
  <2> QED  BY <2>1, <2>2, <2>3
<1>5. CASE n \in {m, m + 1}
  <2>1. k = Key
    BY <1>1, <1>5
  <2>2. Down(n) = 1 .. m /\ Down(n + 1) = 1 .. m
    BY <1>0, <1>5
  <2>3. HeldAfter(t, n) = {M[i] : i \in Down(n)} /\ HeldAfter(t, n + 1) = {M[i] : i \in Down(n + 1)}
    BY <1>3
  <2> HIDE DEF Down
  <2> QED  BY <1>2, <2>1, <2>2, <2>3 DEF M
<1>6. CASE n \in m + 2 .. 2 * m + 1
  <2> DEFINE r == 2 * m + 2 - n
  <2>1. r \in 1 .. m /\ n - m - 1 \in 1 .. m /\ m + 2 + (n - m - 1) = n + 1 /\ m + 1 - (n - m - 1) = r
    BY <1>0, <1>6
  <2>2. k = M[r] /\ way = "up" /\ k # Key
    <3>1. Chord(t)[m + 2 + (n - m - 1)] = <<M[m + 1 - (n - m - 1)], "up">>
      BY <1>1, <2>1
    <3> QED  BY <1>2, <2>1, <3>1
  <2>3. Down(n + 1) = Down(n) \ {r} /\ Down(n) \subseteq 1 .. m
    BY <1>1, <1>6
  <2>4. HeldAfter(t, n) = {M[i] : i \in Down(n)} /\ HeldAfter(t, n + 1) = {M[i] : i \in Down(n + 1)}
    BY <1>3
  <2> HIDE DEF Down, r
  <2> QED  BY <1>2, <2>1, <2>2, <2>3, <2>4
<1>7. n + 1 \in 1 .. m \/ n \in {m, m + 1} \/ n \in m + 2 .. 2 * m + 1
  BY <1>1
<1> QED
  BY <1>4, <1>5, <1>6, <1>7

\* Nothing is held before a chord and nothing after it.
LEMMA HeldEnds ==
  ASSUME NEW t \in Senders
  PROVE  HeldAfter(t, 0) = {} /\ HeldAfter(t, Len(Chord(t))) = {} /\ Len(Chord(t)) \in Nat \ {0}
<1> DEFINE m == Len(Mods[t])
<1>1. m \in Nat /\ DOMAIN Mods[t] = 1 .. m /\ Len(Chord(t)) = 2 * m + 2
  BY ChordAt
<1>2. \A l \in Nat : HeldAfter(t, l) = {Mods[t][i] : i \in {j \in 1 .. m : j <= l /\ l < 2 * m + 3 - j}}
  BY <1>1 DEF HeldAfter
<1> HIDE DEF m
<1>3. /\ {j \in 1 .. m : j <= 0 /\ 0 < 2 * m + 3 - j} = {}
      /\ {j \in 1 .. m : j <= 2 * m + 2 /\ 2 * m + 2 < 2 * m + 3 - j} = {}
      /\ 2 * m + 2 \in Nat \ {0}
  BY <1>1
<1> QED
  BY <1>1, <1>2, <1>3
-------------------------------------------------------------------------------
\* A sender in its section is the only one, and until it types the queue is empty.
LEMMA Alone ==
  ASSUME TypeOK, LockInv, ChordInv, NEW t \in Senders, pc[t] \in Section
  PROVE  /\ lock = t /\ lock # Nobody
         /\ \A u \in Senders \ {t} : pc[u] \notin Section
         /\ pc[t] \notin {"type", "hold"} => Typing = {} /\ raw = <<>> /\ held = {}
         /\ pc[t] \in {"type", "hold"} => Typing = {t}
<1>1. lock = t /\ \A u \in Senders \ {t} : pc[u] \notin Section
  BY DEF LockInv
<1>2. pc[t] \notin {"type", "hold"} => Typing = {}
  BY <1>1 DEF Typing, Section
<1>3. pc[t] \in {"type", "hold"} => Typing = {t}
  BY <1>1 DEF Typing, Section
<1> QED
  BY <1>1, <1>2, <1>3, KeystrokeAssumption DEF ChordInv, Calls

\* Who can be where: a focus() call is never in the part that types.
LEMMA SenderSteps ==
  ASSUME TypeOK, LockInv, NEW t \in Calls
  PROVE  pc[t] \in {"lock", "remember", "type", "hold", "handback"} => t \in Senders
BY DEF LockInv, Calls, Returned

LEMMA LockStep ==
  ASSUME TypeOK, LockInv, [Next]_vars
  PROVE  LockInv'
<1> USE KeystrokeAssumption DEF LockInv, Section, Returned, Calls, TypeOK, Goto, locals, theft, delivery
<1>1. ASSUME NEW t \in Calls, Call(t) PROVE LockInv'
  BY <1>1 DEF Call
<1>2. ASSUME NEW t \in Calls, Acquire(t) PROVE LockInv'
  BY <1>2 DEF Acquire
<1>3. ASSUME NEW t \in Calls, Remember(t) PROVE LockInv'
  BY <1>3 DEF Remember
<1>4. ASSUME NEW t \in Calls, TakeFront(t) PROVE LockInv'
  BY <1>4 DEF TakeFront
<1>5. ASSUME NEW t \in Calls, Check(t) PROVE LockInv'
  <2>1. ASSUME NEW how \in Returned, Return(t, how), pc[t] = "check" PROVE LockInv'
    BY <2>1 DEF Return, Unlock
  <2>2. ASSUME pc[t] = "check", lock' = lock, NEW there \in {"type", "force"}, Goto(t, there),
               t \in Senders \/ there = "force"
        PROVE  LockInv'
    BY <2>2
  <2>3. "done" \in Returned /\ "failed" \in Returned
    OBVIOUS
  <2> HIDE DEF LockInv, Returned, Goto
  <2> QED  BY <1>5, <2>1, <2>2, <2>3 DEF Check
<1>6. ASSUME NEW t \in Calls, Type(t) PROVE LockInv'
  BY <1>6 DEF Type
<1>7. ASSUME NEW t \in Calls, Hold(t) PROVE LockInv'
  BY <1>7 DEF Hold
<1>8. ASSUME NEW t \in Calls, HandBack(t) PROVE LockInv'
  BY <1>8 DEF HandBack, Return, Unlock
<1>9. CASE RawInput \/ (\E w \in Windows \cup {NoWindow} : HumanSwitches(w)) \/ UNCHANGED vars
  BY <1>9 DEF RawInput, HumanSwitches, vars
<1> QED
  BY <1>1, <1>2, <1>3, <1>4, <1>5, <1>6, <1>7, <1>8, <1>9 DEF Next, Step

LEMMA TypeStep ==
  ASSUME TypeOK, LockInv, ChordInv, [Next]_vars
  PROVE  TypeOK'
<1> USE DEF TypeOK, Returned, Goto, locals, theft, delivery
<1>1. ASSUME NEW t \in Calls, Call(t) PROVE TypeOK'
  BY <1>1 DEF Call
<1>2. ASSUME NEW t \in Calls, Acquire(t) PROVE TypeOK'
  <2>1. t \in Senders /\ Typing = {}
    BY <1>2, SenderSteps, KeystrokeAssumption DEF Acquire, LockInv, Typing, Section, Calls
  <2>2. raw = <<>>
    BY <2>1 DEF ChordInv
  <2> QED  BY <1>2, <2>1, <2>2 DEF Acquire
<1>3. ASSUME NEW t \in Calls, Remember(t) PROVE TypeOK'
  BY <1>3 DEF Remember
<1>4. ASSUME NEW t \in Calls, TakeFront(t) PROVE TypeOK'
  <2>1. Target[t] \in Windows
    BY KeystrokeAssumption DEF Windows
  <2>2. stolen' \subseteq Senders /\ outsiders' \in BOOLEAN
    BY <1>4 DEF TakeFront, Steals, Typing
  <2> QED  BY <1>4, <2>1, <2>2 DEF TakeFront, ForceForeground
<1>5. ASSUME NEW t \in Calls, NEW how \in Returned, Return(t, how), UNCHANGED raw,
             pc[t] \in {"check", "handback"}
      PROVE  /\ lock' \in Senders \cup {Nobody}
             /\ pc' \in [Calls -> {"idle", "lock", "remember", "force", "check", "type", "hold",
                                   "handback"} \cup Returned]
             /\ prev' \in [Calls -> Windows \cup {NoWindow}]
             /\ tries' \in [Calls -> 0 .. MaxTries]
             /\ typed' \in [Calls -> Nat]
             /\ \A u \in Senders : typed'[u] <= Len(Chord(u))
             /\ \A i \in DOMAIN raw' : raw'[i][1] = lock'
  <2>1. \A u \in Senders : Len(Chord(u)) \in Nat
    BY HeldEnds
  <2>2. \A i \in DOMAIN raw' : raw'[i][1] = lock'
    <3>1. CASE t \in Senders
      <4>1. raw = <<>>
        BY <1>5, <3>1, Alone DEF Section
      <4> QED  BY <1>5, <4>1
    <3>2. CASE t \notin Senders
      <4>1. lock' = lock
        BY <1>5, <3>2, KeystrokeAssumption DEF Return, Unlock, Calls
      <4> QED  BY <1>5, <4>1
    <3> QED  BY <3>1, <3>2
  <2>3. \A u \in Senders : typed'[u] <= Len(Chord(u))
    BY <1>5, <2>1 DEF Return, Calls
  <2>4. tries' \in [Calls -> 0 .. MaxTries] /\ typed' \in [Calls -> Nat]
    BY <1>5, KeystrokeAssumption DEF Return
  <2> QED  BY <1>5, <2>2, <2>3, <2>4 DEF Return, Unlock
<1>6. ASSUME NEW t \in Calls, Check(t) PROVE TypeOK'
  <2>1. CASE Return(t, "done") \/ Return(t, "failed")
    <3>1. "done" \in Returned /\ "failed" \in Returned /\ pc[t] \in {"check", "handback"} /\ UNCHANGED raw
      BY <1>6 DEF Check
    <3> QED  BY <1>5, <1>6, <2>1, <3>1 DEF Check
  <2>2. CASE ~(Return(t, "done") \/ Return(t, "failed"))
    <3>1. UNCHANGED <<foreground, raw, delivery, theft, refused, lock, prev, typed>>
      BY <1>6, <2>2 DEF Check
    <3>2. pc' \in [Calls -> {"idle", "lock", "remember", "force", "check", "type", "hold",
                             "handback"} \cup Returned]
      BY <1>6, <2>2 DEF Check
    <3>3. \/ tries' = tries
          \/ tries[t] < MaxTries /\ tries' = [tries EXCEPT ![t] = @ + 1]
      BY <1>6, <2>2 DEF Check
    <3>4. tries' \in [Calls -> 0 .. MaxTries]
      <4>1. tries \in [Calls -> 0 .. MaxTries] /\ MaxTries \in Nat /\ tries[t] \in 0 .. MaxTries
        BY KeystrokeAssumption
      <4> HIDE DEF TypeOK
      <4>2. tries[t] < MaxTries => tries[t] + 1 \in 0 .. MaxTries
        BY <4>1
      <4> QED  BY <3>3, <4>1, <4>2
    <3> QED  BY <3>1, <3>2, <3>4
  <2> QED  BY <2>1, <2>2
<1>7. ASSUME NEW t \in Calls, Type(t) PROVE TypeOK'
  <2>1. t \in Senders /\ pc[t] = "type"
    BY <1>7, SenderSteps DEF Type
  <2>2. lock = t /\ typed[t] < Len(Chord(t)) /\ typed'[t] = typed[t] + 1 /\ Len(Chord(t)) \in Nat
    BY <1>7, <2>1, Alone, HeldEnds DEF Type, ChordInv, Typing, Section
  <2>3. raw \in Seq(Senders \X Events) /\ raw' = Append(raw, <<t, Chord(t)[typed'[t]]>>)
    BY <1>7 DEF Type, ChordInv, Events
  <2>4. \A i \in DOMAIN raw' : raw'[i][1] = lock'
    <3>1. /\ \A i \in DOMAIN raw : raw'[i] = raw[i]
          /\ raw'[Len(raw) + 1] = <<t, Chord(t)[typed'[t]]>>
          /\ DOMAIN raw' = DOMAIN raw \cup {Len(raw) + 1}
      BY <2>3
    <3>2. lock' = t
      BY <1>7, <2>2 DEF Type
    <3> QED  BY <2>2, <3>1, <3>2
  <2>5. typed' \in [Calls -> Nat] /\ \A u \in Senders : typed'[u] <= Len(Chord(u))
    BY <1>7, <2>1, <2>2 DEF Type, Calls
  <2> QED  BY <1>7, <2>4, <2>5 DEF Type
<1>8. ASSUME NEW t \in Calls, Hold(t) PROVE TypeOK'
  BY <1>8 DEF Hold
<1>9. ASSUME NEW t \in Calls, HandBack(t) PROVE TypeOK'
  <2>1. Return(t, "done") /\ UNCHANGED raw /\ pc[t] \in {"check", "handback"} /\ "done" \in Returned
    BY <1>9 DEF HandBack
  <2>2. foreground' \in Windows \cup {NoWindow} /\ refused' \subseteq Windows \cup {NoWindow}
    BY <1>9 DEF HandBack, ForceForeground
  <2> QED  BY <1>5, <1>9, <2>1, <2>2 DEF HandBack
<1>10. CASE RawInput
  <2>1. raw \in Seq(Senders \X Events) /\ raw # <<>> /\ raw' = Tail(raw) /\ lock' = lock
    BY <1>10 DEF RawInput, ChordInv, Events
  <2>2. \A i \in DOMAIN raw' : i + 1 \in DOMAIN raw /\ raw'[i] = raw[i + 1]
    BY <2>1
  <2>3. Head(raw)[1] \in Senders
    BY <2>1
  <2>4. stray' \subseteq Senders /\ bare' \subseteq Senders
    BY <1>10, <2>3 DEF RawInput
  <2> QED  BY <1>10, <2>1, <2>2, <2>4 DEF RawInput
<1>11. ASSUME NEW w \in Windows \cup {NoWindow}, HumanSwitches(w) PROVE TypeOK'
  BY <1>11 DEF HumanSwitches, Steals, Typing
<1>12. CASE UNCHANGED vars
  BY <1>12 DEF vars
<1> QED
  BY <1>1, <1>2, <1>3, <1>4, <1>6, <1>7, <1>8, <1>9, <1>10, <1>11, <1>12 DEF Next, Step
-------------------------------------------------------------------------------
\* The chord of the one that types, across each kind of step.
LEMMA ChordKept ==
  ASSUME TypeOK, ChordInv, UNCHANGED <<raw, held, bare>>, Typing' = Typing,
         \A t \in Senders : typed'[t] = typed[t] \/ (typed'[t] = 0 /\ t \notin Typing),
         \A t \in Typing : pc'[t] = pc[t],
         \A t \in Senders : pc'[t] # "handback" /\ pc[t] = "handback" => typed'[t] = 0
  PROVE  ChordInv'
<1>1. \A t \in Typing : t \in Senders /\ typed'[t] = typed[t]
  BY DEF Typing
<1>2. \A t \in Typing : Delivered(t)' = Delivered(t)
  BY <1>1 DEF Delivered
<1>3. ASSUME NEW t \in Typing'
      PROVE  /\ Len(raw') <= typed'[t]
             /\ \A i \in DOMAIN raw' : raw'[i] = <<t, Chord(t)[Delivered(t)' + i]>>
             /\ held' = HeldAfter(t, Delivered(t)')
             /\ IF pc'[t] = "type" THEN typed'[t] < Len(Chord(t)) ELSE typed'[t] = Len(Chord(t))
  BY <1>1, <1>2, <1>3 DEF ChordInv
<1>4. \A t \in Senders \ Typing' : pc'[t] # "handback" => typed'[t] = 0
  BY DEF ChordInv
<1> QED
  BY <1>3, <1>4 DEF ChordInv

LEMMA ChordStep ==
  ASSUME TypeOK, LockInv, ChordInv, [Next]_vars
  PROVE  ChordInv'
<1> USE DEF locals, theft, delivery
<1>0. pc \in [Calls -> {"idle", "lock", "remember", "force", "check", "type", "hold", "handback"}
                         \cup Returned] /\ typed \in [Calls -> Nat]
  BY DEF TypeOK
<1>1. ASSUME NEW t \in Calls, NEW there, Goto(t, there), UNCHANGED <<raw, held, bare, typed>>,
             pc[t] \notin {"type", "hold", "handback"}, there \notin {"type", "hold"}
      PROVE  ChordInv'
  <2>1. pc'[t] = there /\ \A u \in Calls \ {t} : pc'[u] = pc[u]
    BY <1>0, <1>1 DEF Goto
  <2>2. Typing' = Typing /\ t \notin Typing
    BY <1>1, <2>1 DEF Typing, Calls
  <2>3. \A u \in Typing : pc'[u] = pc[u]
    BY <2>1, <2>2 DEF Typing, Calls
  <2>4. \A u \in Senders : pc'[u] # "handback" /\ pc[u] = "handback" => typed'[u] = 0
    BY <1>1, <2>1 DEF Calls
  <2> QED  BY <1>1, <2>2, <2>3, <2>4, ChordKept
<1>2. ASSUME NEW t \in Calls, NEW how \in Returned, Return(t, how), UNCHANGED <<raw, held, bare>>,
             pc[t] \in {"check", "handback"}
      PROVE  ChordInv'
  <2>1. pc'[t] = how /\ \A u \in Calls \ {t} : pc'[u] = pc[u]
    BY <1>0, <1>2 DEF Return, Goto
  <2>2. Typing' = Typing /\ t \notin Typing
    BY <1>2, <2>1 DEF Typing, Calls, Returned
  <2>3. \A u \in Typing : pc'[u] = pc[u]
    BY <2>1, <2>2 DEF Typing, Calls
  <2>4. typed'[t] = 0 /\ \A u \in Calls \ {t} : typed'[u] = typed[u]
    BY <1>0, <1>2 DEF Return
  <2>5. \A u \in Senders : typed'[u] = typed[u] \/ (typed'[u] = 0 /\ u \notin Typing)
    BY <2>2, <2>4 DEF Calls
  <2>6. \A u \in Senders : pc'[u] # "handback" /\ pc[u] = "handback" => typed'[u] = 0
    BY <2>1, <2>4 DEF Calls
  <2> QED  BY <1>2, <2>2, <2>3, <2>5, <2>6, ChordKept
<1>3. ASSUME NEW t \in Calls, Call(t) PROVE ChordInv'
  BY <1>1, <1>3 DEF Call
<1>4. ASSUME NEW t \in Calls, Acquire(t) PROVE ChordInv'
  BY <1>1, <1>4 DEF Acquire
<1>5. ASSUME NEW t \in Calls, Remember(t) PROVE ChordInv'
  BY <1>1, <1>5 DEF Remember
<1>6. ASSUME NEW t \in Calls, TakeFront(t) PROVE ChordInv'
  BY <1>1, <1>6 DEF TakeFront
<1>7. ASSUME NEW t \in Calls, Check(t) PROVE ChordInv'
  <2>1. CASE Goto(t, "type") /\ t \in Senders /\ UNCHANGED typed
    <3>1. Typing = {} /\ raw = <<>> /\ held = {} /\ \A u \in Senders \ {t} : pc[u] \notin Section
      BY <1>7, <2>1, Alone DEF Check, Section
    <3>2. pc'[t] = "type" /\ \A u \in Calls \ {t} : pc'[u] = pc[u]
      BY <1>0, <2>1 DEF Goto
    <3>3. Typing' = {t}
      BY <2>1, <3>1, <3>2 DEF Typing, Calls, Section
    <3>4. typed'[t] = 0 /\ Len(raw') = 0 /\ raw' = <<>> /\ held' = {} /\ bare' = bare
      BY <1>7, <2>1, <3>1 DEF Check, ChordInv
    <3>5. Delivered(t)' = 0
      BY <3>4 DEF Delivered
    <3>6. \A u \in Senders \ {t} : pc'[u] # "handback" => typed'[u] = 0
      BY <2>1, <3>1, <3>2 DEF ChordInv, Calls
    <3> QED  BY <2>1, <3>2, <3>3, <3>4, <3>5, <3>6, HeldEnds DEF ChordInv
  <2>2. CASE Return(t, "done") \/ Return(t, "failed")
    <3>1. "done" \in Returned /\ "failed" \in Returned
      BY DEF Returned
    <3> QED  BY <1>2, <1>7, <2>2, <3>1 DEF Check
  <2>3. CASE Goto(t, "force") /\ UNCHANGED typed
    BY <1>1, <1>7, <2>3 DEF Check
  <2> QED  BY <1>7, <2>1, <2>2, <2>3 DEF Check
<1>8. ASSUME NEW t \in Calls, Type(t) PROVE ChordInv'
  <2>1. t \in Senders /\ pc[t] = "type"
    BY <1>8, SenderSteps DEF Type
  <2>2. Typing = {t} /\ Len(Chord(t)) \in Nat
    BY <2>1, Alone, HeldEnds DEF Section
  <2>3. /\ Len(raw) <= typed[t] /\ typed[t] < Len(Chord(t)) /\ typed[t] \in Nat
        /\ \A i \in DOMAIN raw : raw[i] = <<t, Chord(t)[Delivered(t) + i]>>
        /\ held = HeldAfter(t, Delivered(t))
        /\ raw \in Seq(Senders \X Events)
    BY <1>0, <2>1, <2>2 DEF ChordInv, Events
  <2>4. typed'[t] = typed[t] + 1 /\ \A u \in Calls \ {t} : typed'[u] = typed[u]
    BY <1>0, <1>8 DEF Type
  <2>5. raw' = Append(raw, <<t, Chord(t)[typed[t] + 1]>>)
    BY <1>8, <2>4 DEF Type
  <2>6. Chord(t)[typed[t] + 1] \in Events
    <3>1. Chord(t) \in Seq(Events)
      BY <2>1, ChordAt
    <3> QED  BY <2>2, <2>3, <3>1
  <2>7. raw' \in Seq(Senders \X Events) /\ Len(raw') = Len(raw) + 1 /\ Len(raw) \in Nat
    BY <2>1, <2>3, <2>5, <2>6
  <2>8. Delivered(t)' = Delivered(t)
    BY <2>3, <2>4, <2>7 DEF Delivered
  <2>9. \A i \in DOMAIN raw' : raw'[i] = <<t, Chord(t)[Delivered(t) + i]>>
    <3>1. /\ \A i \in DOMAIN raw : raw'[i] = raw[i]
          /\ raw'[Len(raw) + 1] = <<t, Chord(t)[typed[t] + 1]>>
          /\ DOMAIN raw' = DOMAIN raw \cup {Len(raw) + 1}
      BY <2>3, <2>5
    <3>2. Delivered(t) + (Len(raw) + 1) = typed[t] + 1
      BY <2>3, <2>7 DEF Delivered
    <3> QED  BY <2>3, <3>1, <3>2
  <2>10. CASE typed'[t] = Len(Chord(t))
    <3>1. pc'[t] = "hold" /\ \A u \in Calls \ {t} : pc'[u] = pc[u]
      BY <1>0, <1>8, <2>10 DEF Type, Goto
    <3>2. Typing' = {t}
      BY <2>1, <2>2, <3>1 DEF Typing, Calls
    <3>3. \A u \in Senders \ {t} : pc'[u] # "handback" => typed'[u] = 0
      BY <2>2, <2>4, <3>1 DEF ChordInv, Calls
    <3>4. held' = held /\ bare' = bare
      BY <1>8 DEF Type
    <3>5. Len(raw') <= typed'[t]
      BY <2>3, <2>4, <2>7
    <3> QED  BY <2>3, <2>7, <2>8, <2>9, <2>10, <3>1, <3>2, <3>3, <3>4, <3>5 DEF ChordInv, Events
  <2>11. CASE typed'[t] # Len(Chord(t))
    <3>1. UNCHANGED <<pc, held, bare>>
      BY <1>8, <2>11 DEF Type
    <3>2. Typing' = {t}
      BY <2>2, <3>1 DEF Typing
    <3>3. \A u \in Senders \ {t} : pc'[u] # "handback" => typed'[u] = 0
      BY <2>2, <2>4, <3>1 DEF ChordInv, Calls
    <3>4. typed'[t] < Len(Chord(t)) /\ pc'[t] = "type" /\ Len(raw') <= typed'[t]
      BY <2>1, <2>2, <2>3, <2>4, <2>7, <2>11, <3>1
    <3> QED  BY <2>3, <2>7, <2>8, <2>9, <3>1, <3>2, <3>3, <3>4 DEF ChordInv, Events
  <2> QED  BY <2>10, <2>11
<1>9. ASSUME NEW t \in Calls, Hold(t) PROVE ChordInv'
  <2>1. t \in Senders /\ pc[t] = "hold" /\ raw = <<>>
    BY <1>9, SenderSteps DEF Hold
  <2>2. Typing = {t} /\ Len(Chord(t)) \in Nat
    BY <2>1, Alone, HeldEnds DEF Section
  <2>3. Delivered(t) = Len(Chord(t))
    BY <2>1, <2>2 DEF ChordInv, Delivered
  <2>4. held = {}
    BY <2>1, <2>2, <2>3, HeldEnds DEF ChordInv
  <2>5. pc'[t] = "handback" /\ \A u \in Calls \ {t} : pc'[u] = pc[u]
    BY <1>0, <1>9 DEF Hold, Goto
  <2>6. Typing' = {}
    BY <2>1, <2>2, <2>5 DEF Typing, Calls
  <2>7. \A u \in Senders : pc'[u] # "handback" => typed'[u] = 0
    BY <1>9, <2>2, <2>5 DEF Hold, ChordInv, Calls
  <2> QED  BY <1>9, <2>1, <2>4, <2>6, <2>7 DEF Hold, ChordInv
<1>10. ASSUME NEW t \in Calls, HandBack(t) PROVE ChordInv'
  BY <1>2, <1>10 DEF HandBack, Returned
<1>11. CASE RawInput
  <2>1. raw \in Seq(Senders \X Events) /\ raw # <<>> /\ raw' = Tail(raw) /\ Typing # {}
    BY <1>11 DEF RawInput, ChordInv, Events
  <2>2. PICK t \in Senders : t \in Typing
    BY <2>1 DEF Typing
  <2>3. Typing = {t} /\ pc[t] \in {"type", "hold"}
    BY <2>2, Alone DEF Typing, Section
  <2>4. /\ Len(raw) <= typed[t] /\ typed[t] <= Len(Chord(t)) /\ typed[t] \in Nat
        /\ \A i \in DOMAIN raw : raw[i] = <<t, Chord(t)[Delivered(t) + i]>>
        /\ held = HeldAfter(t, Delivered(t)) /\ bare = {} /\ Len(Chord(t)) \in Nat
    BY <1>0, <2>2, <2>3, HeldEnds DEF ChordInv, TypeOK, Calls
  <2>5. /\ Len(raw) \in Nat \ {0} /\ Len(raw') = Len(raw) - 1 /\ DOMAIN raw' = 1 .. Len(raw) - 1
        /\ Head(raw) = raw[1] /\ 1 \in DOMAIN raw
        /\ \A i \in DOMAIN raw' : i + 1 \in DOMAIN raw /\ raw'[i] = raw[i + 1]
        /\ raw' \in Seq(Senders \X Events)
    BY <2>1
  <2> DEFINE n == Delivered(t)
             k == Head(raw)[2][1]
             way == Head(raw)[2][2]
  <2>6. n \in Nat /\ n < Len(Chord(t)) /\ typed' = typed /\ pc' = pc
    BY <1>11, <2>4, <2>5 DEF Delivered, RawInput
  <2>7. Delivered(t)' = n + 1
    BY <2>4, <2>5, <2>6 DEF Delivered
  <2>8. Head(raw) = <<t, Chord(t)[n + 1]>> /\ Chord(t)[n + 1] = <<k, way>> /\ Head(raw)[1] = t
    <3>1. Head(raw) = <<t, Chord(t)[n + 1]>>
      BY <2>4, <2>5
    <3>2. Chord(t)[n + 1] \in Events
      <4>1. Chord(t) \in Seq(Events)
        BY ChordAt
      <4> QED  BY <2>4, <2>6, <4>1
    <3> QED  BY <3>1, <3>2 DEF Events
  <2>9. /\ held' = IF k = Key THEN held ELSE IF way = "down" THEN held \cup {k} ELSE held \ {k}
        /\ bare' = IF k = Key /\ held # ToSet(Mods[t]) THEN bare \cup {t} ELSE bare
    BY <1>11, <2>8 DEF RawInput
  <2> HIDE DEF n, k, way
  <2>10. held' = HeldAfter(t, n + 1) /\ bare' = {}
    <3>1. held = HeldAfter(t, n)
      BY <2>4 DEF n
    <3>2. Chord(t)[n + 1] = <<k, way>> /\ n \in Nat /\ n < Len(Chord(t))
      BY <2>6, <2>8
    <3>3. /\ k = Key => HeldAfter(t, n) = ToSet(Mods[t]) /\ HeldAfter(t, n + 1) = HeldAfter(t, n)
          /\ k # Key /\ way = "down" => HeldAfter(t, n + 1) = HeldAfter(t, n) \cup {k}
          /\ k # Key /\ way # "down" => HeldAfter(t, n + 1) = HeldAfter(t, n) \ {k}
      BY <3>2, HeldStep
    <3>4. bare = {}
      BY <2>4
    <3> QED  BY <2>9, <3>1, <3>3, <3>4
  <2>11. \A i \in DOMAIN raw' : raw'[i] = <<t, Chord(t)[n + 1 + i]>>
    <3>1. ASSUME NEW i \in DOMAIN raw' PROVE raw'[i] = <<t, Chord(t)[n + 1 + i]>>
      <4>1. raw'[i] = <<t, Chord(t)[n + (i + 1)]>>
        BY <2>4, <2>5 DEF n
      <4>2. n + (i + 1) = n + 1 + i
        BY <2>5, <2>6
      <4> QED  BY <4>1, <4>2
    <3> QED  BY <3>1
  <2>12. Typing' = {t}
    BY <2>3, <2>6 DEF Typing
  <2>13. Len(raw') <= typed'[t]
    BY <2>4, <2>5, <2>6
  <2>14. /\ \A u \in Senders \ {t} : pc'[u] # "handback" => typed'[u] = 0
         /\ IF pc'[t] = "type" THEN typed'[t] < Len(Chord(t)) ELSE typed'[t] = Len(Chord(t))
    BY <2>3, <2>6 DEF ChordInv
  <2> QED  BY <2>5, <2>7, <2>10, <2>11, <2>12, <2>13, <2>14 DEF ChordInv, Events
<1>12. ASSUME UNCHANGED <<raw, held, bare, pc, typed>> PROVE ChordInv'
  BY <1>12, ChordKept DEF Typing, ChordInv
<1>13. ASSUME NEW w \in Windows \cup {NoWindow}, HumanSwitches(w) PROVE ChordInv'
  BY <1>12, <1>13 DEF HumanSwitches
<1>14. CASE UNCHANGED vars
  BY <1>12, <1>14 DEF vars
<1> QED
  BY <1>3, <1>4, <1>5, <1>6, <1>7, <1>8, <1>9, <1>10, <1>11, <1>13, <1>14 DEF Next, Step
-------------------------------------------------------------------------------
LEMMA FrontStep ==
  ASSUME TypeOK, LockInv, ChordInv, FrontInv, [Next]_vars
  PROVE  FrontInv'
<1> USE DEF locals, theft, delivery
<1>0. /\ pc \in [Calls -> {"idle", "lock", "remember", "force", "check", "type", "hold", "handback"}
                           \cup Returned]
      /\ prev \in [Calls -> Windows \cup {NoWindow}]
      /\ Senders \subseteq Calls /\ outsiders \in BOOLEAN
  BY DEF TypeOK, Calls
<1>1. ASSUME UNCHANGED <<foreground, stray, theft, refused>>, Holding' = Holding, Typing' = Typing,
             \A t \in Senders : prev'[t] = prev[t]
      PROVE  FrontInv'
  <2>1. Holding \subseteq Senders
    BY DEF Holding
  <2> QED  BY <1>1, <2>1 DEF FrontInv
<1>2. ASSUME NEW t \in Calls, NEW there, Goto(t, there) PROVE
        pc'[t] = there /\ \A u \in Calls \ {t} : pc'[u] = pc[u]
  BY <1>0, <1>2 DEF Goto
<1>3. ASSUME NEW t \in Calls, Call(t) PROVE FrontInv'
  <2>1. PICK there \in {"lock", "force", "failed"} :
          Goto(t, there) /\ (t \in Senders => there # "force") /\ pc[t] = "idle"
    BY <1>3 DEF Call
  <2>2. Holding' = Holding /\ Typing' = Typing
    BY <1>0, <1>2, <2>1 DEF Holding, Typing, Section
  <2> QED  BY <1>1, <1>3, <2>2 DEF Call
<1>4. ASSUME NEW t \in Calls, Acquire(t) PROVE FrontInv'
  <2>1. pc[t] = "lock" /\ Goto(t, "remember")
    BY <1>4 DEF Acquire
  <2>2. Holding' = Holding /\ Typing' = Typing
    BY <1>0, <1>2, <2>1 DEF Holding, Typing, Section
  <2> QED  BY <1>1, <1>4, <2>2 DEF Acquire
<1>5. ASSUME NEW t \in Calls, Remember(t) PROVE FrontInv'
  <2>1. t \in Senders /\ pc[t] = "remember" /\ Goto(t, "force")
    BY <1>5, SenderSteps DEF Remember
  <2>2. Typing = {} /\ \A u \in Senders \ {t} : pc[u] \notin Section
    BY <2>1, Alone DEF Section
  <2>3. pc'[t] = "force" /\ \A u \in Calls \ {t} : pc'[u] = pc[u]
    BY <1>2, <2>1
  <2>4. Holding = {} /\ Holding' = {t} /\ Typing' = {}
    BY <1>0, <2>1, <2>2, <2>3 DEF Holding, Typing, Section
  <2>5. prev'[t] = foreground
    BY <1>0, <1>5 DEF Remember
  <2> QED  BY <1>5, <2>4, <2>5 DEF Remember, FrontInv
<1>6. ASSUME NEW t \in Calls, TakeFront(t) PROVE FrontInv'
  <2>1. pc[t] = "force" /\ Goto(t, "check")
    BY <1>6 DEF TakeFront
  <2>2. pc'[t] = "check" /\ \A u \in Calls \ {t} : pc'[u] = pc[u]
    BY <1>2, <2>1
  <2>3. Holding' = Holding /\ Typing' = Typing
    BY <1>0, <2>1, <2>2 DEF Holding, Typing, Section
  <2>4. CASE t \in Focusers
    <3>1. outsiders' = TRUE /\ stolen' = stolen \cup {u \in Typing : foreground' # Target[u]}
      BY <1>6, <2>4 DEF TakeFront, Steals
    <3>2. stray' = stray
      BY <1>6 DEF TakeFront
    <3>3. Typing \subseteq Senders
      BY DEF Typing
    <3> QED  BY <2>3, <3>1, <3>2, <3>3 DEF FrontInv
  <2>5. CASE t \notin Focusers
    <3>1. t \in Senders
      BY <2>5 DEF Calls
    <3>2. Typing = {} /\ Holding = {t}
      BY <2>1, <3>1, Alone DEF Holding, Section
    <3>3. foreground' \in {Target[t], foreground} /\ UNCHANGED <<prev, stray, stolen, outsiders, refused>>
      BY <1>6, <2>5 DEF TakeFront, ForceForeground
    <3> QED  BY <2>3, <3>2, <3>3 DEF FrontInv
  <2> QED  BY <2>4, <2>5
<1>7. ASSUME NEW t \in Calls, Check(t) PROVE FrontInv'
  <2>1. pc[t] = "check" /\ UNCHANGED <<foreground, stray, theft, refused>>
    BY <1>7 DEF Check
  <2>2. CASE t \in Senders
    <3>1. Typing = {} /\ Holding = {t} /\ \A u \in Senders \ {t} : pc[u] \notin Section
      BY <2>1, <2>2, Alone DEF Holding, Section
    <3>2. CASE Goto(t, "type") /\ foreground = Target[t] /\ UNCHANGED prev
      <4>1. pc'[t] = "type" /\ \A u \in Calls \ {t} : pc'[u] = pc[u]
        BY <1>2, <3>2
      <4>2. Typing' = {t} /\ Holding' = {t}
        BY <1>0, <2>2, <3>1, <4>1 DEF Typing, Holding, Section
      <4> QED  BY <2>1, <3>1, <3>2, <4>2 DEF FrontInv
    <3>3. CASE Goto(t, "force") /\ UNCHANGED prev
      <4>1. pc'[t] = "force" /\ \A u \in Calls \ {t} : pc'[u] = pc[u]
        BY <1>2, <3>3
      <4>2. Typing' = {} /\ Holding' = {t}
        BY <1>0, <2>2, <3>1, <4>1 DEF Typing, Holding, Section
      <4> QED  BY <2>1, <3>1, <3>3, <4>2 DEF FrontInv
    <3>4. CASE Return(t, "failed") /\ foreground # Target[t]
      <4>1. pc'[t] = "failed" /\ \A u \in Calls \ {t} : pc'[u] = pc[u]
        BY <1>2, <3>4 DEF Return
      <4>2. Typing' = {} /\ Holding' = {}
        BY <1>0, <2>2, <3>1, <4>1 DEF Typing, Holding, Section
      <4>3. ~outsiders => foreground = prev[t] /\ prev[t] \in {User} \cup refused
        BY <3>1, <3>4 DEF FrontInv
      <4> QED  BY <2>1, <4>2, <4>3 DEF FrontInv
    <3>5. t \notin Focusers
      BY <2>2, KeystrokeAssumption
    <3> QED  BY <1>7, <3>2, <3>3, <3>4, <3>5 DEF Check
  <2>3. CASE t \notin Senders
    <3>1. \A u \in Senders : pc'[u] = pc[u] /\ prev'[u] = prev[u]
      BY <1>0, <1>7, <2>3 DEF Check, Return, Goto
    <3>2. Typing' = Typing /\ Holding' = Holding
      BY <3>1 DEF Typing, Holding
    <3> QED  BY <1>1, <2>1, <3>1, <3>2
  <2> QED  BY <2>2, <2>3
<1>8. ASSUME NEW t \in Calls, Type(t) \/ Hold(t) PROVE FrontInv'
  <2>1. t \in Senders
    BY <1>8, SenderSteps DEF Type, Hold
  <2>2. CASE Hold(t)
    <3>1. pc'[t] = "handback" /\ \A u \in Calls \ {t} : pc'[u] = pc[u]
      BY <1>2, <2>2 DEF Hold
    <3>2. Holding' = Holding /\ Typing' \subseteq Typing
      BY <1>0, <2>1, <2>2, <3>1 DEF Hold, Holding, Typing, Section
    <3> QED  BY <2>2, <3>2 DEF Hold, FrontInv
  <2>3. CASE Type(t)
    <3>1. pc[t] = "type" /\ (pc' = pc \/ Goto(t, "hold"))
      BY <2>3 DEF Type
    <3>2. CASE pc' = pc
      BY <1>1, <2>3, <3>2 DEF Type, Holding, Typing
    <3>3. CASE Goto(t, "hold")
      <4>1. pc'[t] = "hold" /\ \A u \in Calls \ {t} : pc'[u] = pc[u]
        BY <1>2, <3>3
      <4>2. Holding' = Holding /\ Typing' = Typing
        BY <1>0, <3>1, <4>1 DEF Holding, Typing, Section
      <4> QED  BY <1>1, <2>3, <4>2 DEF Type
    <3> QED  BY <3>1, <3>2, <3>3
  <2> QED  BY <1>8, <2>2, <2>3
<1>9. ASSUME NEW t \in Calls, HandBack(t) PROVE FrontInv'
  <2>1. t \in Senders /\ pc[t] = "handback"
    BY <1>9, SenderSteps DEF HandBack
  <2>2. Typing = {} /\ Holding = {t} /\ \A u \in Senders \ {t} : pc[u] \notin Section
    BY <2>1, Alone DEF Holding, Section
  <2>3. pc'[t] = "done" /\ \A u \in Calls \ {t} : pc'[u] = pc[u]
    BY <1>2, <1>9 DEF HandBack, Return
  <2>4. Typing' = {} /\ Holding' = {}
    BY <1>0, <2>1, <2>2, <2>3 DEF Typing, Holding, Section
  <2>5. UNCHANGED <<stray, stolen, outsiders>>
    BY <1>9 DEF HandBack
  <2>6. ASSUME ~outsiders PROVE NoWindow \notin refused' /\ foreground' \in {User} \cup refused'
    <3>1. /\ NoWindow \notin refused
          /\ prev[t] \in {User} \cup refused /\ foreground \in {prev[t], Target[t]}
      BY <2>2, <2>6 DEF FrontInv
    <3>2. Target[t] # NoWindow /\ User # NoWindow
      BY KeystrokeAssumption DEF Windows
    <3>3. CASE prev[t] = Target[t]
      BY <1>9, <3>1, <3>3 DEF HandBack
    <3>4. CASE prev[t] # Target[t]
      BY <1>9, <3>1, <3>2, <3>4 DEF HandBack, ForceForeground
    <3> QED  BY <3>3, <3>4
  <2> QED  BY <2>4, <2>5, <2>6 DEF FrontInv
<1>10. CASE RawInput
  <2>1. raw \in Seq(Senders \X Events) /\ raw # <<>> /\ Typing # {}
    BY <1>10 DEF RawInput, ChordInv, Events
  <2>2. PICK t \in Senders : t \in Typing
    BY <2>1 DEF Typing
  <2>3. \A i \in DOMAIN raw : raw[i][1] = t
    BY <2>2 DEF ChordInv
  <2>4. Head(raw)[1] = t
    BY <2>1, <2>3
  <2>5. stray' = IF foreground # Target[t] THEN stray \cup {t} ELSE stray
    BY <1>10, <2>4 DEF RawInput
  <2>6. stray' \subseteq stolen
    BY <2>2, <2>5 DEF FrontInv
  <2>7. UNCHANGED <<foreground, prev, refused, theft, pc>>
    BY <1>10 DEF RawInput
  <2> QED  BY <2>6, <2>7 DEF FrontInv, Holding, Typing
<1>11. ASSUME NEW w \in Windows \cup {NoWindow}, HumanSwitches(w) PROVE FrontInv'
  <2>1. outsiders' = TRUE /\ stolen' = stolen \cup {u \in Typing : foreground' # Target[u]}
    BY <1>11 DEF HumanSwitches, Steals
  <2>2. stray' = stray /\ pc' = pc
    BY <1>11 DEF HumanSwitches
  <2> QED  BY <2>1, <2>2 DEF FrontInv, Typing
<1>12. CASE UNCHANGED vars
  BY <1>1, <1>12 DEF vars, Holding, Typing
<1> QED
  BY <1>3, <1>4, <1>5, <1>6, <1>7, <1>8, <1>9, <1>10, <1>11, <1>12 DEF Next, Step
-------------------------------------------------------------------------------
\* Types, the lock, the chord and the foreground hold together.
THEOREM Invariance == Spec => [](TypeOK /\ KeystrokeInv)
<1>1. Init => TypeOK /\ KeystrokeInv
  <2> SUFFICES ASSUME Init PROVE TypeOK /\ KeystrokeInv
    OBVIOUS
  <2>1. Typing = {} /\ Holding = {}
    BY DEF Init, Typing, Holding, Calls, Section
  <2>2. TypeOK
    <3>1. \A t \in Senders : typed[t] <= Len(Chord(t))
      BY HeldEnds DEF Init, Calls
    <3>2. raw = <<>> /\ \A i \in DOMAIN raw : raw[i][1] = lock
      BY DEF Init
    <3>3. tries \in [Calls -> 0 .. MaxTries] /\ typed \in [Calls -> Nat]
      BY KeystrokeAssumption DEF Init
    <3> QED  BY <3>1, <3>2, <3>3 DEF Init, TypeOK, Windows
  <2>3. LockInv
    BY KeystrokeAssumption DEF Init, LockInv, Section, Calls
  <2>4. ChordInv
    BY <2>1 DEF Init, ChordInv, Calls
  <2>5. FrontInv
    BY <2>1, KeystrokeAssumption DEF Init, FrontInv, Windows
  <2> QED  BY <2>2, <2>3, <2>4, <2>5 DEF KeystrokeInv
<1>2. TypeOK /\ KeystrokeInv /\ [Next]_vars => TypeOK' /\ KeystrokeInv'
  BY TypeStep, LockStep, ChordStep, FrontStep DEF KeystrokeInv
<1>3. QED
  BY <1>1, <1>2, PTL DEF Spec

\* Every variable of KeystrokeWindows stays in its range.
THEOREM TypeCorrect == Spec => []TypeOK
BY Invariance, PTL

\* No event lands elsewhere than on its target because of another keystroke.
THEOREM LandsRight == Spec => []LandsOnTarget
<1>1. KeystrokeInv => LandsOnTarget
  BY DEF KeystrokeInv, FrontInv, LandsOnTarget
<1>2. QED
  BY <1>1, Invariance, PTL

\* A keystroke that returns has been delivered, and no modifier stays down.
THEOREM WholeChords == Spec => []ChordIsWhole
<1>1. TypeOK /\ KeystrokeInv => ChordIsWhole
  <2> SUFFICES ASSUME TypeOK, LockInv, ChordInv PROVE ChordIsWhole
    BY DEF KeystrokeInv
  <2>1. \A i \in DOMAIN raw : raw[i][1] \in Typing
    <3>1. ASSUME NEW i \in DOMAIN raw PROVE raw[i][1] \in Typing
      <4>1. raw # <<>>
        OBVIOUS
      <4>2. PICK t \in Senders : t \in Typing
        BY <4>1 DEF ChordInv, Typing
      <4> QED  BY <4>2 DEF ChordInv
    <3> QED  BY <3>1
  <2>2. \A t \in Typing : pc[t] \notin Returned
    BY DEF Typing, Returned
  <2>3. lock = Nobody => Typing = {}
    BY KeystrokeAssumption DEF LockInv, Typing, Section, Calls
  <2> QED  BY <2>1, <2>2, <2>3 DEF ChordIsWhole, ChordInv
<1>2. QED
  BY <1>1, Invariance, PTL

\* Without outsiders only a refused hand-back leaves another window in front.
THEOREM FrontGoesBack == Spec => []HandsBack
<1>1. TypeOK /\ KeystrokeInv => HandsBack
  <2> SUFFICES ASSUME TypeOK, LockInv, FrontInv, lock = Nobody PROVE ~outsiders => foreground \in {User} \cup refused
    BY DEF KeystrokeInv, HandsBack
  <2>1. Holding = {}
    BY KeystrokeAssumption DEF LockInv, Holding, Calls
  <2> QED  BY <2>1 DEF FrontInv
<1>2. QED
  BY <1>1, Invariance, PTL
-------------------------------------------------------------------------------
\* A chord under way has the lock, its turn and no failure or result.
LEMMA TurnOf ==
  ASSUME TypeOK, LockInv, ChordInv, NEW t \in Typing
  PROVE  /\ t \in Senders /\ lock = t /\ Turn = t /\ t # Nobody /\ Progress = Delivered(t)
         /\ Outcome(t) = "pending"
<1>1. t \in Senders /\ lock = t /\ pc[t] \in {"type", "hold"} /\ t # Nobody
  BY KeystrokeAssumption DEF Typing, LockInv, Section, Calls
<1> QED
  BY <1>1 DEF Turn, Progress, Outcome

\* The same of the state after a step.
LEMMA TurnOfNext ==
  ASSUME LockInv', NEW t \in Typing'
  PROVE  t \in Senders /\ Turn' = t /\ Progress' = Delivered(t)'
<1>1. t \in Senders /\ lock' = t
  BY DEF Typing, LockInv, Section
<1> QED
  BY <1>1 DEF Turn, Progress

\* Between chords nobody has the turn and nothing is down.
LEMMA NoTurn ==
  ASSUME ChordInv, Typing = {}
  PROVE  Turn = Nobody /\ Progress = 0 /\ held = {} /\ raw = <<>>
BY DEF Turn, Progress, ChordInv

LEMMA NoTurnNext ==
  ASSUME Typing' = {}
  PROVE  Turn' = Nobody /\ Progress' = 0
BY DEF Turn, Progress

\* A step that leaves the chord under way and the results alone is none of the turns'.
LEMMA QuietStep ==
  ASSUME TypeOK, LockInv, ChordInv, LockInv', Typing' = Typing, UNCHANGED held,
         \A t \in Typing : Delivered(t)' = Delivered(t),
         \A t \in Senders : Outcome(t)' = Outcome(t)
  PROVE  UNCHANGED Turns!vars
<1>1. Turn' = Turn /\ Progress' = Progress
  <2>1. CASE Typing = {}
    BY <2>1, NoTurn, NoTurnNext
  <2>2. CASE Typing # {}
    <3>1. PICK t : t \in Typing
      BY <2>2
    <3>2. Turn = t /\ Progress = Delivered(t)
      BY <3>1, TurnOf
    <3>3. Turn' = t /\ Progress' = Delivered(t)'
      BY <3>1, TurnOfNext
    <3> QED  BY <3>1, <3>2, <3>3
  <2> QED  BY <2>1, <2>2
<1>2. [t \in Senders |-> Outcome(t)'] = [t \in Senders |-> Outcome(t)]
  OBVIOUS
<1> QED
  BY <1>1, <1>2 DEF Turns!vars

\* Every step of the keystrokes is a step of the turns or a stutter.
LEMMA TurnStep ==
  ASSUME TypeOK, KeystrokeInv, KeystrokeInv', [Next]_vars
  PROVE  [Turns!Next]_Turns!vars
<1>0. /\ LockInv /\ ChordInv /\ LockInv' /\ ChordInv' /\ Senders \subseteq Calls
      /\ pc \in [Calls -> {"idle", "lock", "remember", "force", "check", "type", "hold", "handback"}
                           \cup Returned]
  BY DEF KeystrokeInv, TypeOK, Calls
<1> DEFINE O == [t \in Senders |-> Outcome(t)]
<1>1. ASSUME NEW t \in Calls, NEW there, Goto(t, there)
      PROVE  pc'[t] = there /\ \A u \in Calls \ {t} : pc'[u] = pc[u]
  BY <1>0, <1>1 DEF Goto
<1>2. ASSUME NEW t \in Calls, NEW there, Goto(t, there), there # "type",
             pc[t] \notin {"type", "hold"}, there \notin Returned \/ t \notin Senders,
             pc[t] \in {"idle", "lock", "remember", "force", "check"}, there # "handback",
             there # "hold", UNCHANGED <<raw, held, typed>>
      PROVE  UNCHANGED Turns!vars
  <2>1. Typing' = Typing
    BY <1>0, <1>1, <1>2 DEF Typing
  <2>2. \A u \in Typing : Delivered(u)' = Delivered(u)
    BY <1>2 DEF Delivered
  <2>3. \A u \in Senders : Outcome(u)' = Outcome(u)
    BY <1>0, <1>1, <1>2 DEF Outcome, Returned
  <2> QED  BY <1>0, <1>2, <2>1, <2>2, <2>3, QuietStep
<1>3. ASSUME NEW t \in Senders, pc[t] \in {"idle", "check"}, Goto(t, "failed"), UNCHANGED <<raw, held>>,
             \A u \in Senders \ {t} : typed'[u] = typed[u]
      PROVE  Turns!Fail(t)
  <2>1. pc'[t] = "failed" /\ \A u \in Calls \ {t} : pc'[u] = pc[u]
    BY <1>0, <1>1, <1>3
  <2>2. Typing' = Typing /\ t \notin Typing
    BY <1>0, <1>3, <2>1 DEF Typing
  <2>3. Turn # t /\ Turn' = Turn /\ Progress' = Progress
    <3>1. CASE Typing = {}
      BY <1>0, <2>2, <3>1, NoTurn, NoTurnNext, KeystrokeAssumption DEF Calls
    <3>2. CASE Typing # {}
      <4>1. PICK u : u \in Typing
        BY <3>2
      <4>2. u # t /\ u \in Senders /\ Turn = u /\ Turn' = u /\ Progress = Delivered(u)
            /\ Progress' = Delivered(u)'
        BY <1>0, <2>2, <4>1, TurnOf, TurnOfNext
      <4> QED  BY <1>3, <4>2 DEF Delivered
    <3> QED  BY <3>1, <3>2
  <2>4. O' = [O EXCEPT ![t] = "failed"] /\ O[t] = "pending"
    BY <1>0, <1>3, <2>1 DEF Outcome
  <2> QED  BY <1>3, <2>3, <2>4 DEF Turns!Fail
<1>4. ASSUME NEW t \in Calls, Call(t) PROVE [Turns!Next]_Turns!vars
  <2>1. UNCHANGED <<raw, held, typed>> /\ pc[t] = "idle"
    BY <1>4 DEF Call, delivery
  <2>2. CASE Goto(t, "failed") /\ t \in Senders
    BY <1>3, <2>1, <2>2 DEF Turns!Next
  <2>3. CASE Goto(t, "failed") /\ t \notin Senders
    BY <1>2, <2>1, <2>3
  <2>4. CASE Goto(t, IF t \in Senders THEN "lock" ELSE "force")
    <3>1. PICK there \in {"lock", "force"} : Goto(t, there)
      BY <2>4
    <3> QED  BY <1>2, <2>1, <3>1 DEF Returned
  <2> QED  BY <1>4, <2>2, <2>3, <2>4 DEF Call
<1>5. ASSUME NEW t \in Calls, Acquire(t) \/ Remember(t) \/ TakeFront(t)
      PROVE  [Turns!Next]_Turns!vars
  <2>1. PICK there \in {"remember", "force", "check"} : Goto(t, there)
    BY <1>5 DEF Acquire, Remember, TakeFront
  <2>2. UNCHANGED <<raw, held, typed>> /\ pc[t] \in {"lock", "remember", "force"}
    BY <1>5 DEF Acquire, Remember, TakeFront, delivery
  <2> QED  BY <1>2, <2>1, <2>2 DEF Returned
<1>6. ASSUME NEW t \in Calls, Check(t) PROVE [Turns!Next]_Turns!vars
  <2>1. UNCHANGED <<raw, held>> /\ pc[t] = "check"
    BY <1>6 DEF Check, delivery
  <2>2. CASE t \in Senders /\ Goto(t, "type") /\ UNCHANGED typed
    <3>1. pc'[t] = "type" /\ \A u \in Calls \ {t} : pc'[u] = pc[u]
      BY <1>1, <2>2
    <3>2. Typing = {} /\ Typing' = {t} /\ typed[t] = 0
      BY <1>0, <2>1, <2>2, <3>1, Alone DEF Typing, Section, ChordInv
    <3>3. Turn = Nobody /\ Progress = 0 /\ held = {} /\ raw = <<>>
      BY <1>0, <3>2, NoTurn
    <3>4. Turn' = t /\ Progress' = Delivered(t)'
      BY <1>0, <3>2, TurnOfNext
    <3>5. Progress' = 0
      BY <2>1, <2>2, <3>2, <3>3, <3>4 DEF Delivered
    <3>6. O' = O /\ O[t] = "pending"
      BY <1>0, <2>1, <2>2, <3>1 DEF Outcome
    <3>7. Turns!Begin(t)
      BY <2>1, <3>3, <3>4, <3>5, <3>6 DEF Turns!Begin
    <3> QED  BY <2>2, <3>7 DEF Turns!Next
  <2>3. CASE Goto(t, "force") /\ UNCHANGED typed
    BY <1>2, <2>1, <2>3 DEF Returned
  <2>4. ASSUME NEW how \in Returned, Return(t, how), t \in Senders => how = "failed"
        PROVE  [Turns!Next]_Turns!vars
    <3>1. Goto(t, how) /\ typed' = [typed EXCEPT ![t] = 0]
      BY <2>4 DEF Return
    <3>2. CASE t \in Senders
      <4>1. \A u \in Senders \ {t} : typed'[u] = typed[u]
        BY <1>0, <3>1 DEF TypeOK
      <4>2. Turns!Fail(t)
        BY <1>3, <2>1, <2>4, <3>1, <3>2, <4>1
      <4> QED  BY <3>2, <4>2 DEF Turns!Next
    <3>3. CASE t \notin Senders
      <4>1. pc'[t] = how /\ \A u \in Senders : pc'[u] = pc[u] /\ typed'[u] = typed[u]
        BY <1>0, <1>1, <3>1, <3>3 DEF TypeOK
      <4>2. Typing' = Typing /\ \A u \in Senders : Outcome(u)' = Outcome(u)
        BY <4>1 DEF Typing, Outcome
      <4>3. \A u \in Typing : Delivered(u)' = Delivered(u)
        BY <2>1, <4>1 DEF Delivered, Typing
      <4> QED  BY <1>0, <2>1, <4>2, <4>3, QuietStep
    <3> QED  BY <3>2, <3>3
  <2>5. t \in Senders => t \notin Focusers
    BY KeystrokeAssumption
  <2> QED  BY <1>6, <2>2, <2>3, <2>4, <2>5 DEF Check, Returned
<1>7. ASSUME NEW t \in Calls, Type(t) PROVE [Turns!Next]_Turns!vars
  <2>1. t \in Senders /\ pc[t] = "type" /\ (pc' = pc \/ Goto(t, "hold")) /\ UNCHANGED held
    BY <1>7, SenderSteps, <1>0 DEF Type, delivery
  <2>2. pc'[t] \in {"type", "hold"} /\ \A u \in Calls \ {t} : pc'[u] = pc[u]
    BY <1>1, <2>1
  <2>3. Typing = {t} /\ Typing' = Typing
    BY <1>0, <2>1, <2>2, Alone DEF Typing, Section
  <2>4. \A u \in Senders : Outcome(u)' = Outcome(u)
    BY <1>0, <2>1, <2>2 DEF Outcome
  <2>5. Delivered(t)' = Delivered(t)
    <3>1. typed'[t] = typed[t] + 1 /\ typed[t] \in Nat
      BY <1>0, <1>7, <2>1 DEF Type, TypeOK
    <3>2. raw \in Seq(Senders \X Events) /\ raw' = Append(raw, <<t, Chord(t)[typed'[t]]>>)
      BY <1>0, <1>7 DEF Type, ChordInv, Events
    <3>3. Len(raw') = Len(raw) + 1 /\ Len(raw) \in Nat
      BY <3>2
    <3> QED  BY <3>1, <3>3 DEF Delivered
  <2> QED  BY <1>0, <2>1, <2>3, <2>4, <2>5, QuietStep
<1>8. ASSUME NEW t \in Calls, Hold(t) PROVE [Turns!Next]_Turns!vars
  <2>1. t \in Senders /\ pc[t] = "hold" /\ raw = <<>> /\ Goto(t, "handback") /\ UNCHANGED held
    BY <1>8, SenderSteps, <1>0 DEF Hold, delivery
  <2>2. pc'[t] = "handback" /\ \A u \in Calls \ {t} : pc'[u] = pc[u]
    BY <1>1, <2>1
  <2>3. Typing = {t} /\ Typing' = {}
    BY <1>0, <2>1, <2>2, Alone DEF Typing, Section
  <2>4. Turn = t /\ Progress = Delivered(t)
    BY <1>0, <2>3, TurnOf
  <2>5. Progress = Len(Chord(t)) /\ held = {}
    <3>1. typed[t] = Len(Chord(t)) /\ held = HeldAfter(t, Delivered(t)) /\ Len(raw) = 0
      BY <1>0, <2>1, <2>3 DEF ChordInv
    <3>2. Delivered(t) = Len(Chord(t))
      BY <3>1, HeldEnds, <2>1 DEF Delivered
    <3> QED  BY <2>1, <2>4, <3>1, <3>2, HeldEnds
  <2>6. Turn' = Nobody /\ Progress' = 0
    BY <2>3, NoTurnNext
  <2>7. O' = [O EXCEPT ![t] = "ok"]
    BY <1>0, <2>1, <2>2 DEF Outcome
  <2>8. Turns!End(t)
    BY <2>1, <2>4, <2>5, <2>6, <2>7 DEF Turns!End
  <2> QED  BY <2>1, <2>8 DEF Turns!Next
<1>9. ASSUME NEW t \in Calls, HandBack(t) PROVE [Turns!Next]_Turns!vars
  <2>1. t \in Senders /\ pc[t] = "handback" /\ Goto(t, "done") /\ UNCHANGED held
    BY <1>9, SenderSteps, <1>0 DEF HandBack, Return, delivery
  <2>2. pc'[t] = "done" /\ \A u \in Calls \ {t} : pc'[u] = pc[u]
    BY <1>1, <2>1
  <2>3. Typing = {} /\ Typing' = {}
    BY <1>0, <2>1, <2>2, Alone DEF Typing, Section
  <2>4. \A u \in Senders : Outcome(u)' = Outcome(u)
    BY <1>0, <2>1, <2>2 DEF Outcome
  <2> QED  BY <1>0, <2>1, <2>3, <2>4, QuietStep
<1>10. CASE RawInput
  <2>1. raw \in Seq(Senders \X Events) /\ raw # <<>> /\ raw' = Tail(raw) /\ UNCHANGED <<pc, lock, typed>>
    BY <1>0, <1>10 DEF RawInput, ChordInv, Events, locals
  <2>2. PICK t \in Senders : t \in Typing
    BY <1>0, <2>1 DEF ChordInv, Typing
  <2>3. Typing' = Typing /\ \A u \in Senders : Outcome(u)' = Outcome(u)
    BY <2>1 DEF Typing, Outcome
  <2>4. /\ Len(raw) <= typed[t] /\ typed[t] <= Len(Chord(t)) /\ typed[t] \in Nat
        /\ \A i \in DOMAIN raw : raw[i] = <<t, Chord(t)[Delivered(t) + i]>>
        /\ held = HeldAfter(t, Delivered(t)) /\ Len(Chord(t)) \in Nat
    BY <1>0, <2>2, HeldEnds DEF ChordInv, TypeOK
  <2>5. Len(raw) \in Nat \ {0} /\ Len(raw') = Len(raw) - 1 /\ Head(raw) = raw[1] /\ 1 \in DOMAIN raw
    BY <2>1
  <2>6. Turn = t /\ Turn' = t /\ Progress = Delivered(t) /\ Progress' = Delivered(t)'
    BY <1>0, <2>2, <2>3, TurnOf, TurnOfNext
  <2>7. Progress \in Nat /\ Progress < Len(Chord(t)) /\ Progress' = Progress + 1
    BY <2>1, <2>4, <2>5, <2>6 DEF Delivered
  <2> DEFINE k == Head(raw)[2][1]
             way == Head(raw)[2][2]
  <2>8. Head(raw)[1] = t /\ Chord(t)[Progress + 1] = <<k, way>>
    <3>1. Head(raw) = <<t, Chord(t)[Progress + 1]>>
      BY <2>4, <2>5, <2>6
    <3>2. Chord(t)[Progress + 1] \in Events
      <4>1. Chord(t) \in Seq(Events)
        BY ChordAt
      <4> QED  BY <2>4, <2>7, <4>1
    <3> QED  BY <3>1, <3>2 DEF Events
  <2>9. held' = IF k = Key THEN held ELSE IF way = "down" THEN held \cup {k} ELSE held \ {k}
    BY <1>10, <2>8 DEF RawInput
  <2> HIDE DEF k, way
  <2>10. k = Key => held = {Mods[t][i] : i \in DOMAIN Mods[t]}
    BY <2>4, <2>6, <2>7, <2>8, HeldStep DEF ToSet
  <2> DEFINE C == [u \in Senders |-> Chord(u)]
  <2>11. O' = O /\ C[t] = Chord(t) /\ C[t][Progress'] = <<k, way>>
    BY <2>2, <2>3, <2>7, <2>8
  <2>12. C[t][Progress'][1] = k /\ C[t][Progress'][2] = way
    BY <2>11
  <2> HIDE DEF C, O
  <2>13. Progress < Len(C[t])
    BY <2>7, <2>11
  <2>14. Turns!Deliver(t)
    BY <2>6, <2>7, <2>9, <2>10, <2>11, <2>12, <2>13 DEF Turns!Deliver, C, O
  <2> QED  BY <2>2, <2>14 DEF Turns!Next
<1>11. CASE (\E w \in Windows \cup {NoWindow} : HumanSwitches(w)) \/ UNCHANGED vars
  <2>1. UNCHANGED <<raw, held, lock, pc, typed>>
    BY <1>11 DEF HumanSwitches, vars, locals, delivery
  <2> QED  BY <1>0, <2>1, QuietStep DEF Typing, Delivered, Outcome
<1> QED
  BY <1>4, <1>5, <1>6, <1>7, <1>8, <1>9, <1>10, <1>11 DEF Next, Step

\* The keystrokes under the lock take turns: no two chords interleave, each arrives whole
\* with its own modifiers down or not at all, and one that returns Ok has arrived.
THEOREM Refinement == Spec => ImplementsChordTurns
<1>1. Init => Turns!Init
  <2> SUFFICES ASSUME Init PROVE Turns!Init
    OBVIOUS
  <2>1. Typing = {} /\ \A t \in Senders : Outcome(t) = "pending"
    BY DEF Init, Typing, Outcome, Calls
  <2>2. Turn = Nobody /\ Progress = 0
    BY <2>1 DEF Turn, Progress
  <2> QED  BY <2>1, <2>2 DEF Init, Turns!Init
<1>2. QED
  BY <1>1, Invariance, TurnStep, PTL DEF Spec, ImplementsChordTurns, Turns!Spec
-------------------------------------------------------------------------------
\* The length of a call's chord is a number, none for focus.
LEMMA SizeNat ==
  ASSUME NEW t \in Calls
  PROVE  (IF t \in Senders THEN Len(Chord(t)) ELSE 0) \in Nat
BY HeldEnds

\* What is left of a call is a natural number, also after a step.
LEMMA LeftNat ==
  ASSUME TypeOK, LockInv, NEW t \in Calls
  PROVE  Left(t) \in Nat
<1> DEFINE size == IF t \in Senders THEN Len(Chord(t)) ELSE 0
           more == 2 * (MaxTries - tries[t]) + size
<1>1. size \in Nat /\ tries[t] \in 0 .. MaxTries /\ MaxTries \in Nat
  BY SizeNat, KeystrokeAssumption DEF TypeOK
<1>2. pc[t] = "type" => typed[t] \in Nat /\ typed[t] <= size
  BY SenderSteps DEF TypeOK
<1>3. Left(t) = CASE pc[t] = "idle" -> more + 7
                  [] pc[t] = "lock" -> more + 6
                  [] pc[t] = "remember" -> more + 5
                  [] pc[t] = "force" -> more + 4
                  [] pc[t] = "check" -> more + 3
                  [] pc[t] = "type" -> size - typed[t] + 2
                  [] pc[t] = "hold" -> 2
                  [] pc[t] = "handback" -> 1
                  [] OTHER -> 0
  BY DEF Left
<1> HIDE DEF size
<1>4. more \in Nat
  BY <1>1
<1> HIDE DEF more
<1>5. pc[t] = "type" => size - typed[t] + 2 \in Nat
  BY <1>1, <1>2
<1> QED
  BY <1>3, <1>4, <1>5

\* Who does not step keeps what is left.
LEMMA LeftKept ==
  ASSUME NEW t \in Calls, pc'[t] = pc[t], tries'[t] = tries[t], typed'[t] = typed[t]
  PROVE  Left(t)' = Left(t)
BY DEF Left

\* A step of a call takes at least one from what is left of it, and nothing from others.
LEMMA StepAdvances ==
  ASSUME TypeOK, LockInv, ChordInv, NEW t \in Calls, Step(t)
  PROVE  /\ Left(t)' < Left(t)
         /\ \A u \in Calls \ {t} : pc'[u] = pc[u] /\ tries'[u] = tries[u] /\ typed'[u] = typed[u]
<1> DEFINE size == IF t \in Senders THEN Len(Chord(t)) ELSE 0
           more == 2 * (MaxTries - tries[t]) + size
<1>0. /\ size \in Nat /\ tries[t] \in 0 .. MaxTries /\ MaxTries \in Nat
      /\ typed \in [Calls -> Nat] /\ tries \in [Calls -> 0 .. MaxTries]
      /\ pc \in [Calls -> {"idle", "lock", "remember", "force", "check", "type", "hold", "handback"}
                           \cup Returned]
  BY SizeNat, KeystrokeAssumption DEF TypeOK
<1>1. ASSUME NEW there, Goto(t, there)
      PROVE  pc'[t] = there /\ \A u \in Calls \ {t} : pc'[u] = pc[u]
  BY <1>0, <1>1 DEF Goto
<1>2. ASSUME NEW how \in Returned, Return(t, how)
      PROVE  /\ Left(t)' = 0
             /\ \A u \in Calls \ {t} : pc'[u] = pc[u] /\ tries'[u] = tries[u] /\ typed'[u] = typed[u]
  <2>1. pc'[t] = how /\ \A u \in Calls \ {t} : pc'[u] = pc[u]
    BY <1>1, <1>2 DEF Return
  <2> QED  BY <1>0, <1>2, <2>1 DEF Return, Left, Returned
<1>3. CASE Call(t)
  <2>1. PICK there \in {"lock", "force", "failed"} : Goto(t, there)
    BY <1>3 DEF Call
  <2> HIDE DEF size
  <2> QED  BY <1>0, <1>1, <1>3, <2>1 DEF Call, Left, size
<1>4. CASE Acquire(t)
  BY <1>0, <1>1, <1>4 DEF Acquire, Left
<1>5. CASE Remember(t)
  BY <1>0, <1>1, <1>5 DEF Remember, Left
<1>6. CASE TakeFront(t)
  BY <1>0, <1>1, <1>6 DEF TakeFront, Left
<1>7. CASE Check(t)
  <2>1. CASE Return(t, "done") \/ Return(t, "failed")
    <3>1. Left(t) = more + 3
      BY <1>7 DEF Check, Left
    <3>2. more \in Nat
      BY <1>0
    <3> HIDE DEF more
    <3> QED  BY <1>2, <2>1, <3>1, <3>2 DEF Returned
  <2>2. CASE Goto(t, "type") /\ UNCHANGED <<tries, typed>>
    <3>1. typed[t] \in Nat
      BY <1>0
    <3> QED  BY <1>0, <1>1, <1>7, <2>2, <3>1 DEF Check, Left
  <2>3. CASE Goto(t, "force") /\ tries' = [tries EXCEPT ![t] = @ + 1] /\ UNCHANGED typed
    BY <1>0, <1>1, <1>7, <2>3 DEF Check, Left
  <2> QED  BY <1>7, <2>1, <2>2, <2>3 DEF Check
<1>8. CASE Type(t)
  <2>1. t \in Senders /\ t \in Typing /\ pc[t] = "type"
    BY <1>8, SenderSteps DEF Type, Typing
  <2>2. typed[t] \in Nat /\ typed[t] < size /\ typed' = [typed EXCEPT ![t] = @ + 1] /\ UNCHANGED tries
    BY <1>0, <1>8, <2>1 DEF Type, ChordInv
  <2>3. (pc' = pc) \/ (Goto(t, "hold") /\ typed[t] + 1 = size)
    BY <1>0, <1>8, <2>1, <2>2 DEF Type
  <2>4. Left(t) = size - typed[t] + 2
    BY <2>1 DEF Left
  <2>5. CASE pc' = pc
    <3>1. Left(t)' = size - (typed[t] + 1) + 2
      BY <1>0, <2>1, <2>2, <2>5 DEF Left
    <3> HIDE DEF size
    <3> QED  BY <1>0, <2>2, <2>4, <2>5, <3>1
  <2>6. CASE Goto(t, "hold")
    <3>1. Left(t)' = 2
      BY <1>1, <2>6 DEF Left
    <3> HIDE DEF size
    <3> QED  BY <1>0, <1>1, <2>2, <2>4, <2>6, <3>1
  <2> QED  BY <2>3, <2>5, <2>6
<1>9. CASE Hold(t)
  BY <1>0, <1>1, <1>9 DEF Hold, Left
<1>10. CASE HandBack(t)
  <2>1. Left(t) = 1
    BY <1>10 DEF HandBack, Left
  <2> QED  BY <1>2, <1>10, <2>1 DEF HandBack, Returned
<1> QED
  BY <1>3, <1>4, <1>5, <1>6, <1>7, <1>8, <1>9, <1>10 DEF Step

\* No call can be kept from returning by being disturbed: it has a bounded number of steps,
\* each of them takes it nearer to its return, and nobody else gives it more.
THEOREM BoundedCalls == Spec => CallsAdvance
<1> DEFINE Advance ==
             \A t \in Calls : /\ Left(t)' \in Nat /\ Left(t)' <= Left(t)
                              /\ Step(t) => Left(t)' < Left(t)
<1>1. /\ TypeOK /\ LockInv /\ ChordInv /\ TypeOK' /\ LockInv' /\ [Next]_vars
      => [Advance]_vars
  <2> SUFFICES ASSUME TypeOK, LockInv, ChordInv, TypeOK', LockInv', [Next]_vars, NEW t \in Calls
               PROVE  /\ Left(t)' \in Nat /\ Left(t)' <= Left(t)
                      /\ Step(t) => Left(t)' < Left(t)
    OBVIOUS
  <2> DEFINE size == IF t \in Senders THEN Len(Chord(t)) ELSE 0
  <2>1. Left(t) \in Nat
    BY LeftNat
  <2>2. Left(t)' \in Nat
    <3>1. size \in Nat /\ tries'[t] \in 0 .. MaxTries /\ MaxTries \in Nat
      BY SizeNat, KeystrokeAssumption DEF TypeOK
    <3>2. pc'[t] = "type" => typed'[t] \in Nat /\ typed'[t] <= size
      BY DEF TypeOK, LockInv, Calls, Returned
    <3> DEFINE more == 2 * (MaxTries - tries'[t]) + size
    <3>3. Left(t)' = CASE pc'[t] = "idle" -> more + 7
                       [] pc'[t] = "lock" -> more + 6
                       [] pc'[t] = "remember" -> more + 5
                       [] pc'[t] = "force" -> more + 4
                       [] pc'[t] = "check" -> more + 3
                       [] pc'[t] = "type" -> size - typed'[t] + 2
                       [] pc'[t] = "hold" -> 2
                       [] pc'[t] = "handback" -> 1
                       [] OTHER -> 0
      BY DEF Left
    <3> HIDE DEF size
    <3>4. more \in Nat
      BY <3>1
    <3> HIDE DEF more
    <3>5. pc'[t] = "type" => size - typed'[t] + 2 \in Nat
      BY <3>1, <3>2
    <3> QED  BY <3>3, <3>4, <3>5
  <2>3. Step(t) => Left(t)' < Left(t)
    BY StepAdvances
  <2>4. ~Step(t) => Left(t)' = Left(t)
    <3>1. ASSUME ~Step(t) PROVE pc'[t] = pc[t] /\ tries'[t] = tries[t] /\ typed'[t] = typed[t]
      <4>1. CASE \E u \in Calls : Step(u)
        BY <3>1, <4>1, StepAdvances
      <4>2. CASE ~ \E u \in Calls : Step(u)
        BY <4>2 DEF Next, vars, locals, RawInput, HumanSwitches
      <4> QED  BY <4>1, <4>2
    <3> QED  BY <3>1, LeftKept
  <2> QED  BY <2>1, <2>2, <2>3, <2>4
<1> QED
  BY <1>1, Invariance, PTL DEF Spec, CallsAdvance, KeystrokeInv
================================================================================

--------------------------- MODULE ExitNotifyProofs ---------------------------
(***************************************************************************)
(* Proofs about ExitNotify, for any number of threads, workers and         *)
(* callbacks, any nesting of registrations and any set of panicking        *)
(* callbacks.  The invariant is built in four layers, each of which may    *)
(* use the ones before it: types, control (who holds the mutex, where the  *)
(* watcher is), phase (what Pending and Exited imply) and places (where    *)
(* each callback is).                                                      *)
(***************************************************************************)
EXTENDS ExitNotify, TLAPS

LEMMA EmptyInSeq == ASSUME NEW S PROVE <<>> \in Seq(S)
OBVIOUS

\* The elements of a sequence over S are in S.
LEMMA ToSetRange == ASSUME NEW S, NEW s \in Seq(S) PROVE ToSet(s) \subseteq S
BY DEF ToSet

LEMMA CatEmpty == ASSUME NEW S, NEW x \in S PROVE Len(<<x>> \o <<>>) = 1
OBVIOUS

LEMMA TailShort ==
  ASSUME NEW S, NEW s \in Seq(S), s # <<>>, Len(s) <= 1
  PROVE  Tail(s) = <<>>
OBVIOUS

\* Every variable of ExitNotify stays in its range.
THEOREM TypeCorrect == Spec => []TypeOK
<1>1. Init => TypeOK
  BY AgentsAssumption, CallbacksAssumption, CodesAssumption
     DEF Init, TypeOK, CodeOrRunning, CallbackOrNone, PCs
<1>2. TypeOK /\ [Next]_vars => TypeOK'
  <2> SUFFICES ASSUME TypeOK, [Next]_vars PROVE TypeOK'
    OBVIOUS
  <2> USE DEF TypeOK, shared, runtime, history
  <2>1. CASE ProcessExits
    BY <2>1 DEF ProcessExits, CodeOrRunning
  <2>2. ASSUME NEW t \in Threads, NEW c \in Callbacks, OnExit(t, c) PROVE TypeOK'
    BY <2>2 DEF OnExit, Call, WrapWithRuntimeDispatch, Agents, CallbackOrNone, PCs
  <2>3. CASE RuntimeStops
    BY <2>3 DEF RuntimeStops
  <2>4. CASE WatcherWakes
    BY <2>4 DEF WatcherWakes, PCs
  <2>5. CASE Swap
    <3>1. pending' \in Seq(Callbacks) /\ todo' \in [Agents -> Seq(Callbacks)]
      BY <2>5, EmptyInSeq DEF Swap
    <3>2. status' \in CodeOrRunning /\ pc' \in [Agents -> PCs]
      BY <2>5, CodesAssumption DEF Swap, CodeOrRunning, PCs
    <3> QED
      BY <2>5, <3>1, <3>2 DEF Swap, Unlock
  <2>6. ASSUME NEW w \in Workers, WorkerTakes(w) PROVE TypeOK'
    BY <2>6 DEF WorkerTakes, EnterBody, Agents, CallbackOrNone, PCs
  <2>7. ASSUME NEW a \in Agents, LockState(a) PROVE TypeOK'
    BY <2>7 DEF LockState, Lock, PCs
  <2>8. ASSUME NEW a \in Agents, Push(a) PROVE TypeOK'
    BY <2>8 DEF Push, Unlock, Queue, CallbackOrNone, PCs
  <2>9. ASSUME NEW a \in Agents, FireNow(a) PROVE TypeOK'
    BY <2>9 DEF FireNow, Unlock, Cons, CallbackOrNone, PCs
  <2>10. ASSUME NEW a \in Agents, Invoke(a) PROVE TypeOK'
    BY <2>10 DEF Invoke, EnterBody, CallbackOrNone, PCs
  <2>11. ASSUME NEW a \in Agents, Post(a) PROVE TypeOK'
    BY <2>11 DEF Post
  <2>12. ASSUME NEW a \in Agents, BodyCallsOnExit(a) PROVE TypeOK'
    BY <2>12 DEF BodyCallsOnExit, Call, WrapWithRuntimeDispatch, CallbackOrNone, PCs
  <2>13. ASSUME NEW a \in Agents, BodyReturns(a) PROVE TypeOK'
    BY <2>13 DEF BodyReturns, PCs
  <2>14. ASSUME NEW a \in Agents, BodyPanics(a) PROVE TypeOK'
    <3>1. todo[a] \in Seq(Callbacks)
      OBVIOUS
    <3>2. ToSet(todo[a]) \subseteq Callbacks
      BY <3>1, ToSetRange
    <3>3. todo' \in [Agents -> Seq(Callbacks)]
      BY <2>14, EmptyInSeq DEF BodyPanics
    <3> QED
      BY <2>14, <3>2, <3>3 DEF BodyPanics, PCs
  <2>15. CASE UNCHANGED vars
    BY <2>15 DEF vars
  <2> QED
    BY <2>1, <2>2, <2>3, <2>4, <2>5, <2>6, <2>7, <2>8, <2>9, <2>10, <2>11,
       <2>12, <2>13, <2>14, <2>15 DEF Next, Step
<1>3. QED
  BY <1>1, <1>2, PTL DEF Spec
-------------------------------------------------------------------------------
\* Control and phase are inductive together with the types.
LEMMA ControlStep ==
  ASSUME TypeOK, ControlInv, PhaseInv, [Next]_vars
  PROVE  ControlInv'
<1> USE AgentsAssumption, CallbacksAssumption, CodesAssumption
    DEF TypeOK, ControlInv, LockOnlyInSection, Agents, CallbackOrNone,
        CodeOrRunning, PCs, shared, runtime, history
<1>1. CASE ProcessExits
  BY <1>1 DEF ProcessExits
<1>2. ASSUME NEW t \in Threads, NEW c \in Callbacks, OnExit(t, c) PROVE ControlInv'
  BY <1>2 DEF OnExit, Call, WrapWithRuntimeDispatch
<1>3. CASE RuntimeStops
  BY <1>3 DEF RuntimeStops
<1>4. CASE WatcherWakes
  BY <1>4 DEF WatcherWakes
<1>5. CASE Swap
  BY <1>5 DEF Swap, Unlock
<1>6. ASSUME NEW w \in Workers, WorkerTakes(w) PROVE ControlInv'
  BY <1>6, PhaseInv DEF WorkerTakes, EnterBody
<1>7. ASSUME NEW a \in Agents, LockState(a) PROVE ControlInv'
  BY <1>7 DEF LockState, Lock
<1>8. ASSUME NEW a \in Agents, Push(a) PROVE ControlInv'
  BY <1>8 DEF Push, Unlock
<1>9. ASSUME NEW a \in Agents, FireNow(a) PROVE ControlInv'
  <2>1. ASSUME NEW b \in Agents \ {Watcher} PROVE Len(todo'[b]) <= 1
    <3>1. CASE b = a
      BY <1>9, <3>1, CatEmpty DEF FireNow, Cons
    <3>2. CASE b # a
      BY <1>9, <3>2 DEF FireNow
    <3> QED
      BY <3>1, <3>2
  <2> QED
    BY <1>9, <2>1 DEF FireNow, Unlock
<1>10. ASSUME NEW a \in Agents, Invoke(a) PROVE ControlInv'
  <2>1. a # Watcher => Tail(todo[a]) = <<>>
    BY <1>10, TailShort DEF Invoke
  <2> QED
    BY <1>10, <2>1 DEF Invoke, EnterBody
<1>11. ASSUME NEW a \in Agents, Post(a) PROVE ControlInv'
  <2>1. a # Watcher => Tail(todo[a]) = <<>>
    BY <1>11, TailShort DEF Post
  <2> QED
    BY <1>11, <2>1 DEF Post
<1>12. ASSUME NEW a \in Agents, BodyCallsOnExit(a) PROVE ControlInv'
  BY <1>12 DEF BodyCallsOnExit, Call, WrapWithRuntimeDispatch
<1>13. ASSUME NEW a \in Agents, BodyReturns(a) PROVE ControlInv'
  BY <1>13 DEF BodyReturns
<1>14. ASSUME NEW a \in Agents, BodyPanics(a) PROVE ControlInv'
  BY <1>14 DEF BodyPanics
<1>15. CASE UNCHANGED vars
  BY <1>15 DEF vars
<1> QED
  BY <1>1, <1>2, <1>3, <1>4, <1>5, <1>6, <1>7, <1>8, <1>9, <1>10, <1>11,
     <1>12, <1>13, <1>14, <1>15 DEF Next, Step

LEMMA PhaseStep ==
  ASSUME TypeOK, ControlInv, PhaseInv, [Next]_vars
  PROVE  PhaseInv'
<1> USE AgentsAssumption, CodesAssumption
    DEF TypeOK, PhaseInv, Agents, CodeOrRunning, shared, runtime, history
<1>1. CASE ProcessExits
  BY <1>1 DEF ProcessExits
<1>2. ASSUME NEW t \in Threads, NEW c \in Callbacks, OnExit(t, c) PROVE PhaseInv'
  BY <1>2, ControlInv DEF OnExit, Call, WrapWithRuntimeDispatch, ControlInv
<1>3. CASE RuntimeStops
  BY <1>3 DEF RuntimeStops
<1>4. CASE WatcherWakes
  BY <1>4 DEF WatcherWakes
<1>5. CASE Swap
  BY <1>5 DEF Swap, Unlock
<1>6. ASSUME NEW w \in Workers, WorkerTakes(w) PROVE PhaseInv'
  BY <1>6, ControlInv DEF WorkerTakes, EnterBody, ControlInv
<1>7. ASSUME NEW a \in Agents, LockState(a) PROVE PhaseInv'
  BY <1>7 DEF LockState, Lock
<1>8. ASSUME NEW a \in Agents, Push(a) PROVE PhaseInv'
  BY <1>8 DEF Push, Unlock
<1>9. ASSUME NEW a \in Agents, FireNow(a) PROVE PhaseInv'
  BY <1>9 DEF FireNow, Unlock
<1>10. ASSUME NEW a \in Agents, Invoke(a) PROVE PhaseInv'
  BY <1>10 DEF Invoke, EnterBody
<1>11. ASSUME NEW a \in Agents, Post(a) PROVE PhaseInv'
  BY <1>11 DEF Post
<1>12. ASSUME NEW a \in Agents, BodyCallsOnExit(a) PROVE PhaseInv'
  BY <1>12 DEF BodyCallsOnExit, Call, WrapWithRuntimeDispatch
<1>13. ASSUME NEW a \in Agents, BodyReturns(a) PROVE PhaseInv'
  BY <1>13 DEF BodyReturns
<1>14. ASSUME NEW a \in Agents, BodyPanics(a) PROVE PhaseInv'
  BY <1>14 DEF BodyPanics
<1>15. CASE UNCHANGED vars
  BY <1>15 DEF vars
<1> QED
  BY <1>1, <1>2, <1>3, <1>4, <1>5, <1>6, <1>7, <1>8, <1>9, <1>10, <1>11,
     <1>12, <1>13, <1>14, <1>15 DEF Next, Step
-------------------------------------------------------------------------------
\* Sequences as the places they are: what Append, Cons and Tail do to the set of
\* elements and to the absence of repetitions.
LEMMA AppendPlace ==
  ASSUME NEW S, NEW s \in Seq(S), NEW e \in S
  PROVE  /\ ToSet(Append(s, e)) = ToSet(s) \cup {e}
         /\ IsInjective(s) /\ e \notin ToSet(s) => IsInjective(Append(s, e))
<1> DEFINE t == Append(s, e)
<1>1. /\ Len(s) \in Nat
      /\ DOMAIN s = 1 .. Len(s) /\ DOMAIN t = 1 .. Len(s) + 1
      /\ t[Len(s) + 1] = e
      /\ \A i \in 1 .. Len(s) : t[i] = s[i]
  OBVIOUS
<1> HIDE DEF t
<1>2. ToSet(t) = ToSet(s) \cup {e}
  BY <1>1 DEF ToSet
<1>3. ASSUME IsInjective(s), e \notin ToSet(s) PROVE IsInjective(t)
  BY <1>1, <1>3 DEF ToSet, IsInjective
<1> QED
  BY <1>2, <1>3 DEF t

LEMMA TailPlace ==
  ASSUME NEW S, NEW s \in Seq(S), s # <<>>
  PROVE  /\ ToSet(s) = {Head(s)} \cup ToSet(Tail(s))
         /\ Head(s) \in S
         /\ IsInjective(s) => Head(s) \notin ToSet(Tail(s)) /\ IsInjective(Tail(s))
<1>1. /\ Tail(s) \in Seq(S) /\ Len(Tail(s)) = Len(s) - 1 /\ Len(s) \in Nat \ {0}
      /\ \A i \in 1 .. Len(s) - 1 : Tail(s)[i] = s[i + 1]
      /\ Head(s) = s[1]
  OBVIOUS
<1>2. DOMAIN s = 1 .. Len(s) /\ DOMAIN Tail(s) = 1 .. Len(s) - 1
  BY <1>1
<1>3. ToSet(s) = {Head(s)} \cup ToSet(Tail(s))
  <2>1. ASSUME NEW x \in ToSet(s) PROVE x \in {Head(s)} \cup ToSet(Tail(s))
    <3>1. PICK i \in DOMAIN s : x = s[i]
      BY DEF ToSet
    <3>2. CASE i = 1
      BY <3>1, <3>2, <1>1
    <3>3. CASE i # 1
      <4>1. i - 1 \in DOMAIN Tail(s) /\ Tail(s)[i - 1] = x
        BY <3>1, <3>3, <1>1, <1>2
      <4> QED  BY <4>1 DEF ToSet
    <3> QED  BY <3>2, <3>3
  <2>2. ASSUME NEW x \in {Head(s)} \cup ToSet(Tail(s)) PROVE x \in ToSet(s)
    <3>1. CASE x = Head(s)
      BY <3>1, <1>1, <1>2 DEF ToSet
    <3>2. CASE x \in ToSet(Tail(s))
      <4>1. PICK i \in DOMAIN Tail(s) : x = Tail(s)[i]
        BY <3>2 DEF ToSet
      <4>2. i + 1 \in DOMAIN s /\ x = s[i + 1]
        BY <4>1, <1>1, <1>2
      <4> QED  BY <4>2 DEF ToSet
    <3> QED  BY <3>1, <3>2
  <2> QED  BY <2>1, <2>2
<1>4. ASSUME IsInjective(s) PROVE Head(s) \notin ToSet(Tail(s)) /\ IsInjective(Tail(s))
  BY <1>1, <1>2, <1>4 DEF ToSet, IsInjective
<1> QED
  BY <1>1, <1>2, <1>3, <1>4

LEMMA ConsPlace ==
  ASSUME NEW S, NEW s \in Seq(S), NEW e \in S
  PROVE  /\ ToSet(Cons(e, s)) = {e} \cup ToSet(s)
         /\ Cons(e, s) # <<>>
         /\ IsInjective(s) /\ e \notin ToSet(s) => IsInjective(Cons(e, s))
<1> DEFINE t == Cons(e, s)
<1>1. /\ t \in Seq(S) /\ Len(t) = Len(s) + 1 /\ Len(s) \in Nat
      /\ t[1] = e
      /\ \A i \in 1 .. Len(s) : t[i + 1] = s[i]
  BY DEF Cons
<1>2. DOMAIN s = 1 .. Len(s) /\ DOMAIN t = 1 .. Len(s) + 1
  BY <1>1
<1> HIDE DEF t
<1>3. /\ \A i \in DOMAIN t : i = 1 \/ (i - 1 \in DOMAIN s /\ t[i] = s[i - 1])
      /\ \A i \in DOMAIN s : i + 1 \in DOMAIN t /\ t[i + 1] = s[i]
  BY <1>1, <1>2
<1>4. ToSet(t) = {e} \cup ToSet(s)
  BY <1>1, <1>2, <1>3 DEF ToSet
<1>5. ASSUME IsInjective(s), e \notin ToSet(s) PROVE IsInjective(t)
  BY <1>1, <1>2, <1>3, <1>5 DEF ToSet, IsInjective
<1>6. t # <<>>
  BY <1>1
<1> QED
  BY <1>4, <1>5, <1>6 DEF t
-------------------------------------------------------------------------------
\* The set of fired callbacks after one more body was entered, and what is left
\* of the bookkeeping when the log has not changed.
LEMMA LogPlace ==
  ASSUME TypeOK, NEW a \in Agents, NEW c \in Callbacks,
         log' = Append(log, [cb |-> c, by |-> a, status |-> status])
  PROVE  /\ Fired' = Fired \cup {c}
         /\ (\A i, j \in DOMAIN log : log[i].cb = log[j].cb => i = j) /\ c \notin Fired
            => (\A i, j \in DOMAIN log' : log'[i].cb = log'[j].cb => i = j)
<1> DEFINE e == [cb |-> c, by |-> a, status |-> status]
<1>1. /\ Len(log) \in Nat
      /\ DOMAIN log = 1 .. Len(log) /\ DOMAIN log' = 1 .. Len(log) + 1
      /\ log'[Len(log) + 1] = e
      /\ \A i \in 1 .. Len(log) : log'[i] = log[i]
  BY DEF TypeOK
<1>2. e.cb = c
  OBVIOUS
<1> HIDE DEF e
<1>3. Fired' = Fired \cup {c}
  BY <1>1, <1>2 DEF Fired
<1>4. ASSUME \A i, j \in DOMAIN log : log[i].cb = log[j].cb => i = j, c \notin Fired
      PROVE  \A i, j \in DOMAIN log' : log'[i].cb = log'[j].cb => i = j
  BY <1>1, <1>2, <1>4 DEF Fired
<1> QED
  BY <1>3, <1>4

LEMMA PlaceStep ==
  ASSUME TypeOK, ControlInv, PhaseInv, NoRepeats, OnePlace, [Next]_vars
  PROVE  NoRepeats' /\ OnePlace'
<1> USE DEF shared, runtime, history
<1>1. CASE ProcessExits
  BY <1>1 DEF ProcessExits, NoRepeats, OnePlace, Own, InHand, Fired, Registered
<1>2. ASSUME NEW a \in Agents, NEW c \in Callbacks, Call(a, c), pc[a] \notin {"lock", "locked"},
             UNCHANGED <<exitCode, shared, todo, runtime, queued, log, dropped>>
      PROVE  NoRepeats' /\ OnePlace'
  <2>1. c \notin Registered /\ Registered' = Registered \cup {c}
    BY <1>2, AgentsAssumption DEF Call, WrapWithRuntimeDispatch, Registered, TypeOK
  <2>2. \A b \in Agents : InHand(b)' = IF b = a THEN {c} ELSE InHand(b)
    BY <1>2, CallbacksAssumption DEF Call, InHand, TypeOK
  <2>3. InHand(a) = {}
    BY <1>2 DEF InHand
  <2>4. /\ \A b \in Agents : ToSet(todo[b])' = ToSet(todo[b])
        /\ ToSet(pending)' = ToSet(pending) /\ Fired' = Fired
        /\ tasks' = tasks /\ dropped' = dropped
    BY <1>2 DEF Fired
  <2>5. OnePlace'
    BY <2>1, <2>2, <2>3, <2>4 DEF OnePlace, Own
  <2>6. NoRepeats'
    BY <1>2 DEF NoRepeats
  <2> QED  BY <2>5, <2>6
<1>3. CASE RuntimeStops
  <2>1. \A b \in Agents : Own(b)' = Own(b) /\ InHand(b)' = InHand(b) /\ ToSet(todo[b])' = ToSet(todo[b])
    BY <1>3 DEF RuntimeStops, Own, InHand
  <2>2. /\ Registered' = Registered /\ ToSet(pending)' = ToSet(pending) /\ Fired' = Fired
        /\ tasks' = {} /\ dropped' = dropped \cup tasks
    BY <1>3 DEF RuntimeStops, Fired, Registered
  <2>3. OnePlace'
    BY <2>1, <2>2 DEF OnePlace
  <2>4. NoRepeats'
    BY <1>3 DEF RuntimeStops, NoRepeats
  <2> QED  BY <2>3, <2>4
<1>4. ASSUME UNCHANGED <<exitCode, shared, todo, wrapped, runtime, history>>,
             \A b \in Agents : InHand(b)' = InHand(b)
      PROVE  NoRepeats' /\ OnePlace'
  <2>1. /\ Registered' = Registered /\ ToSet(pending)' = ToSet(pending) /\ Fired' = Fired
        /\ tasks' = tasks /\ dropped' = dropped
        /\ \A b \in Agents : ToSet(todo[b])' = ToSet(todo[b])
    BY <1>4 DEF Fired, Registered
  <2>2. \A b \in Agents : Own(b)' = Own(b)
    BY <2>1, <1>4 DEF Own
  <2>3. OnePlace'
    BY <2>1, <2>2, <1>4 DEF OnePlace
  <2> QED  BY <2>3, <1>4 DEF NoRepeats
<1>5. CASE Swap
  <2>1. \A b \in Agents : InHand(b)' = InHand(b)
    BY <1>5, AgentsAssumption DEF Swap, InHand, TypeOK
  <2>2. Watcher \in Agents /\ todo[Watcher] = <<>>
    BY <1>5 DEF Swap, PhaseInv, ControlInv, Agents
  <2>3. ToSet(todo[Watcher]) = {}
    BY <2>2 DEF ToSet
  <2>4. /\ ToSet(todo[Watcher])' = ToSet(pending)
        /\ \A b \in Agents \ {Watcher} : ToSet(todo[b])' = ToSet(todo[b])
    BY <1>5, <2>2 DEF Swap, TypeOK
  <2>5. ToSet(pending)' = {}
    BY <1>5 DEF Swap, ToSet
  <2>6. Registered' = Registered /\ Fired' = Fired /\ tasks' = tasks /\ dropped' = dropped
    BY <1>5 DEF Swap, Fired, Registered
  <2>7. OnePlace'
    BY <2>1, <2>2, <2>3, <2>4, <2>5, <2>6 DEF OnePlace, Own
  <2>8. IsInjective(pending)'
    BY <1>5 DEF Swap, IsInjective
  <2>9. NoRepeats'
    BY <1>5, <2>2, <2>8 DEF Swap, NoRepeats, TypeOK
  <2> QED  BY <2>7, <2>9
<1>6. ASSUME NEW w \in Workers, WorkerTakes(w) PROVE NoRepeats' /\ OnePlace'
  <2>1. PICK c \in tasks : EnterBody(w, c) /\ tasks' = tasks \ {c}
    BY <1>6 DEF WorkerTakes
  <2>2. w \in Agents /\ c \in Callbacks
    BY DEF Agents, TypeOK
  <2>3. \A b \in Agents : InHand(b)' = InHand(b)
    BY <1>6, <2>1 DEF WorkerTakes, EnterBody, InHand, TypeOK
  <2>4. /\ Registered' = Registered /\ ToSet(pending)' = ToSet(pending) /\ dropped' = dropped
        /\ \A b \in Agents : ToSet(todo[b])' = ToSet(todo[b])
    BY <1>6 DEF WorkerTakes, Registered
  <2>5. Fired' = Fired \cup {c} /\ c \notin Fired
    BY <2>1, <2>2, LogPlace DEF EnterBody, OnePlace
  <2>6. OnePlace'
    BY <2>1, <2>3, <2>4, <2>5 DEF OnePlace, Own
  <2>7. NoRepeats'
    BY <1>6, <2>1, <2>2, <2>5, LogPlace DEF WorkerTakes, EnterBody, NoRepeats
  <2> QED  BY <2>6, <2>7
<1>7. ASSUME NEW a \in Agents, LockState(a) PROVE NoRepeats' /\ OnePlace'
  <2>1. \A b \in Agents : InHand(b)' = InHand(b)
    BY <1>7 DEF LockState, InHand, TypeOK
  <2> QED  BY <1>4, <1>7, <2>1 DEF LockState, OnePlace, NoRepeats, Own, Fired, Registered
<1>8. ASSUME NEW a \in Agents, Push(a) PROVE NoRepeats' /\ OnePlace'
  <2>1. InHand(a) = {arg[a]} /\ arg[a] \in Callbacks
    BY <1>8 DEF Push, InHand, TypeOK, CallbackOrNone
  <2>2. \A b \in Agents : InHand(b)' = IF b = a THEN {} ELSE InHand(b)
    BY <1>8 DEF Push, InHand, TypeOK
  <2>3. /\ Registered' = Registered /\ Fired' = Fired /\ tasks' = tasks /\ dropped' = dropped
        /\ \A b \in Agents : ToSet(todo[b])' = ToSet(todo[b])
    BY <1>8 DEF Push, Registered, Fired
  <2>4. /\ ToSet(pending)' = ToSet(pending) \cup {arg[a]}
        /\ arg[a] \notin ToSet(pending)
        /\ IsInjective(pending)'
    BY <1>8, <2>1, AppendPlace DEF Push, Queue, OnePlace, Own, NoRepeats, TypeOK
  <2>5. OnePlace'
    BY <2>1, <2>2, <2>3, <2>4 DEF OnePlace, Own
  <2>6. NoRepeats'
    BY <1>8, <2>4 DEF Push, NoRepeats
  <2> QED  BY <2>5, <2>6
<1>9. ASSUME NEW a \in Agents, FireNow(a) PROVE NoRepeats' /\ OnePlace'
  <2>1. InHand(a) = {arg[a]} /\ arg[a] \in Callbacks
    BY <1>9 DEF FireNow, InHand, TypeOK, CallbackOrNone
  <2>2. \A b \in Agents : InHand(b)' = IF b = a THEN {} ELSE InHand(b)
    BY <1>9 DEF FireNow, InHand, TypeOK
  <2>3. /\ Registered' = Registered /\ Fired' = Fired /\ tasks' = tasks /\ dropped' = dropped
        /\ ToSet(pending)' = ToSet(pending)
        /\ \A b \in Agents \ {a} : ToSet(todo[b])' = ToSet(todo[b])
    BY <1>9 DEF FireNow, Registered, Fired, TypeOK
  <2>4. /\ ToSet(todo[a])' = {arg[a]} \cup ToSet(todo[a])
        /\ IsInjective(todo[a])'
    <3>1. todo[a] \in Seq(Callbacks) /\ todo'[a] = Cons(arg[a], todo[a])
      BY <1>9 DEF FireNow, TypeOK
    <3>2. arg[a] \notin ToSet(todo[a]) /\ IsInjective(todo[a])
      BY <2>1 DEF OnePlace, NoRepeats
    <3> QED  BY <3>1, <3>2, <2>1, ConsPlace
  <2>5. OnePlace'
    BY <2>1, <2>2, <2>3, <2>4 DEF OnePlace, Own
  <2>6. NoRepeats'
    BY <1>9, <2>4 DEF FireNow, NoRepeats, TypeOK
  <2> QED  BY <2>5, <2>6
<1>10. ASSUME NEW a \in Agents, Invoke(a) PROVE NoRepeats' /\ OnePlace'
  <2> DEFINE c == Head(todo[a])
  <2>1. todo[a] \in Seq(Callbacks) /\ todo[a] # <<>> /\ todo'[a] = Tail(todo[a])
    BY <1>10 DEF Invoke, TypeOK
  <2>2. /\ c \in Callbacks /\ ToSet(todo[a]) = {c} \cup ToSet(todo[a])'
        /\ c \notin ToSet(todo[a])' /\ IsInjective(todo[a])'
    BY <2>1, TailPlace DEF NoRepeats
  <2>3. \A b \in Agents : InHand(b)' = InHand(b)
    BY <1>10 DEF Invoke, EnterBody, InHand, TypeOK
  <2>4. /\ Registered' = Registered /\ ToSet(pending)' = ToSet(pending)
        /\ tasks' = tasks /\ dropped' = dropped
        /\ \A b \in Agents \ {a} : ToSet(todo[b])' = ToSet(todo[b])
    BY <1>10 DEF Invoke, Registered, TypeOK
  <2>5. c \notin Fired
    BY <2>2 DEF OnePlace, Own
  <2>6. log' = Append(log, [cb |-> c, by |-> a, status |-> status])
    BY <1>10 DEF Invoke, EnterBody
  <2> HIDE DEF c
  <2>7. Fired' = Fired \cup {c}
    BY <2>2, <2>6, LogPlace
  <2>8. OnePlace'
    BY <2>2, <2>3, <2>4, <2>5, <2>7 DEF OnePlace, Own
  <2>9. \A i, j \in DOMAIN log' : log'[i].cb = log'[j].cb => i = j
    BY <2>2, <2>5, <2>6, LogPlace DEF NoRepeats
  <2>10. NoRepeats'
    BY <1>10, <2>2, <2>9 DEF Invoke, NoRepeats, TypeOK
  <2> QED  BY <2>8, <2>10
<1>11. ASSUME NEW a \in Agents, Post(a) PROVE NoRepeats' /\ OnePlace'
  <2> DEFINE c == Head(todo[a])
  <2>1. todo[a] \in Seq(Callbacks) /\ todo[a] # <<>> /\ todo'[a] = Tail(todo[a])
    BY <1>11 DEF Post, TypeOK
  <2>2. /\ c \in Callbacks /\ ToSet(todo[a]) = {c} \cup ToSet(todo[a])'
        /\ c \notin ToSet(todo[a])' /\ IsInjective(todo[a])'
    BY <2>1, TailPlace DEF NoRepeats
  <2>3. \A b \in Agents : InHand(b)' = InHand(b)
    BY <1>11 DEF Post, InHand
  <2>4. /\ Registered' = Registered /\ ToSet(pending)' = ToSet(pending) /\ Fired' = Fired
        /\ \A b \in Agents \ {a} : ToSet(todo[b])' = ToSet(todo[b])
    BY <1>11 DEF Post, Registered, Fired, TypeOK
  <2>5. \/ tasks' = tasks \cup {c} /\ dropped' = dropped
        \/ dropped' = dropped \cup {c} /\ tasks' = tasks
    BY <1>11 DEF Post
  <2> HIDE DEF c
  <2>6. OnePlace'
    BY <2>2, <2>3, <2>4, <2>5 DEF OnePlace, Own
  <2>7. NoRepeats'
    BY <1>11, <2>2 DEF Post, NoRepeats, TypeOK
  <2> QED  BY <2>6, <2>7
<1>12. ASSUME NEW a \in Agents, BodyReturns(a) PROVE NoRepeats' /\ OnePlace'
  <2>1. \A b \in Agents : InHand(b)' = InHand(b)
    BY <1>12 DEF BodyReturns, InHand, TypeOK
  <2> QED  BY <1>12, <1>4, <2>1 DEF BodyReturns
<1>13. ASSUME NEW a \in Agents, BodyPanics(a) PROVE NoRepeats' /\ OnePlace'
  <2>1. \A b \in Agents : InHand(b)' = InHand(b)
    BY <1>13 DEF BodyPanics, InHand, TypeOK
  <2>2. CASE a \in Workers
    BY <1>13, <1>4, <2>1, <2>2 DEF BodyPanics
  <2>3. CASE a \notin Workers
    <3>1. /\ ToSet(todo[a])' = {} /\ IsInjective(todo[a])'
          /\ \A b \in Agents \ {a} : ToSet(todo[b])' = ToSet(todo[b])
      BY <1>13, <2>3 DEF BodyPanics, TypeOK, ToSet, IsInjective
    <3>2. /\ Registered' = Registered /\ ToSet(pending)' = ToSet(pending) /\ Fired' = Fired
          /\ tasks' = tasks /\ dropped' = dropped \cup ToSet(todo[a])
      BY <1>13, <2>3 DEF BodyPanics, Registered, Fired
    <3>3. OnePlace'
      BY <2>1, <3>1, <3>2 DEF OnePlace, Own
    <3>4. NoRepeats'
      BY <1>13, <2>3, <3>1 DEF BodyPanics, NoRepeats, TypeOK
    <3> QED  BY <3>3, <3>4
  <2> QED  BY <2>2, <2>3
<1>14. CASE WatcherWakes
  <2>1. \A b \in Agents : InHand(b)' = InHand(b)
    BY <1>14 DEF WatcherWakes, InHand, TypeOK, ControlInv
  <2> QED  BY <1>14, <1>4, <2>1 DEF WatcherWakes
<1>15. CASE UNCHANGED vars
  <2>1. \A b \in Agents : InHand(b)' = InHand(b)
    BY <1>15 DEF vars, InHand
  <2> QED  BY <1>15, <1>4, <2>1 DEF vars
<1>16. ASSUME NEW t \in Threads, NEW c \in Callbacks, OnExit(t, c)
       PROVE  NoRepeats' /\ OnePlace'
  BY <1>16, <1>2 DEF OnExit, Agents
<1>17. ASSUME NEW a \in Agents, BodyCallsOnExit(a)
       PROVE  NoRepeats' /\ OnePlace'
  BY <1>17, <1>2 DEF BodyCallsOnExit
<1> QED
  BY <1>1, <1>3, <1>5, <1>6, <1>7, <1>8, <1>9, <1>10, <1>11, <1>12, <1>13,
     <1>14, <1>15, <1>16, <1>17 DEF Next, Step
-------------------------------------------------------------------------------
LEMMA SeqElement == ASSUME NEW S, NEW s \in Seq(S), NEW i \in DOMAIN s PROVE s[i] \in S
OBVIOUS

LEMMA FiredRange == ASSUME TypeOK PROVE Fired \subseteq Callbacks
<1>1. ASSUME NEW i \in DOMAIN log PROVE log[i].cb \in Callbacks
  <2>1. log \in Seq([cb : Callbacks, by : Agents, status : CodeOrRunning])
    BY DEF TypeOK
  <2>2. log[i] \in [cb : Callbacks, by : Agents, status : CodeOrRunning]
    BY <2>1, SeqElement
  <2> QED  BY <2>2
<1> QED
  BY <1>1 DEF Fired

LEMMA OwnerStep ==
  ASSUME TypeOK, ControlInv, OnePlace, OwnerInv, [Next]_vars
  PROVE  OwnerInv'
<1> USE DEF shared, runtime, history
<1>1. ASSUME UNCHANGED <<wrapped, caller, log>>, tasks' \subseteq tasks,
             \A b \in Agents : InHand(b)' \subseteq InHand(b),
             \A b \in Agents \ {Watcher} : ToSet(todo[b])' \subseteq Own(b)
      PROVE  OwnerInv'
  <2>1. Registered' = Registered
    BY <1>1 DEF Registered
  <2> QED  BY <1>1, <2>1 DEF OwnerInv, RunsWhereRegistered, Own
<1>2. ASSUME NEW a \in Agents, NEW c \in Callbacks, Call(a, c),
             pc[a] \notin {"lock", "locked"}, UNCHANGED <<todo, tasks, log>>
      PROVE  OwnerInv'
  <2>1. c \notin Registered /\ Registered' = Registered \cup {c} /\ caller'[c] = a
    BY <1>2, AgentsAssumption DEF Call, WrapWithRuntimeDispatch, Registered, TypeOK
  <2>2. \A b \in Agents : InHand(b)' = IF b = a THEN {c} ELSE InHand(b)
    BY <1>2, CallbacksAssumption DEF Call, InHand, TypeOK
  <2>3. \A d \in Callbacks \ {c} : caller'[d] = caller[d]
    BY <1>2 DEF Call, WrapWithRuntimeDispatch, TypeOK
  <2>4. wrapped' = {d \in Registered' : caller'[d] \in InRuntime}
    BY <1>2, <2>1, <2>3 DEF Call, WrapWithRuntimeDispatch, OwnerInv, Registered
  <2>5. \A b \in Agents : InHand(b) \subseteq Registered /\ ToSet(todo[b]) \subseteq Registered
    <3>1. \A b \in Agents : InHand(b) \subseteq Callbacks /\ ToSet(todo[b]) \subseteq Callbacks
      BY ToSetRange DEF TypeOK, InHand, CallbackOrNone
    <3> QED  BY <3>1 DEF OnePlace, Own
  <2>6. Fired \subseteq Registered
    BY FiredRange DEF OnePlace
  <2>7. Registered \subseteq Callbacks
    BY DEF Registered
  <2>8. RunsWhereRegistered'
    <3>1. \A i \in DOMAIN log : log[i].cb \in Fired
      BY DEF Fired
    <3>2. \A i \in DOMAIN log : caller'[log[i].cb] = caller[log[i].cb]
      BY <3>1, <2>1, <2>3, <2>6, <2>7
    <3> QED  BY <3>2, <1>2 DEF OwnerInv, RunsWhereRegistered
  <2>9. tasks' \subseteq wrapped'
    BY <1>2 DEF Call, WrapWithRuntimeDispatch, OwnerInv
  <2>10. \A b \in Agents : \A d \in InHand(b)' : caller'[d] = b
    BY <2>1, <2>2, <2>3, <2>5, <2>7 DEF OwnerInv
  <2>11. \A b \in Agents \ {Watcher} : \A d \in ToSet(todo[b])' : caller'[d] = b
    BY <1>2, <2>1, <2>3, <2>5, <2>7 DEF OwnerInv
  <2> QED  BY <2>4, <2>8, <2>9, <2>10, <2>11 DEF OwnerInv
<1>3. ASSUME NEW a \in Agents, NEW c \in Callbacks,
             log' = Append(log, [cb |-> c, by |-> a, status |-> status]),
             a \in Workers <=> caller[c] \in InRuntime, caller' = caller
      PROVE  OwnerInv => RunsWhereRegistered'
  <2>1. /\ DOMAIN log' = 1 .. Len(log) + 1 /\ DOMAIN log = 1 .. Len(log) /\ Len(log) \in Nat
        /\ \A i \in 1 .. Len(log) : log'[i] = log[i]
        /\ log'[Len(log) + 1].cb = c /\ log'[Len(log) + 1].by = a
    BY <1>3 DEF TypeOK
  <2> QED  BY <1>3, <2>1 DEF OwnerInv, RunsWhereRegistered
<1>4. CASE ProcessExits
  BY <1>4, <1>1 DEF ProcessExits, InHand, Own
<1>5. CASE RuntimeStops
  BY <1>5, <1>1 DEF RuntimeStops, InHand, Own
<1>6. CASE WatcherWakes
  <2>1. \A b \in Agents : InHand(b)' = InHand(b)
    BY <1>6 DEF WatcherWakes, InHand, TypeOK, ControlInv
  <2> QED  BY <1>6, <1>1, <2>1 DEF WatcherWakes, Own
<1>7. CASE Swap
  <2>1. \A b \in Agents : InHand(b)' \subseteq InHand(b)
    BY <1>7 DEF Swap, InHand, TypeOK
  <2>2. \A b \in Agents \ {Watcher} : todo'[b] = todo[b]
    BY <1>7 DEF Swap, TypeOK
  <2> QED  BY <1>7, <1>1, <2>1, <2>2 DEF Swap, Own
<1>8. ASSUME NEW w \in Workers, WorkerTakes(w) PROVE OwnerInv'
  <2>1. PICK c \in tasks : EnterBody(w, c) /\ tasks' = tasks \ {c}
    BY <1>8 DEF WorkerTakes
  <2>2. w \in Agents /\ c \in Callbacks
    BY DEF Agents, TypeOK
  <2>3. \A b \in Agents : InHand(b)' = InHand(b)
    BY <1>8, <2>1 DEF WorkerTakes, EnterBody, InHand, TypeOK
  <2>4. caller[c] \in InRuntime
    BY <2>1 DEF OwnerInv
  <2>5. RunsWhereRegistered'
    BY <1>8, <2>1, <2>2, <2>4, <1>3 DEF WorkerTakes, EnterBody
  <2>6. Registered' = Registered
    BY <1>8 DEF WorkerTakes, Registered
  <2> QED  BY <1>8, <2>1, <2>3, <2>5, <2>6 DEF WorkerTakes, OwnerInv
<1>9. ASSUME NEW a \in Agents, LockState(a) PROVE OwnerInv'
  <2>1. \A b \in Agents : InHand(b)' = InHand(b)
    BY <1>9 DEF LockState, InHand, TypeOK
  <2> QED  BY <1>9, <1>1, <2>1 DEF LockState, Own
<1>10. ASSUME NEW a \in Agents, Push(a) PROVE OwnerInv'
  <2>1. \A b \in Agents : InHand(b)' \subseteq InHand(b)
    BY <1>10 DEF Push, InHand, TypeOK
  <2> QED  BY <1>10, <1>1, <2>1 DEF Push, Own
<1>11. ASSUME NEW a \in Agents, FireNow(a) PROVE OwnerInv'
  <2>1. \A b \in Agents : InHand(b)' \subseteq InHand(b)
    BY <1>11 DEF FireNow, InHand, TypeOK
  <2>2. InHand(a) = {arg[a]} /\ arg[a] \in Callbacks
    BY <1>11 DEF FireNow, InHand, TypeOK, CallbackOrNone
  <2>3. todo[a] \in Seq(Callbacks) /\ todo'[a] = Cons(arg[a], todo[a])
    BY <1>11 DEF FireNow, TypeOK
  <2>4. ToSet(todo[a])' = {arg[a]} \cup ToSet(todo[a])
    BY <2>2, <2>3, ConsPlace
  <2>5. \A b \in Agents : ToSet(todo[b])' \subseteq Own(b)
    BY <1>11, <2>2, <2>4 DEF FireNow, Own, TypeOK
  <2> QED  BY <1>11, <1>1, <2>1, <2>5 DEF FireNow
<1>12. ASSUME NEW a \in Agents, Invoke(a) PROVE OwnerInv'
  <2> DEFINE c == Head(todo[a])
  <2>1. todo[a] \in Seq(Callbacks) /\ todo[a] # <<>> /\ todo'[a] = Tail(todo[a])
    BY <1>12 DEF Invoke, TypeOK
  <2>2. c \in Callbacks /\ ToSet(todo[a]) = {c} \cup ToSet(todo[a])'
    BY <2>1, TailPlace
  <2>3. \A b \in Agents : InHand(b)' = InHand(b)
    BY <1>12 DEF Invoke, EnterBody, InHand, TypeOK
  <2>4. \A b \in Agents \ {Watcher} : ToSet(todo[b])' \subseteq ToSet(todo[b])
    BY <1>12, <2>2 DEF Invoke, TypeOK
  <2>5. c \in Registered /\ c \notin wrapped /\ caller[c] \notin InRuntime
    BY <1>12, <2>2 DEF Invoke, OnePlace, Own, OwnerInv
  <2>6. a \notin Workers
    BY <2>2, <2>5, AgentsAssumption DEF OwnerInv
  <2>7. log' = Append(log, [cb |-> c, by |-> a, status |-> status])
    BY <1>12 DEF Invoke, EnterBody
  <2> HIDE DEF c
  <2>8. RunsWhereRegistered'
    BY <1>12, <1>3, <2>2, <2>5, <2>6, <2>7 DEF Invoke
  <2>9. Registered' = Registered
    BY <1>12 DEF Invoke, Registered
  <2> QED  BY <1>12, <2>3, <2>4, <2>8, <2>9 DEF Invoke, OwnerInv
<1>13. ASSUME NEW a \in Agents, Post(a) PROVE OwnerInv'
  <2> DEFINE c == Head(todo[a])
  <2>1. todo[a] \in Seq(Callbacks) /\ todo[a] # <<>> /\ todo'[a] = Tail(todo[a])
    BY <1>13 DEF Post, TypeOK
  <2>2. c \in Callbacks /\ ToSet(todo[a]) = {c} \cup ToSet(todo[a])'
    BY <2>1, TailPlace
  <2>3. \A b \in Agents : InHand(b)' = InHand(b)
    BY <1>13 DEF Post, InHand
  <2>4. \A b \in Agents \ {Watcher} : ToSet(todo[b])' \subseteq ToSet(todo[b])
    BY <1>13, <2>2 DEF Post, TypeOK
  <2>5. tasks' \subseteq wrapped
    BY <1>13 DEF Post, OwnerInv
  <2>6. Registered' = Registered /\ UNCHANGED <<wrapped, caller, log>>
    BY <1>13 DEF Post, Registered
  <2> QED  BY <2>3, <2>4, <2>5, <2>6 DEF OwnerInv, RunsWhereRegistered
<1>14. ASSUME NEW a \in Agents, BodyReturns(a) PROVE OwnerInv'
  <2>1. \A b \in Agents : InHand(b)' = InHand(b)
    BY <1>14 DEF BodyReturns, InHand, TypeOK
  <2> QED  BY <1>14, <1>1, <2>1 DEF BodyReturns, Own
<1>15. ASSUME NEW a \in Agents, BodyPanics(a) PROVE OwnerInv'
  <2>1. \A b \in Agents : InHand(b)' = InHand(b)
    BY <1>15 DEF BodyPanics, InHand, TypeOK
  <2>2. \A b \in Agents : ToSet(todo[b])' \subseteq ToSet(todo[b])
    <3>1. ASSUME NEW b \in Agents PROVE todo'[b] = todo[b] \/ todo'[b] = <<>>
      BY <1>15 DEF BodyPanics, TypeOK
    <3> QED  BY <3>1 DEF ToSet
  <2> QED  BY <1>15, <1>1, <2>1, <2>2 DEF BodyPanics, Own
<1>16. CASE UNCHANGED vars
  <2>1. \A b \in Agents : InHand(b)' = InHand(b)
    BY <1>16 DEF vars, InHand
  <2> QED  BY <1>16, <1>1, <2>1 DEF vars, Own
<1>17. ASSUME NEW t \in Threads, NEW c \in Callbacks, OnExit(t, c) PROVE OwnerInv'
  BY <1>17, <1>2 DEF OnExit, Agents
<1>18. ASSUME NEW a \in Agents, BodyCallsOnExit(a) PROVE OwnerInv'
  BY <1>18, <1>2 DEF BodyCallsOnExit
<1> QED
  BY <1>4, <1>5, <1>6, <1>7, <1>8, <1>9, <1>10, <1>11, <1>12, <1>13, <1>14,
     <1>15, <1>16, <1>17, <1>18 DEF Next, Step
-------------------------------------------------------------------------------
\* The four layers together: where every thread and every callback is.
THEOREM Invariance == Spec => []Inv
<1>1. Init => Inv
  <2> SUFFICES ASSUME Init PROVE Inv
    OBVIOUS
  <2>1. ControlInv
    BY AgentsAssumption DEF Init, ControlInv, LockOnlyInSection, Agents
  <2>2. PhaseInv
    BY DEF Init, PhaseInv, Agents
  <2>3. NoRepeats
    BY DEF Init, NoRepeats, IsInjective
  <2>4. /\ ToSet(pending) = {} /\ Fired = {} /\ Registered = {}
        /\ \A a \in Agents : InHand(a) = {} /\ ToSet(todo[a]) = {}
    BY DEF Init, ToSet, Fired, Registered, InHand
  <2>5. OnePlace
    BY <2>4 DEF Init, OnePlace, Own
  <2>6. OwnerInv
    BY <2>4 DEF Init, OwnerInv, RunsWhereRegistered
  <2> QED
    BY <2>1, <2>2, <2>3, <2>5, <2>6 DEF Inv
<1>2. TypeOK /\ Inv /\ [Next]_vars => Inv'
  BY ControlStep, PhaseStep, PlaceStep, OwnerStep DEF Inv
<1>3. QED
  BY <1>1, <1>2, TypeCorrect, PTL DEF Spec

\* No callback body is entered twice, and none before the process has exited.
THEOREM FiresOnce == Spec => []FiredOnceAfterExit
<1>1. TypeOK /\ Inv => FiredOnceAfterExit
  BY DEF Inv, PhaseInv, ControlInv, NoRepeats, FiredOnceAfterExit, Agents
<1>2. QED
  BY <1>1, TypeCorrect, Invariance, PTL

\* No callback body runs while its thread holds the ExitState mutex.
THEOREM LockDiscipline == Spec => []LockOnlyInSection
<1>1. Inv => LockOnlyInSection
  BY DEF Inv, ControlInv
<1>2. QED
  BY <1>1, Invariance, PTL

\* Every registered callback that is not settled is where a live thread finds it.
THEOREM Conservation == Spec => []NoneForgotten
<1>1. TypeOK /\ Inv => NoneForgotten
  <2> SUFFICES ASSUME TypeOK, Inv, NEW c \in Registered \ (Fired \cup dropped)
               PROVE  \/ \E a \in Agents : c \in InHand(a)
                      \/ /\ c \in ToSet(pending) /\ status = Running
                         /\ pc[Watcher] \in {"watch", "lock", "locked"}
                      \/ \E a \in Agents : c \in ToSet(todo[a]) /\ pc[a] # "dead"
                      \/ c \in tasks /\ runtimeUp
    BY DEF NoneForgotten
  <2>1. c \in Callbacks
    BY DEF Registered
  <2>2. \/ \E a \in Agents : c \in InHand(a) \/ c \in ToSet(todo[a])
        \/ c \in ToSet(pending)
        \/ c \in tasks
    BY <2>1 DEF Inv, OnePlace, Own
  <2>3. \A a \in Agents : c \in ToSet(todo[a]) => pc[a] # "dead"
    BY DEF Inv, ControlInv, ToSet
  <2>4. c \in ToSet(pending) => status = Running
    BY DEF Inv, PhaseInv, ToSet
  <2>5. status = Running => pc[Watcher] \in {"watch", "lock", "locked"}
    BY DEF Inv, ControlInv
  <2>6. c \in tasks => runtimeUp
    BY DEF Inv, PhaseInv
  <2> QED
    BY <2>2, <2>3, <2>4, <2>5, <2>6
<1>2. QED
  BY <1>1, TypeCorrect, Invariance, PTL

\* A wrapped callback runs on a worker of its runtime and no other callback does.
THEOREM RightThread == Spec => []RunsWhereRegistered
<1>1. Inv => RunsWhereRegistered
  BY DEF Inv, OwnerInv
<1>2. QED
  BY <1>1, Invariance, PTL

\* A panic loses no callback but those of the watcher's own vector.
THEOREM PanicContained == Spec => []PanicIsContained
<1>1. Init => PanicIsContained
  BY DEF Init, PanicIsContained
<1>2. TypeOK /\ Inv /\ PanicIsContained /\ [Next]_vars => PanicIsContained'
  <2> SUFFICES ASSUME TypeOK, Inv, PanicIsContained, [Next]_vars
               PROVE  PanicIsContained'
    OBVIOUS
  <2>1. ASSUME dropped' = dropped, runtimeUp' = runtimeUp,
               pc[Watcher] = "dead" => pc'[Watcher] = "dead"
        PROVE  PanicIsContained'
    BY <2>1 DEF PanicIsContained
  <2> USE DEF shared, runtime, history
  <2>2. CASE ProcessExits
    BY <2>1, <2>2 DEF ProcessExits
  <2>3. CASE RuntimeStops
    BY <2>3 DEF RuntimeStops, PanicIsContained
  <2>4. CASE WatcherWakes
    BY <2>1, <2>4 DEF WatcherWakes
  <2>5. CASE Swap
    BY <2>1, <2>5 DEF Swap
  <2>6. ASSUME NEW a \in Agents, pc[a] # "dead", dropped' = dropped, runtimeUp' = runtimeUp,
               \/ pc' = pc
               \/ \E l \in PCs : pc' = [pc EXCEPT ![a] = l]
        PROVE  PanicIsContained'
    <3>1. pc \in [Agents -> PCs]
      BY DEF TypeOK
    <3>2. pc[Watcher] = "dead" => pc'[Watcher] = "dead"
      <4>1. CASE pc' = pc
        BY <4>1
      <4>2. CASE \E l \in PCs : pc' = [pc EXCEPT ![a] = l]
        BY <2>6, <3>1, <4>2
      <4> QED  BY <2>6, <4>1, <4>2
    <3> QED  BY <2>1, <2>6, <3>2
  <2>7. ASSUME NEW t \in Threads, NEW c \in Callbacks, OnExit(t, c) PROVE PanicIsContained'
    BY <2>6, <2>7 DEF OnExit, Call, WrapWithRuntimeDispatch, Agents, PCs
  <2>8. ASSUME NEW w \in Workers, WorkerTakes(w) PROVE PanicIsContained'
    BY <2>6, <2>8 DEF WorkerTakes, EnterBody, Agents, PCs
  <2>9. ASSUME NEW a \in Agents, LockState(a) PROVE PanicIsContained'
    BY <2>6, <2>9 DEF LockState, PCs
  <2>10. ASSUME NEW a \in Agents, Push(a) PROVE PanicIsContained'
    BY <2>6, <2>10 DEF Push, PCs
  <2>11. ASSUME NEW a \in Agents, FireNow(a) PROVE PanicIsContained'
    BY <2>6, <2>11 DEF FireNow, PCs
  <2>12. ASSUME NEW a \in Agents, Invoke(a) PROVE PanicIsContained'
    BY <2>6, <2>12 DEF Invoke, EnterBody, PCs
  <2>13. ASSUME NEW a \in Agents, Post(a) PROVE PanicIsContained'
    BY <2>6, <2>13 DEF Post, PanicIsContained
  <2>14. ASSUME NEW a \in Agents, BodyCallsOnExit(a) PROVE PanicIsContained'
    BY <2>6, <2>14 DEF BodyCallsOnExit, Call, WrapWithRuntimeDispatch, PCs
  <2>15. ASSUME NEW a \in Agents, BodyReturns(a) PROVE PanicIsContained'
    BY <2>6, <2>15 DEF BodyReturns, PCs
  <2>16. ASSUME NEW a \in Agents, BodyPanics(a) PROVE PanicIsContained'
    <3>1. CASE a \in Workers
      BY <2>6, <2>16, <3>1 DEF BodyPanics, PCs
    <3>2. CASE a \notin Workers /\ a = Watcher
      <4>1. pc'[Watcher] = "dead"
        BY <2>16, <3>2 DEF BodyPanics, TypeOK
      <4> QED  BY <4>1 DEF PanicIsContained
    <3>3. CASE a \notin Workers /\ a # Watcher
      <4>1. ToSet(todo[a]) = {}
        BY <2>16, <3>3 DEF BodyPanics, Inv, ControlInv, ToSet
      <4>2. dropped' = dropped
        BY <2>16, <3>3, <4>1 DEF BodyPanics
      <4>3. pc[Watcher] = "dead" => pc'[Watcher] = "dead"
        <5>1. pc' = [pc EXCEPT ![a] = "dead"] /\ pc \in [Agents -> PCs]
          BY <2>16, <3>3 DEF BodyPanics, TypeOK
        <5> QED  BY <5>1, <3>3
      <4>4. runtimeUp' = runtimeUp
        BY <2>16 DEF BodyPanics
      <4> QED  BY <2>1, <4>2, <4>3, <4>4
    <3> QED  BY <3>1, <3>2, <3>3
  <2>17. CASE UNCHANGED vars
    BY <2>1, <2>17 DEF vars
  <2> QED
    BY <2>2, <2>3, <2>4, <2>5, <2>7, <2>8, <2>9, <2>10, <2>11, <2>12, <2>13,
       <2>14, <2>15, <2>16, <2>17 DEF Next, Step
<1>3. QED
  BY <1>1, <1>2, TypeCorrect, Invariance, PTL DEF Spec
-------------------------------------------------------------------------------
\* Before depends on the queue alone, and says nothing of a callback outside it.
LEMMA NeverQueued ==
  ASSUME NEW c, NEW d, c \notin ToSet(queued) \/ d \notin ToSet(queued)
  PROVE  Before(c, d)
BY DEF Before, ToSet

LEMMA QueueSorted ==
  ASSUME IsInjective(queued), queued \in Seq(Callbacks), NEW i \in DOMAIN queued,
         NEW j \in DOMAIN queued, i < j
  PROVE  Before(queued[i], queued[j])
BY DEF Before, IsInjective

\* The order survives a step that queues nothing and takes nothing but a
\* callback off the watcher's list.
LEMMA OrderKept ==
  ASSUME TypeOK, OrderInv, UNCHANGED <<queued, status>>,
         status = Running => pending' = pending,
         Registered \subseteq Registered',
         \A a \in Agents : InHand(a)' \cap ToSet(queued) = {}
  PROVE  /\ UNCHANGED log /\ todo'[Watcher] \in {todo[Watcher], <<>>} => OrderInv'
         /\ \A c, d : Before(c, d)' <=> Before(c, d)
<1>1. \A c, d : Before(c, d)' <=> Before(c, d)
  BY DEF Before
<1>2. ASSUME UNCHANGED log, todo'[Watcher] \in {todo[Watcher], <<>>} PROVE OrderInv'
  <2>1. /\ \A i, j \in DOMAIN todo'[Watcher] :
             i < j => Before(todo'[Watcher][i], todo'[Watcher][j])
        /\ \A c \in ToSet(todo'[Watcher]) : c \in ToSet(todo[Watcher])
    BY <1>2 DEF OrderInv, ToSet
  <2>2. FiredInOrder'
    BY <1>2 DEF OrderInv, FiredInOrder
  <2>3. \A i \in DOMAIN log' : log'[i].by = Watcher =>
          \A c \in ToSet(todo'[Watcher]) : Before(log'[i].cb, c)
    BY <1>2, <2>1 DEF OrderInv
  <2>4. /\ status' = Running => pending' = queued'
        /\ IsInjective(queued') /\ ToSet(queued') \subseteq Registered'
        /\ \A a \in Agents : InHand(a)' \cap ToSet(queued') = {}
    BY DEF OrderInv
  <2> QED  BY <1>1, <2>1, <2>2, <2>3, <2>4 DEF OrderInv
<1> QED  BY <1>1, <1>2

\* A body entered by an agent that is not the watcher does not touch the order.
LEMMA OrderOfOthers ==
  ASSUME TypeOK, OrderInv, UNCHANGED <<queued, status, pending, todo, caller>>,
         \A a \in Agents : InHand(a)' = InHand(a),
         NEW b \in Agents, b # Watcher, NEW c \in Callbacks,
         log' = Append(log, [cb |-> c, by |-> b, status |-> status])
  PROVE  OrderInv'
<1>1. \A x, y : Before(x, y)' <=> Before(x, y)
  BY DEF Before
<1>2. \A i \in DOMAIN log' : log'[i].by = Watcher => i \in DOMAIN log /\ log'[i] = log[i]
  BY DEF TypeOK
<1>3. FiredInOrder'
  BY <1>2 DEF OrderInv, FiredInOrder
<1>4. \A i \in DOMAIN log' : log'[i].by = Watcher =>
        \A x \in ToSet(todo'[Watcher]) : Before(log'[i].cb, x)
  BY <1>2 DEF OrderInv
<1>5. Registered' = Registered
  BY DEF Registered
<1> QED  BY <1>1, <1>3, <1>4, <1>5 DEF OrderInv

LEMMA OrderStep ==
  ASSUME TypeOK, Inv, OrderInv, [Next]_vars
  PROVE  OrderInv'
<1> USE DEF shared, runtime, history
<1>0. Watcher \in Agents /\ Watcher \notin Workers
  BY AgentsAssumption DEF Agents
<1>1. \A a \in Agents : InHand(a) \cap ToSet(queued) = {}
  BY DEF OrderInv
<1>2. ASSUME NEW a \in Agents, NEW c \in Callbacks, Call(a, c),
             UNCHANGED <<exitCode, shared, todo, runtime, queued, log, dropped>>
      PROVE  OrderInv'
  <2>1. c \notin Registered /\ Registered' = Registered \cup {c}
    BY <1>2, AgentsAssumption DEF Call, WrapWithRuntimeDispatch, Registered, TypeOK
  <2>2. \A b \in Agents : InHand(b)' = IF b = a THEN {c} ELSE InHand(b)
    BY <1>2, CallbacksAssumption DEF Call, InHand, TypeOK
  <2>3. c \notin ToSet(queued)
    BY <2>1 DEF OrderInv
  <2> QED  BY <1>1, <1>2, <2>1, <2>2, <2>3, OrderKept
<1>3. CASE ProcessExits
  BY <1>1, <1>3, OrderKept DEF ProcessExits, InHand, Registered
<1>4. CASE RuntimeStops
  BY <1>1, <1>4, OrderKept DEF RuntimeStops, InHand, Registered
<1>5. CASE WatcherWakes
  <2>1. \A b \in Agents : InHand(b)' = InHand(b)
    BY <1>5 DEF WatcherWakes, InHand, TypeOK, Inv, ControlInv
  <2> QED  BY <1>1, <1>5, <2>1, OrderKept DEF WatcherWakes, Registered
<1>6. CASE Swap
  <2>1. status = Running /\ log = <<>>
    BY <1>6 DEF Swap, Inv, PhaseInv, ControlInv
  <2>2. todo'[Watcher] = queued /\ queued' = queued /\ log' = log /\ status' # Running
    BY <1>0, <1>6, <2>1, CodesAssumption DEF Swap, OrderInv, TypeOK
  <2>3. \A b \in Agents : InHand(b)' \subseteq InHand(b)
    BY <1>6 DEF Swap, InHand, TypeOK
  <2>4. \A i, j \in DOMAIN queued : i < j => Before(queued[i], queued[j])
    BY QueueSorted DEF OrderInv, TypeOK
  <2>5. \A c, d : Before(c, d)' <=> Before(c, d)
    BY <2>2 DEF Before
  <2>6. FiredInOrder'
    BY <2>1, <2>2 DEF FiredInOrder
  <2>7. Registered' = Registered
    BY <1>6 DEF Swap, Registered
  <2> QED  BY <1>1, <2>1, <2>2, <2>3, <2>4, <2>5, <2>6, <2>7 DEF OrderInv
<1>7. ASSUME NEW w \in Workers, WorkerTakes(w) PROVE OrderInv'
  <2>1. PICK c \in tasks : EnterBody(w, c)
    BY <1>7 DEF WorkerTakes
  <2>2. w \in Agents /\ w # Watcher /\ c \in Callbacks
    BY <1>0 DEF Agents, TypeOK
  <2>3. \A b \in Agents : InHand(b)' = InHand(b)
    BY <1>7, <2>1 DEF WorkerTakes, EnterBody, InHand, TypeOK
  <2> QED  BY <1>7, <2>1, <2>2, <2>3, OrderOfOthers DEF WorkerTakes, EnterBody
<1>8. ASSUME NEW a \in Agents, LockState(a) PROVE OrderInv'
  <2>1. \A b \in Agents : InHand(b)' = InHand(b)
    BY <1>8 DEF LockState, InHand, TypeOK
  <2> QED  BY <1>1, <1>8, <2>1, OrderKept DEF LockState, Registered
<1>9. ASSUME NEW a \in Agents, Push(a) PROVE OrderInv'
  <2> DEFINE c == arg[a]
  <2>1. InHand(a) = {c} /\ c \in Callbacks
    BY <1>9 DEF Push, InHand, TypeOK, CallbackOrNone
  <2>2. \A b \in Agents : InHand(b)' = IF b = a THEN {} ELSE InHand(b)
    BY <1>9 DEF Push, InHand, TypeOK
  <2>3. queued' = Append(queued, c) /\ pending' = Append(pending, c) /\ pending = queued
    BY <1>9 DEF Push, Queue, OrderInv
  <2>4. status' = Running /\ log' = <<>> /\ todo'[Watcher] = <<>>
    BY <1>0, <1>9 DEF Push, Inv, PhaseInv
  <2>5. c \in Registered /\ Registered' = Registered
    <3>1. c \in Own(a)
      BY <2>1 DEF Own
    <3> QED  BY <1>9, <2>1, <3>1 DEF Push, Registered, Inv, OnePlace
  <2>6. c \notin ToSet(queued)
    BY <1>1, <2>1
  <2>7. \A b \in Agents : c \notin InHand(b)'
    BY <2>1, <2>2 DEF Inv, OnePlace, Own
  <2>8. ToSet(queued') = ToSet(queued) \cup {c} /\ IsInjective(queued')
    BY <2>1, <2>3, <2>6, AppendPlace DEF OrderInv, TypeOK
  <2>9. FiredInOrder'
    BY <2>4 DEF FiredInOrder
  <2> HIDE DEF c
  <2>10. /\ ToSet(queued') \subseteq Registered'
         /\ \A b \in Agents : InHand(b)' \cap ToSet(queued') = {}
    BY <1>1, <2>2, <2>5, <2>7, <2>8 DEF OrderInv
  <2> QED  BY <2>3, <2>4, <2>8, <2>9, <2>10 DEF OrderInv
<1>10. ASSUME NEW a \in Agents, FireNow(a) PROVE OrderInv'
  <2> DEFINE c == arg[a]
             t == todo[Watcher]
             u == todo'[Watcher]
  <2>1. InHand(a) = {c} /\ c \in Callbacks
    BY <1>10 DEF FireNow, InHand, TypeOK, CallbackOrNone
  <2>2. \A b \in Agents : InHand(b)' \subseteq InHand(b)
    BY <1>10 DEF FireNow, InHand, TypeOK
  <2>3. UNCHANGED <<queued, status, pending, log, caller>> /\ Registered' = Registered
    BY <1>10 DEF FireNow, Registered
  <2>4. CASE a # Watcher
    <3>1. todo'[Watcher] = todo[Watcher]
      BY <1>0, <1>10, <2>4 DEF FireNow, TypeOK
    <3> QED  BY <1>1, <2>2, <2>3, <3>1, OrderKept
  <2>5. CASE a = Watcher
    <3>1. u = Cons(c, t) /\ t \in Seq(Callbacks)
      BY <1>0, <1>10, <2>5 DEF FireNow, TypeOK
    <3>2. c \notin ToSet(queued)
      BY <1>1, <2>1
    <3>3. /\ DOMAIN t = 1 .. Len(t) /\ DOMAIN u = 1 .. Len(t) + 1 /\ Len(t) \in Nat
          /\ u[1] = c /\ \A i \in 1 .. Len(t) : u[i + 1] = t[i]
      BY <2>1, <3>1 DEF Cons
    <3>4. ToSet(u) = {c} \cup ToSet(t)
      BY <2>1, <3>1, ConsPlace
    <3>5. \A x, y : Before(x, y)' <=> Before(x, y)
      BY <2>3 DEF Before
    <3>6. \A i, j \in DOMAIN t : i < j => Before(t[i], t[j])
      BY DEF OrderInv
    <3>7. \A i \in DOMAIN log : log[i].by = Watcher => \A x \in ToSet(t) : Before(log[i].cb, x)
      BY DEF OrderInv
    <3> HIDE DEF c, t, u
    <3>8. \A x : Before(c, x) /\ Before(x, c)
      BY <3>2, NeverQueued
    <3>9. ASSUME NEW i \in DOMAIN u, NEW j \in DOMAIN u, i < j PROVE Before(u[i], u[j])
      <4>1. CASE i = 1
        BY <3>3, <3>8, <4>1
      <4>2. CASE i # 1
        <5>1. i - 1 \in DOMAIN t /\ j - 1 \in DOMAIN t /\ i - 1 < j - 1
          BY <3>3, <3>9, <4>2
        <5>2. u[i] = t[i - 1] /\ u[j] = t[j - 1]
          BY <3>3, <3>9, <5>1
        <5> QED  BY <3>6, <5>1, <5>2
      <4> QED  BY <4>1, <4>2
    <3>10. \A i \in DOMAIN log : log[i].by = Watcher => \A x \in ToSet(u) : Before(log[i].cb, x)
      BY <3>4, <3>7, <3>8
    <3>11. FiredInOrder'
      BY <2>3 DEF OrderInv, FiredInOrder
    <3>12. /\ status' = Running => pending' = queued'
           /\ IsInjective(queued') /\ ToSet(queued') \subseteq Registered'
           /\ \A b \in Agents : InHand(b)' \cap ToSet(queued') = {}
      BY <1>1, <2>2, <2>3 DEF OrderInv
    <3> QED  BY <2>3, <3>5, <3>9, <3>10, <3>11, <3>12 DEF OrderInv, u
  <2> QED  BY <2>4, <2>5
<1>11. ASSUME NEW t \in Seq(Callbacks), t = todo[Watcher], t # <<>>, todo'[Watcher] = Tail(t),
              UNCHANGED <<queued, status, pending, caller>>,
              \A b \in Agents : InHand(b)' = InHand(b)
       PROVE  /\ \A x, y : Before(x, y)' <=> Before(x, y)
              /\ Head(t) \in ToSet(t) /\ ToSet(Tail(t)) \subseteq ToSet(t)
              /\ \A x \in ToSet(Tail(t)) : Before(Head(t), x)
              /\ \A i, j \in DOMAIN Tail(t) : i < j => Before(Tail(t)[i], Tail(t)[j])
              /\ status' = Running => pending' = queued'
              /\ IsInjective(queued') /\ ToSet(queued') \subseteq Registered'
              /\ \A b \in Agents : InHand(b)' \cap ToSet(queued') = {}
  <2>1. \A x, y : Before(x, y)' <=> Before(x, y)
    BY <1>11 DEF Before
  <2>2. ToSet(t) = {Head(t)} \cup ToSet(Tail(t))
    BY <1>11, TailPlace
  <2>3. /\ Len(t) \in Nat \ {0} /\ DOMAIN t = 1 .. Len(t) /\ DOMAIN Tail(t) = 1 .. Len(t) - 1
        /\ Head(t) = t[1] /\ \A i \in 1 .. Len(t) - 1 : Tail(t)[i] = t[i + 1]
    BY <1>11
  <2>4. \A i, j \in DOMAIN t : i < j => Before(t[i], t[j])
    BY <1>11 DEF OrderInv
  <2>5. ASSUME NEW x \in ToSet(Tail(t)) PROVE Before(Head(t), x)
    <3>1. PICK i \in DOMAIN Tail(t) : x = Tail(t)[i]
      BY <2>5 DEF ToSet
    <3>2. 1 \in DOMAIN t /\ i + 1 \in DOMAIN t /\ 1 < i + 1 /\ x = t[i + 1] /\ Head(t) = t[1]
      BY <2>3, <3>1
    <3> QED  BY <2>4, <3>2
  <2>6. ASSUME NEW i \in DOMAIN Tail(t), NEW j \in DOMAIN Tail(t), i < j
        PROVE  Before(Tail(t)[i], Tail(t)[j])
    <3>1. /\ i + 1 \in DOMAIN t /\ j + 1 \in DOMAIN t /\ i + 1 < j + 1
          /\ Tail(t)[i] = t[i + 1] /\ Tail(t)[j] = t[j + 1]
      BY <2>3, <2>6
    <3> QED  BY <2>4, <3>1
  <2>7. Registered' = Registered
    BY <1>11 DEF Registered
  <2> QED  BY <1>1, <1>11, <2>1, <2>2, <2>5, <2>6, <2>7 DEF OrderInv
<1>12. ASSUME NEW a \in Agents, Invoke(a) PROVE OrderInv'
  <2>1. /\ todo[a] \in Seq(Callbacks) /\ todo[a] # <<>> /\ todo'[a] = Tail(todo[a])
        /\ \A b \in Agents : InHand(b)' = InHand(b)
        /\ UNCHANGED <<queued, status, pending, caller>>
    BY <1>12 DEF Invoke, EnterBody, InHand, TypeOK
  <2>2. log' = Append(log, [cb |-> Head(todo[a]), by |-> a, status |-> status])
    BY <1>12 DEF Invoke, EnterBody
  <2>3. Head(todo[a]) \in Callbacks
    BY <2>1, TailPlace
  <2>4. /\ Len(log) \in Nat
        /\ DOMAIN log = 1 .. Len(log) /\ DOMAIN log' = 1 .. Len(log) + 1
        /\ log'[Len(log) + 1].cb = Head(todo[a]) /\ log'[Len(log) + 1].by = a
        /\ \A i \in 1 .. Len(log) : log'[i] = log[i]
    BY <2>2 DEF TypeOK
  <2>5. CASE a # Watcher
    <3>1. \A i \in DOMAIN log' : log'[i].by = Watcher => i \in DOMAIN log /\ log'[i] = log[i]
      BY <2>4, <2>5
    <3>2. todo'[Watcher] = todo[Watcher]
      BY <1>0, <1>12, <2>5 DEF Invoke, TypeOK
    <3>3. FiredInOrder'
      BY <2>1, <3>1 DEF OrderInv, FiredInOrder
    <3>4. \A i \in DOMAIN log' : log'[i].by = Watcher =>
            \A x \in ToSet(todo[Watcher]) : Before(log'[i].cb, x)
      BY <3>1 DEF OrderInv
    <3>5. \A x, y : Before(x, y)' <=> Before(x, y)
      BY <2>1 DEF Before
    <3>6. Registered' = Registered
      BY <2>1 DEF Registered
    <3> QED  BY <1>1, <2>1, <3>2, <3>3, <3>4, <3>5, <3>6 DEF OrderInv
  <2>6. CASE a = Watcher
    <3> DEFINE t == todo[Watcher]
               n == Len(log) + 1
    <3>1. /\ \A x, y : Before(x, y)' <=> Before(x, y)
          /\ Head(t) \in ToSet(t) /\ ToSet(Tail(t)) \subseteq ToSet(t)
          /\ \A x \in ToSet(Tail(t)) : Before(Head(t), x)
          /\ \A i, j \in DOMAIN Tail(t) : i < j => Before(Tail(t)[i], Tail(t)[j])
          /\ status' = Running => pending' = queued'
          /\ IsInjective(queued') /\ ToSet(queued') \subseteq Registered'
          /\ \A b \in Agents : InHand(b)' \cap ToSet(queued') = {}
      BY <1>11, <2>1, <2>6
    <3>2. todo'[Watcher] = Tail(t)
      BY <2>1, <2>6
    <3>3. \A i \in DOMAIN log : log[i].by = Watcher => \A x \in ToSet(t) : Before(log[i].cb, x)
      BY DEF OrderInv
    <3>4. \A i, j \in DOMAIN log : log[i].by = Watcher /\ log[j].by = Watcher /\ i < j
            => Before(log[i].cb, log[j].cb)
      BY DEF OrderInv, FiredInOrder, Before
    <3>5. log'[n].cb = Head(t)
      BY <2>4, <2>6
    <3> HIDE DEF t
    <3>6. ASSUME NEW i \in DOMAIN log', NEW x \in ToSet(Tail(t)), log'[i].by = Watcher
          PROVE  Before(log'[i].cb, x)
      <4>1. CASE i = n
        BY <3>1, <3>5, <4>1
      <4>2. CASE i # n
        BY <2>4, <3>1, <3>3, <3>6, <4>2
      <4> QED  BY <4>1, <4>2
    <3>7. ASSUME NEW i \in DOMAIN log', NEW j \in DOMAIN log', i < j,
                 log'[i].by = Watcher, log'[j].by = Watcher
          PROVE  Before(log'[i].cb, log'[j].cb)
      <4>1. i \in DOMAIN log /\ log'[i] = log[i]
        BY <2>4, <3>7
      <4>2. CASE j = n
        BY <3>1, <3>3, <3>5, <3>7, <4>1, <4>2
      <4>3. CASE j # n
        <5>1. j \in DOMAIN log /\ log'[j] = log[j]
          BY <2>4, <4>3
        <5> QED  BY <3>4, <3>7, <4>1, <5>1
      <4> QED  BY <4>2, <4>3
    <3>8. FiredInOrder'
      BY <2>1, <3>7 DEF FiredInOrder, Before
    <3> QED  BY <3>1, <3>2, <3>6, <3>8 DEF OrderInv
  <2> QED  BY <2>5, <2>6
<1>13. ASSUME NEW a \in Agents, Post(a) PROVE OrderInv'
  <2>1. /\ todo[a] \in Seq(Callbacks) /\ todo[a] # <<>> /\ todo'[a] = Tail(todo[a])
        /\ \A b \in Agents : InHand(b)' = InHand(b)
        /\ UNCHANGED <<queued, status, pending, caller, log>>
    BY <1>13 DEF Post, InHand, TypeOK
  <2>2. CASE a # Watcher
    <3>1. todo'[Watcher] = todo[Watcher]
      BY <1>0, <1>13, <2>2 DEF Post, TypeOK
    <3>2. Registered' = Registered
      BY <2>1 DEF Registered
    <3> QED  BY <1>1, <2>1, <3>1, <3>2, OrderKept
  <2>3. CASE a = Watcher
    <3> DEFINE t == todo[Watcher]
    <3>1. /\ \A x, y : Before(x, y)' <=> Before(x, y)
          /\ ToSet(Tail(t)) \subseteq ToSet(t)
          /\ \A i, j \in DOMAIN Tail(t) : i < j => Before(Tail(t)[i], Tail(t)[j])
          /\ status' = Running => pending' = queued'
          /\ IsInjective(queued') /\ ToSet(queued') \subseteq Registered'
          /\ \A b \in Agents : InHand(b)' \cap ToSet(queued') = {}
      BY <1>11, <2>1, <2>3
    <3>2. todo'[Watcher] = Tail(t)
      BY <2>1, <2>3
    <3>3. \A i \in DOMAIN log : log[i].by = Watcher => \A x \in ToSet(t) : Before(log[i].cb, x)
      BY DEF OrderInv
    <3>4. FiredInOrder'
      BY <2>1 DEF OrderInv, FiredInOrder
    <3> HIDE DEF t
    <3>5. \A i \in DOMAIN log' : log'[i].by = Watcher =>
            \A x \in ToSet(Tail(t)) : Before(log'[i].cb, x)
      BY <2>1, <3>1, <3>3
    <3> QED  BY <3>1, <3>2, <3>4, <3>5 DEF OrderInv
  <2> QED  BY <2>2, <2>3
<1>14. ASSUME NEW a \in Agents, BodyReturns(a) PROVE OrderInv'
  <2>1. \A b \in Agents : InHand(b)' = InHand(b)
    BY <1>14 DEF BodyReturns, InHand, TypeOK
  <2> QED  BY <1>1, <1>14, <2>1, OrderKept DEF BodyReturns, Registered
<1>15. ASSUME NEW a \in Agents, BodyPanics(a) PROVE OrderInv'
  <2>1. \A b \in Agents : InHand(b)' = InHand(b)
    BY <1>15 DEF BodyPanics, InHand, TypeOK
  <2>2. todo'[Watcher] \in {todo[Watcher], <<>>}
    BY <1>0, <1>15 DEF BodyPanics, TypeOK
  <2> QED  BY <1>1, <1>15, <2>1, <2>2, OrderKept DEF BodyPanics, Registered
<1>16. CASE UNCHANGED vars
  <2>1. \A b \in Agents : InHand(b)' = InHand(b)
    BY <1>16 DEF vars, InHand
  <2> QED  BY <1>1, <1>16, <2>1, OrderKept DEF vars, Registered
<1>17. ASSUME NEW t \in Threads, NEW c \in Callbacks, OnExit(t, c) PROVE OrderInv'
  BY <1>2, <1>17 DEF OnExit, Agents
<1>18. ASSUME NEW a \in Agents, BodyCallsOnExit(a) PROVE OrderInv'
  BY <1>2, <1>18 DEF BodyCallsOnExit
<1> QED
  BY <1>3, <1>4, <1>5, <1>6, <1>7, <1>8, <1>9, <1>10, <1>12, <1>13, <1>14,
     <1>15, <1>16, <1>17, <1>18 DEF Next, Step

\* The queued callbacks that run on the watcher run in registration order.
THEOREM InOrder == Spec => []FiredInOrder
<1>1. Init => OrderInv
  BY AgentsAssumption DEF Init, OrderInv, FiredInOrder, IsInjective, ToSet, InHand, Agents
<1>2. TypeOK /\ Inv /\ OrderInv /\ [Next]_vars => OrderInv'
  BY OrderStep
<1>3. OrderInv => FiredInOrder
  BY DEF OrderInv
<1>4. QED
  BY <1>1, <1>2, <1>3, TypeCorrect, Invariance, PTL DEF Spec
-------------------------------------------------------------------------------
\* A body that is entered is one more entry of the sequence that ExitOnce sees.
LEMMA RanGrows ==
  ASSUME TypeOK, NEW a \in Agents, NEW c \in Callbacks,
         log' = Append(log, [cb |-> c, by |-> a, status |-> status])
  PROVE  Ran' = Append(Ran, c)
<1> DEFINE e == [cb |-> c, by |-> a, status |-> status]
           n == Len(log)
<1>1. /\ n \in Nat /\ DOMAIN log = 1 .. n /\ DOMAIN log' = 1 .. n + 1
      /\ log'[n + 1] = e
      /\ \A i \in 1 .. n : log'[i] = log[i]
  BY DEF TypeOK
<1>2. e.cb = c /\ e.cb \in Callbacks
  OBVIOUS
<1>3. \A i \in 1 .. n : log[i].cb \in Callbacks
  <2> TAKE i \in 1 .. n
  <2> DEFINE Entry == [cb : Callbacks, by : Agents, status : CodeOrRunning]
  <2>1. log \in Seq(Entry)
    BY DEF TypeOK
  <2>2. \A r \in Entry : r.cb \in Callbacks
    OBVIOUS
  <2> HIDE DEF Entry
  <2>3. log[i] \in Entry
    BY <1>1, <2>1
  <2> QED  BY <2>2, <2>3
<1> HIDE DEF e, n
<1>4. Ran = [i \in 1 .. n |-> log[i].cb] /\ Ran \in Seq(Callbacks) /\ Len(Ran) = n
  BY <1>1, <1>3 DEF Ran
<1>5. Ran' = [i \in 1 .. n + 1 |-> log'[i].cb]
  BY <1>1 DEF Ran
<1>6. Append(Ran, c) = [i \in 1 .. n + 1 |-> IF i = n + 1 THEN c ELSE Ran[i]]
  BY <1>1, <1>2, <1>4
<1> QED  BY <1>1, <1>2, <1>4, <1>5, <1>6

\* on_exit implements ExitOnce: every step of a thread is a step of the promise
\* or changes nothing that the promise speaks of.
THEOREM Refinement == Spec => ImplementsExitOnce
<1> DEFINE MayDrop == Panicking # {} \/ RuntimeMayStop
<1>1. Init => Abs!Init
  BY AgentsAssumption DEF Init, Abs!Init, Registered, Ran
<1>2. TypeOK /\ Inv /\ [Next]_vars => [Abs!Next]_(Abs!vars)
  <2> SUFFICES ASSUME TypeOK, Inv, [Next]_vars PROVE [Abs!Next]_(Abs!vars)
    OBVIOUS
  <2> USE DEF shared, runtime, history
  <2>1. ASSUME UNCHANGED <<exitCode, caller, log, dropped>> PROVE UNCHANGED Abs!vars
    BY <2>1 DEF Abs!vars, Registered, Ran
  <2> DEFINE AbsSettled == {Ran[i] : i \in DOMAIN Ran} \cup dropped
  <2>17. Abs!Settled = AbsSettled /\ AbsSettled = Fired \cup dropped
    BY DEF Abs!Settled, Ran, Fired
  <2>2. ASSUME NEW a \in Agents, NEW c \in Callbacks, Call(a, c),
               UNCHANGED <<exitCode, log, dropped>>
        PROVE  Abs!Register(c)
    BY <2>2, AgentsAssumption DEF Call, WrapWithRuntimeDispatch, Abs!Register, Registered, Ran, TypeOK
  <2>3. ASSUME NEW a \in Agents, NEW c \in Callbacks, c \in Registered, c \notin Fired \cup dropped,
               log' = Append(log, [cb |-> c, by |-> a, status |-> status]),
               exitCode # Running, UNCHANGED <<exitCode, caller, dropped>>
        PROVE  Abs!Run(c)
    <3>1. Ran' = Append(Ran, c)
      BY <2>3, RanGrows
    <3> QED  BY <2>3, <2>17, <3>1 DEF Abs!Run, Registered
  <2>4. ASSUME NEW D \in SUBSET Callbacks, MayDrop, exitCode # Running,
               D \subseteq Registered \ (Fired \cup dropped), dropped' = dropped \cup D,
               UNCHANGED <<exitCode, caller, log>>
        PROVE  Abs!Drop(D)
    BY <2>4, <2>17 DEF Abs!Drop, Registered, Ran
  <2>5. status # Running => exitCode # Running
    BY DEF Inv, ControlInv, PhaseInv
  <2>6. CASE ProcessExits
    <3>1. Abs!Exit
      BY <2>6, CodesAssumption DEF ProcessExits, Abs!Exit, Registered, Ran
    <3> QED  BY <3>1 DEF Abs!Next
  <2>7. CASE RuntimeStops
    <3>1. CASE tasks = {}
      BY <2>1, <2>7, <3>1 DEF RuntimeStops
    <3>2. CASE tasks # {}
      <4>1. exitCode # Running
        BY <2>5, <3>2 DEF Inv, PhaseInv
      <4>2. tasks \in SUBSET Callbacks /\ tasks \subseteq Registered \ (Fired \cup dropped)
        BY DEF Inv, OnePlace, TypeOK
      <4>3. Abs!Drop(tasks)
        BY <2>4, <2>7, <4>1, <4>2 DEF RuntimeStops
      <4> QED  BY <4>2, <4>3 DEF Abs!Next
    <3> QED  BY <3>1, <3>2
  <2>8. ASSUME NEW w \in Workers, WorkerTakes(w) PROVE Abs!Next
    <3>1. PICK c \in tasks : EnterBody(w, c)
      BY <2>8 DEF WorkerTakes
    <3>2. c \in Callbacks /\ c \in Registered /\ c \notin Fired \cup dropped /\ exitCode # Running
      BY <2>5 DEF Inv, OnePlace, PhaseInv, TypeOK
    <3>3. Abs!Run(c)
      BY <2>3, <2>8, <3>1, <3>2 DEF WorkerTakes, EnterBody, Agents
    <3> QED  BY <3>2, <3>3 DEF Abs!Next
  <2>9. ASSUME NEW a \in Agents, Invoke(a) \/ Post(a)
        PROVE  /\ Head(todo[a]) \in Callbacks
               /\ Head(todo[a]) \in Registered \ (Fired \cup dropped)
               /\ exitCode # Running
    <3>1. todo[a] \in Seq(Callbacks) /\ todo[a] # <<>>
      BY <2>9 DEF Invoke, Post, TypeOK
    <3>2. Head(todo[a]) \in Callbacks /\ Head(todo[a]) \in ToSet(todo[a])
      BY <3>1, TailPlace
    <3> QED  BY <2>5, <3>1, <3>2 DEF Inv, OnePlace, Own, PhaseInv
  <2>10. ASSUME NEW a \in Agents, Invoke(a) PROVE Abs!Next
    <3>1. Abs!Run(Head(todo[a]))
      BY <2>3, <2>9, <2>10 DEF Invoke, EnterBody
    <3> QED  BY <2>9, <2>10, <3>1 DEF Abs!Next
  <2>11. ASSUME NEW a \in Agents, Post(a) PROVE [Abs!Next]_(Abs!vars)
    <3>1. CASE runtimeUp
      BY <2>1, <2>11, <3>1 DEF Post
    <3>2. CASE ~runtimeUp
      <4> DEFINE D == {Head(todo[a])}
      <4>1. D \in SUBSET Callbacks /\ D \subseteq Registered \ (Fired \cup dropped)
        BY <2>9, <2>11
      <4>2. RuntimeMayStop
        BY <3>2 DEF Inv, PhaseInv
      <4>3. dropped' = dropped \cup D /\ UNCHANGED <<exitCode, caller, log>>
        BY <2>11, <3>2 DEF Post
      <4> HIDE DEF D
      <4>4. Abs!Drop(D)
        BY <2>4, <2>9, <2>11, <4>1, <4>2, <4>3
      <4> QED  BY <4>1, <4>4 DEF Abs!Next
    <3> QED  BY <3>1, <3>2
  <2>12. ASSUME NEW a \in Agents, BodyPanics(a) PROVE [Abs!Next]_(Abs!vars)
    <3>1. CASE a \in Workers
      BY <2>1, <2>12, <3>1 DEF BodyPanics
    <3>2. CASE a \notin Workers
      <4>1. ToSet(todo[a]) \in SUBSET Callbacks
        BY ToSetRange DEF TypeOK
      <4>2. ToSet(todo[a]) \subseteq Registered \ (Fired \cup dropped)
        BY <4>1 DEF Inv, OnePlace, Own
      <4>3. Panicking # {} /\ exitCode # Running
        BY <2>5, <2>12 DEF BodyPanics, Inv, PhaseInv
      <4>4. dropped' = dropped \cup ToSet(todo[a]) /\ UNCHANGED <<exitCode, caller, log>>
        BY <2>12, <3>2 DEF BodyPanics
      <4>5. Abs!Drop(ToSet(todo[a]))
        BY <2>4, <4>1, <4>2, <4>3, <4>4
      <4> QED  BY <4>1, <4>5 DEF Abs!Next
    <3> QED  BY <3>1, <3>2
  <2>13. ASSUME NEW t \in Threads, NEW c \in Callbacks, OnExit(t, c) PROVE Abs!Next
    BY <2>2, <2>13 DEF OnExit, Agents, Abs!Next
  <2>14. ASSUME NEW a \in Agents, BodyCallsOnExit(a) PROVE Abs!Next
    BY <2>2, <2>14 DEF BodyCallsOnExit, Abs!Next
  <2>15. ASSUME NEW a \in Agents, LockState(a) \/ Push(a) \/ FireNow(a) \/ BodyReturns(a)
         PROVE  UNCHANGED Abs!vars
    BY <2>1, <2>15 DEF LockState, Push, FireNow, BodyReturns
  <2>16. CASE WatcherWakes \/ Swap \/ UNCHANGED vars
    BY <2>1, <2>16 DEF WatcherWakes, Swap, vars
  <2> QED
    BY <2>6, <2>7, <2>8, <2>10, <2>11, <2>12, <2>13, <2>14, <2>15, <2>16 DEF Next, Step
<1>3. QED
  BY <1>1, <1>2, TypeCorrect, Invariance, PTL DEF Spec, ImplementsExitOnce, Abs!Spec
===============================================================================

------------------------- MODULE DesktopMacOSProofs -------------------------
(***************************************************************************)
(* Proofs about DesktopMacOS for any number of apps, keys, presses and     *)
(* calls of focus: a key misses its target only if the target loses or     *)
(* gains the front against the key's route, a press that says Ok was       *)
(* swallowed only by an item that its app disabled after the last look,    *)
(* and the front comes back from every flash that nothing interferes with. *)
(***************************************************************************)
EXTENDS DesktopMacOS, TLAPS

\* A step keeps the ranges; that a key posts two events needs where it is.
LEMMA TypeStep ==
  ASSUME TypeOK, KeyInv, [Next]_vars
  PROVE  TypeOK'
<1> USE DesktopAssumption DEF Calls, Goto, moved, items
<1>1. ASSUME NEW c \in Calls, Call(c) PROVE TypeOK'
  BY <1>1 DEF TypeOK, Returned, KeyInv, Call, desktop, menus
<1>2. ASSUME NEW a \in Apps, Focus(a) PROVE TypeOK'
  <2>1. CASE PutInFront(a)
    <3>1. rightful' \in Apps \cup {NoApp}
      BY <2>1 DEF PutInFront
    <3> QED
      BY <1>2, <2>1, <3>1 DEF TypeOK, Focus, PutInFront, SwitchTo, menus
  <2>2. CASE ~PutInFront(a)
    BY <1>2, <2>2 DEF TypeOK, Focus, desktop, menus
  <2> QED
    BY <2>1, <2>2
<1>3. ASSUME NEW k \in Keys, Look(k) PROVE TypeOK'
  BY <1>3 DEF TypeOK, Returned, KeyInv, Look, desktop, menus
<1>4. ASSUME NEW k \in Keys, Post(k) PROVE TypeOK'
  BY <1>4 DEF TypeOK, Returned, KeyInv, Post, menus
<1>5. ASSUME NEW k \in Keys, Deliver(k) PROVE TypeOK'
  BY <1>5 DEF TypeOK, Returned, KeyInv, Deliver, desktop, menus
<1>6. ASSUME NEW c \in Presses, Walk(c) PROVE TypeOK'
  BY <1>6 DEF TypeOK, Returned, KeyInv, Walk, desktop, menus
<1>7. ASSUME NEW c \in Presses, LookAtItem(c) PROVE TypeOK'
  BY <1>7 DEF TypeOK, Returned, KeyInv, LookAtItem, GoPress
<1>8. ASSUME NEW c \in Presses, Remember(c) PROVE TypeOK'
  BY <1>8 DEF TypeOK, Returned, KeyInv, Remember, desktop
<1>9. ASSUME NEW c \in Presses, Flash(c) PROVE TypeOK'
  BY <1>9 DEF TypeOK, Returned, KeyInv, Flash, SetFront, SwitchTo, desktop, menus
<1>10. ASSUME NEW c \in Presses, LastLook(c) PROVE TypeOK'
  BY <1>10 DEF TypeOK, Returned, KeyInv, LastLook, GoPress, desktop
<1>11. ASSUME NEW c \in Presses, Press(c) PROVE TypeOK'
  BY <1>11 DEF TypeOK, Returned, KeyInv, Press, desktop
<1>12. ASSUME NEW c \in Presses, HandBack(c) PROVE TypeOK'
  <2>1. rightful' \in Apps \cup {NoApp}
    BY <1>12 DEF HandBack, TypeOK
  <2>2. CASE prev[c] # NoApp /\ prev[c] \notin gone /\ SwitchTo(prev[c])
    BY <1>12, <2>1, <2>2 DEF TypeOK, Returned, HandBack, SwitchTo
  <2>3. CASE UNCHANGED desktop
    BY <1>12, <2>1, <2>3 DEF TypeOK, Returned, HandBack, desktop
  <2> QED
    BY <1>12, <2>2, <2>3 DEF HandBack, SetFront
<1>13. ASSUME NEW a \in Apps, Validate(a) PROVE TypeOK'
  BY <1>13 DEF TypeOK, Returned, KeyInv, Validate, desktop, menus
<1>14. ASSUME NEW a \in Apps, PersonSwitches(a) PROVE TypeOK'
  BY <1>14 DEF TypeOK, Returned, KeyInv, PersonSwitches, PutInFront, SwitchTo, menus
<1>15. ASSUME NEW a \in Apps, AppExits(a) PROVE TypeOK'
  <2>1. CASE a = front
    <3>1. PICK b \in Apps \ gone' : PutInFront(b)
      BY <1>15, <2>1 DEF AppExits
    <3>2. rightful' \in Apps \cup {NoApp}
      BY <3>1 DEF PutInFront
    <3> QED
      BY <1>15, <3>1, <3>2 DEF TypeOK, AppExits, PutInFront, SwitchTo, menus
  <2>2. CASE a # front
    BY <1>15, <2>2 DEF TypeOK, AppExits, desktop, menus
  <2> QED
    BY <2>1, <2>2
<1>17. ASSUME NEW c \in Presses, AppGreys(c) PROVE TypeOK'
  BY <1>17 DEF TypeOK, Returned, KeyInv, AppGreys, desktop
<1>16. CASE UNCHANGED vars
  BY <1>16 DEF TypeOK, Returned, KeyInv, vars, desktop, menus
<1> QED
  BY <1>1, <1>2, <1>3, <1>4, <1>5, <1>6, <1>7, <1>8, <1>9, <1>10, <1>11, <1>12, <1>13, <1>14, <1>15, <1>16,
     <1>17 DEF Next, KeyStep, PressStep

\* A step keeps what a key knows of its target.
LEMMA KeyStepInv ==
  ASSUME TypeOK, KeyInv, [Next]_vars
  PROVE  KeyInv'
<1> USE DesktopAssumption DEF Calls, Goto, moved, items
<1>1. ASSUME NEW c \in Calls, Call(c) PROVE KeyInv'
  BY <1>1 DEF TypeOK, Returned, KeyInv, BySession, ToPrivate, Call, desktop, menus
<1>2. ASSUME NEW a \in Apps, Focus(a) PROVE KeyInv'
  BY <1>2 DEF TypeOK, Returned, KeyInv, BySession, ToPrivate, Focus, PutInFront, SwitchTo, desktop, menus
<1>3. ASSUME NEW k \in Keys, Look(k) PROVE KeyInv'
  BY <1>3 DEF TypeOK, Returned, KeyInv, BySession, ToPrivate, Look, desktop, menus
<1>4. ASSUME NEW k \in Keys, Post(k) PROVE KeyInv'
  <2>1. ASSUME NEW j \in Keys, j # k
        PROVE  pc'[j] = pc[j] /\ tap'[j] = tap[j] /\ private'[j] = private[j]
               /\ frontmost'[j] = frontmost[j]
    BY <1>4, <2>1 DEF Post, TypeOK
  <2>2. UNCHANGED <<front, lost, gained, stray>>
    BY <1>4 DEF Post
  <2>3. CASE pc'[k] = "failed"
    BY <1>4, <2>1, <2>2, <2>3 DEF TypeOK, KeyInv, BySession, ToPrivate, Post
  <2>4. CASE pc[k] = "down" /\ pc'[k] = "up"
    BY <1>4, <2>1, <2>2, <2>4 DEF TypeOK, KeyInv, BySession, ToPrivate, Post
  <2>5. CASE pc[k] = "up" /\ pc'[k] = "done"
    BY <1>4, <2>1, <2>2, <2>5 DEF TypeOK, KeyInv, BySession, ToPrivate, Post
  <2> QED
    BY <1>4, <2>3, <2>4, <2>5 DEF Post, TypeOK
<1>5. ASSUME NEW k \in Keys, Deliver(k) PROVE KeyInv'
  BY <1>5 DEF TypeOK, Returned, KeyInv, BySession, ToPrivate, Deliver, desktop, menus
<1>6. ASSUME NEW c \in Presses, Walk(c) PROVE KeyInv'
  BY <1>6 DEF TypeOK, Returned, KeyInv, BySession, ToPrivate, Walk, desktop, menus
<1>7. ASSUME NEW c \in Presses, LookAtItem(c) PROVE KeyInv'
  BY <1>7 DEF TypeOK, Returned, KeyInv, BySession, ToPrivate, LookAtItem, GoPress
<1>8. ASSUME NEW c \in Presses, Remember(c) PROVE KeyInv'
  BY <1>8 DEF TypeOK, Returned, KeyInv, BySession, ToPrivate, Remember, desktop
<1>9. ASSUME NEW c \in Presses, Flash(c) PROVE KeyInv'
  BY <1>9 DEF TypeOK, Returned, KeyInv, BySession, ToPrivate, Flash, SetFront, SwitchTo, desktop, menus
<1>10. ASSUME NEW c \in Presses, LastLook(c) PROVE KeyInv'
  BY <1>10 DEF TypeOK, Returned, KeyInv, BySession, ToPrivate, LastLook, GoPress, desktop
<1>11. ASSUME NEW c \in Presses, Press(c) PROVE KeyInv'
  BY <1>11 DEF TypeOK, Returned, KeyInv, BySession, ToPrivate, Press, desktop
<1>12. ASSUME NEW c \in Presses, HandBack(c) PROVE KeyInv'
  BY <1>12 DEF TypeOK, Returned, KeyInv, BySession, ToPrivate, HandBack, SetFront, SwitchTo, desktop
<1>13. ASSUME NEW a \in Apps, Validate(a) PROVE KeyInv'
  BY <1>13 DEF TypeOK, Returned, KeyInv, BySession, ToPrivate, Validate, desktop, menus
<1>14. ASSUME NEW a \in Apps, PersonSwitches(a) PROVE KeyInv'
  BY <1>14 DEF TypeOK, Returned, KeyInv, BySession, ToPrivate, PersonSwitches, PutInFront, SwitchTo, menus
<1>15. ASSUME NEW a \in Apps, AppExits(a) PROVE KeyInv'
  BY <1>15 DEF TypeOK, Returned, KeyInv, BySession, ToPrivate, AppExits, PutInFront, SwitchTo, desktop, menus
<1>17. ASSUME NEW c \in Presses, AppGreys(c) PROVE KeyInv'
  BY <1>17 DEF TypeOK, Returned, KeyInv, BySession, ToPrivate, AppGreys, desktop
<1>16. CASE UNCHANGED vars
  BY <1>16 DEF TypeOK, Returned, KeyInv, BySession, ToPrivate, vars, desktop, menus
<1> QED
  BY <1>1, <1>2, <1>3, <1>4, <1>5, <1>6, <1>7, <1>8, <1>9, <1>10, <1>11, <1>12, <1>13, <1>14, <1>15, <1>16,
     <1>17 DEF Next, KeyStep, PressStep

\* A step keeps what a press knows of its item: validation lasts, and an item that its
\* app disables after the last look is recorded in lapsed.
LEMMA PressStepInv ==
  ASSUME TypeOK, PressInv, PressActs, [Next]_vars
  PROVE  (PressInv /\ PressActs)'
<1> USE DesktopAssumption DEF Calls, Goto, moved, items
<1>1. ASSUME NEW c \in Calls, Call(c) PROVE (PressInv /\ PressActs)'
  BY <1>1 DEF TypeOK, Returned, PressInv, PressActs, Usable, Reads, Call, desktop, menus
<1>2. ASSUME NEW a \in Apps, Focus(a) PROVE (PressInv /\ PressActs)'
  BY <1>2 DEF TypeOK, Returned, PressInv, PressActs, Usable, Reads, Focus, PutInFront, SwitchTo, desktop, menus
<1>3. ASSUME NEW k \in Keys, Look(k) PROVE (PressInv /\ PressActs)'
  BY <1>3 DEF TypeOK, Returned, PressInv, PressActs, Usable, Reads, Look, desktop, menus
<1>4. ASSUME NEW k \in Keys, Post(k) PROVE (PressInv /\ PressActs)'
  BY <1>4 DEF TypeOK, Returned, PressInv, PressActs, Usable, Reads, Post, menus
<1>5. ASSUME NEW k \in Keys, Deliver(k) PROVE (PressInv /\ PressActs)'
  BY <1>5 DEF TypeOK, Returned, PressInv, PressActs, Usable, Reads, Deliver, desktop, menus
<1>6. ASSUME NEW c \in Presses, Walk(c) PROVE (PressInv /\ PressActs)'
  BY <1>6 DEF TypeOK, Returned, PressInv, PressActs, Usable, Reads, Walk, desktop, menus
<1>7. ASSUME NEW c \in Presses, LookAtItem(c) PROVE (PressInv /\ PressActs)'
  BY <1>7 DEF TypeOK, Returned, PressInv, PressActs, Usable, Reads, LookAtItem, GoPress
<1>8. ASSUME NEW c \in Presses, Remember(c) PROVE (PressInv /\ PressActs)'
  BY <1>8 DEF TypeOK, Returned, PressInv, PressActs, Usable, Reads, Remember, desktop
<1>9. ASSUME NEW c \in Presses, Flash(c) PROVE (PressInv /\ PressActs)'
  BY <1>9 DEF TypeOK, Returned, PressInv, PressActs, Usable, Reads, Flash, SetFront, SwitchTo, desktop, menus
<1>10. ASSUME NEW c \in Presses, LastLook(c) PROVE (PressInv /\ PressActs)'
  BY <1>10 DEF TypeOK, Returned, PressInv, PressActs, Usable, Reads, LastLook, GoPress, desktop
<1>11. ASSUME NEW c \in Presses, Press(c) PROVE (PressInv /\ PressActs)'
  BY <1>11 DEF TypeOK, Returned, PressInv, PressActs, Usable, Reads, Press, desktop
<1>12. ASSUME NEW c \in Presses, HandBack(c) PROVE (PressInv /\ PressActs)'
  BY <1>12 DEF TypeOK, Returned, PressInv, PressActs, Usable, Reads, HandBack, SetFront, SwitchTo, desktop
<1>13. ASSUME NEW a \in Apps, Validate(a) PROVE (PressInv /\ PressActs)'
  BY <1>13 DEF TypeOK, Returned, PressInv, PressActs, Usable, Reads, Validate, desktop, menus
<1>14. ASSUME NEW a \in Apps, PersonSwitches(a) PROVE (PressInv /\ PressActs)'
  BY <1>14 DEF TypeOK, Returned, PressInv, PressActs, Usable, Reads, PersonSwitches, PutInFront, SwitchTo, menus
<1>15. ASSUME NEW a \in Apps, AppExits(a) PROVE (PressInv /\ PressActs)'
  BY <1>15 DEF TypeOK, Returned, PressInv, PressActs, Usable, Reads, AppExits, PutInFront, SwitchTo, desktop, menus
<1>17. ASSUME NEW c \in Presses, AppGreys(c) PROVE (PressInv /\ PressActs)'
  BY <1>17 DEF TypeOK, Returned, PressInv, PressActs, Usable, Reads, AppGreys, desktop
<1>16. CASE UNCHANGED vars
  BY <1>16 DEF TypeOK, Returned, PressInv, PressActs, Usable, Reads, vars, desktop, menus
<1> QED
  BY <1>1, <1>2, <1>3, <1>4, <1>5, <1>6, <1>7, <1>8, <1>9, <1>10, <1>11, <1>12, <1>13, <1>14, <1>15, <1>16,
     <1>17 DEF Next, KeyStep, PressStep

\* Whoever puts an app in front for good has it there, or meets a flash and tangles it.
LEMMA PutInFrontKeeps ==
  ASSUME TypeOK, FrontInv, NEW a \in Apps, PutInFront(a),
         UNCHANGED prev, \A d \in Presses : pc'[d] = pc[d]
  PROVE  FrontInv'
<1>1. Flashing' = Flashing
  BY DEF Flashing
<1>2. front' = a /\ (Flashing = {} => rightful' = a)
  BY DEF PutInFront, SwitchTo
<1>3. CASE Flashing = {}
  BY <1>1, <1>2, <1>3 DEF FrontInv, FrontComesBack, Flashing, Tangled
<1>4. CASE Flashing # {}
  <2>1. Tangled'
    BY <1>4 DEF PutInFront, Tangled
  <2> QED
    BY <2>1 DEF FrontInv
<1> QED
  BY <1>3, <1>4

\* A step keeps the order of flashes and hand-backs, or nobody is rightful any more.
LEMMA FrontStepInv ==
  ASSUME TypeOK, PressInv, FrontInv, [Next]_vars
  PROVE  FrontInv'
<1> USE DesktopAssumption DEF Calls, Goto, moved, items
<1>1. ASSUME NEW c \in Calls, Call(c) PROVE FrontInv'
  BY <1>1 DEF TypeOK, PressInv, FrontInv, FrontComesBack, Flashing, Tangled, Call, desktop, menus
<1>2. ASSUME NEW a \in Apps, Focus(a) PROVE FrontInv'
  <2>1. UNCHANGED prev /\ \A d \in Presses : pc'[d] = pc[d]
    BY <1>2 DEF Focus, TypeOK, menus
  <2>2. CASE PutInFront(a)
    BY <2>1, <2>2, PutInFrontKeeps
  <2>3. CASE UNCHANGED <<front, rightful>>
    BY <2>1, <2>3 DEF FrontInv, FrontComesBack, Flashing, Tangled
  <2> QED
    BY <1>2, <2>2, <2>3 DEF Focus, desktop
<1>3. ASSUME NEW k \in Keys, Look(k) PROVE FrontInv'
  BY <1>3 DEF TypeOK, PressInv, FrontInv, FrontComesBack, Flashing, Tangled, Look, desktop, menus
<1>4. ASSUME NEW k \in Keys, Post(k) PROVE FrontInv'
  BY <1>4 DEF TypeOK, PressInv, FrontInv, FrontComesBack, Flashing, Tangled, Post, menus
<1>5. ASSUME NEW k \in Keys, Deliver(k) PROVE FrontInv'
  BY <1>5 DEF TypeOK, PressInv, FrontInv, FrontComesBack, Flashing, Tangled, Deliver, desktop, menus
<1>6. ASSUME NEW c \in Presses, Walk(c) PROVE FrontInv'
  BY <1>6 DEF TypeOK, PressInv, FrontInv, FrontComesBack, Flashing, Tangled, Walk, desktop, menus
<1>7. ASSUME NEW c \in Presses, LookAtItem(c) PROVE FrontInv'
  BY <1>7 DEF TypeOK, PressInv, FrontInv, FrontComesBack, Flashing, Tangled, LookAtItem, GoPress
<1>8. ASSUME NEW c \in Presses, Remember(c) PROVE FrontInv'
  BY <1>8 DEF TypeOK, PressInv, FrontInv, FrontComesBack, Flashing, Tangled, Remember, desktop
<1>9. ASSUME NEW c \in Presses, Flash(c) PROVE FrontInv'
  BY <1>9 DEF TypeOK, PressInv, FrontInv, FrontComesBack, Flashing, Tangled, Flash, SetFront, SwitchTo, desktop, menus
<1>10. ASSUME NEW c \in Presses, LastLook(c) PROVE FrontInv'
  BY <1>10 DEF TypeOK, PressInv, FrontInv, FrontComesBack, Flashing, Tangled, LastLook, GoPress, desktop
<1>11. ASSUME NEW c \in Presses, Press(c) PROVE FrontInv'
  BY <1>11 DEF TypeOK, PressInv, FrontInv, FrontComesBack, Flashing, Tangled, Press, desktop
<1>12. ASSUME NEW c \in Presses, HandBack(c) PROVE FrontInv'
  <2>1. \A d \in Presses \ {c} : pc'[d] = pc[d] /\ prev'[d] = prev[d]
    BY <1>12 DEF HandBack, TypeOK
  <2>2. pc[c] = "handback" /\ pc'[c] \in {"done", "failed"} /\ prev'[c] = NoApp
    BY <1>12 DEF HandBack, TypeOK
  <2>3. prev[c] = NoApp \/ front' = prev[c] => rightful' = rightful
    BY <1>12 DEF HandBack
  <2>4. Flashing' = Flashing \ {c}
    BY <2>1, <2>2 DEF Flashing
  <2>5. CASE prev[c] = NoApp
    <3>1. front' = front /\ rightful' = rightful /\ c \notin Flashing
      BY <1>12, <2>2, <2>5 DEF HandBack, desktop, Flashing
    <3> QED
      BY <2>1, <2>2, <2>4, <3>1 DEF FrontInv, FrontComesBack, Tangled
  <2>6. CASE prev[c] # NoApp
    <3>1. SUFFICES ASSUME ~Tangled' PROVE FrontInv'
      BY DEF FrontInv
    <3>2. ~Tangled /\ front' = prev[c]
      BY <1>12, <2>6, <3>1 DEF HandBack, Tangled, TypeOK
    <3>3. c \in Flashing
      BY <2>6 DEF Flashing
    <3>4. front' = rightful' /\ Flashing' = {}
      BY <2>3, <2>4, <2>6, <3>2, <3>3 DEF FrontInv
    <3> QED
      BY <3>4 DEF FrontInv, FrontComesBack, Flashing, Tangled
  <2> QED
    BY <2>5, <2>6
<1>13. ASSUME NEW a \in Apps, Validate(a) PROVE FrontInv'
  BY <1>13 DEF TypeOK, PressInv, FrontInv, FrontComesBack, Flashing, Tangled, Validate, desktop, menus
<1>14. ASSUME NEW a \in Apps, PersonSwitches(a) PROVE FrontInv'
  <2>1. UNCHANGED prev /\ \A d \in Presses : pc'[d] = pc[d]
    BY <1>14 DEF PersonSwitches, TypeOK, menus
  <2> QED
    BY <1>14, <2>1, PutInFrontKeeps DEF PersonSwitches
<1>15. ASSUME NEW a \in Apps, AppExits(a) PROVE FrontInv'
  <2>1. UNCHANGED prev /\ \A d \in Presses : pc'[d] = pc[d]
    BY <1>15 DEF AppExits, TypeOK, menus
  <2>2. CASE a = front
    BY <1>15, <2>1, <2>2, PutInFrontKeeps DEF AppExits
  <2>3. CASE a # front
    BY <1>15, <2>1, <2>3 DEF AppExits, FrontInv, FrontComesBack, Flashing, Tangled, desktop, TypeOK
  <2> QED
    BY <2>2, <2>3
<1>17. ASSUME NEW c \in Presses, AppGreys(c) PROVE FrontInv'
  BY <1>17 DEF TypeOK, PressInv, FrontInv, FrontComesBack, Flashing, Tangled, AppGreys, desktop
<1>16. CASE UNCHANGED vars
  BY <1>16 DEF TypeOK, PressInv, FrontInv, FrontComesBack, Flashing, Tangled, vars, desktop, menus
<1> QED
  BY <1>1, <1>2, <1>3, <1>4, <1>5, <1>6, <1>7, <1>8, <1>9, <1>10, <1>11, <1>12, <1>13, <1>14, <1>15, <1>16,
     <1>17 DEF Next, KeyStep, PressStep

\* The inductive invariant of the desktop.
THEOREM Invariance == Spec => []DesktopInv
<1>1. Init => DesktopInv
  <2> SUFFICES ASSUME Init PROVE DesktopInv
    OBVIOUS
  <2> USE DesktopAssumption DEF Init, Calls
  <2>1. TypeOK
    <3>1. front \in Apps \ (gone \cup hidden) /\ rightful \in Apps
      OBVIOUS
    <3>2. prev \in [Presses -> Apps \cup {NoApp}] /\ ok \in [Presses -> BOOLEAN]
      OBVIOUS
    <3>3. frontmost \in [Keys -> BOOLEAN] /\ tap \in [Keys -> 0 .. 2] /\ private \in [Keys -> 0 .. 2]
      OBVIOUS
    <3> QED
      BY <3>1, <3>2, <3>3 DEF TypeOK, Returned
  <2>2. KeyInv
    BY DEF KeyInv, BySession, ToPrivate
  <2>3. PressInv /\ PressActs
    BY DEF PressInv, PressActs
  <2>4. Flashing = {}
    BY DEF Flashing
  <2>5. FrontInv
    BY <2>4 DEF FrontInv, FrontComesBack, Tangled
  <2> QED
    BY <2>1, <2>2, <2>3, <2>5 DEF DesktopInv
<1>2. DesktopInv /\ [Next]_vars => DesktopInv'
  BY TypeStep, KeyStepInv, PressStepInv, FrontStepInv DEF DesktopInv
<1> QED
  BY <1>1, <1>2, PTL DEF Spec

\* Every variable of DesktopMacOS stays in its range, and the app in front runs and is
\* not hidden.
THEOREM TypeCorrect == Spec => []TypeOK
<1>1. DesktopInv => TypeOK
  BY DEF DesktopInv, KeyInv, FrontInv, FrontComesBack, KeysReachTarget
<1> QED
  BY <1>1, Invariance, PTL

\* A key reaches another app only if its target lost the front after is_pid_frontmost was
\* read (once, macos.rs:206), and is stuck in a private queue only if it gained it.
THEOREM KeysArrive == Spec => []KeysReachTarget
<1>1. DesktopInv => KeysReachTarget
  BY DEF DesktopInv, KeyInv, FrontInv, FrontComesBack, KeysReachTarget
<1> QED
  BY <1>1, Invariance, PTL

\* The app a person had put in front is there again after every press, pressed, refused or
\* failed, where nobody moved the front during the flash (macos.rs:557-574).
THEOREM FrontReturns == Spec => []FrontComesBack
<1>1. DesktopInv => FrontComesBack
  BY DEF DesktopInv, KeyInv, FrontInv, FrontComesBack, KeysReachTarget
<1> QED
  BY <1>1, Invariance, PTL

\* However an app disables and enables its items, a press that says Ok had its menu action
\* run, unless AXEnabled could not be read or the item was disabled between the last look
\* (macos.rs:543 or 557) and AXPress (macos.rs:567).
THEOREM PressesAct == Spec => []PressActs
<1>1. DesktopInv => PressActs
  BY DEF DesktopInv, KeyInv, FrontInv, FrontComesBack, KeysReachTarget
<1> QED
  BY <1>1, Invariance, PTL
=============================================================================

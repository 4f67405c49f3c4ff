--------------------------- MODULE KeystrokeWindows ---------------------------
(***************************************************************************)
(* focus and send_keystroke on Windows (src/src/windows.rs).               *)
(*                                                                         *)
(* The foreground and the input queue belong to the whole desktop.  A      *)
(* keystroke takes the foreground for its app, puts the events of a chord  *)
(* into the queue one by one, waits and hands the foreground back, all     *)
(* under KEYSTROKE_LOCK; the system delivers the events when it gets to    *)
(* them, to whichever window is then in front.  focus() takes the          *)
(* foreground without the lock, and a person takes it at any time.         *)
(*                                                                         *)
(* An app is one window here, and only keystrokes put events into the      *)
(* queue.                                                                  *)
(***************************************************************************)
EXTENDS Naturals, Sequences, SequencesExt

CONSTANTS Senders,      \* calls of send_keystroke
          Focusers,     \* calls of focus
          Apps,
          Target,       \* the app of each call
          Mods,         \* modifier_vks of each keystroke
          Key,
          User,         \* the window a person had in front
          NoWindow,     \* GetForegroundWindow may be null
          Nobody,
          MaxTries      \* attempts that fit into the 5 s

Calls == Senders \cup Focusers
Windows == Apps \cup {User}

ASSUME KeystrokeAssumption ==
  /\ Senders \cap Focusers = {}
  /\ Target \in [Calls -> Apps]
  /\ \A t \in Senders : Mods[t] \in Seq(STRING) /\ IsInjective(Mods[t]) /\ Key \notin ToSet(Mods[t])
  /\ User \notin Apps /\ NoWindow \notin Windows /\ Nobody \notin Calls
  /\ MaxTries \in Nat \ {0}

VARIABLES
  foreground,
  raw,       \* the input queue: <<call, event>>
  held,      \* modifiers that are down, for the system
  lock,      \* KEYSTROKE_LOCK
  pc, prev, tries,
  typed,     \* events of the chord that were put into the queue
  stray,     \* history: calls with an event that another window got
  bare,      \* history: calls whose key arrived with other modifiers than theirs
  stolen,    \* history: calls whose foreground an outsider took while they typed
  refused,   \* history: windows left in front by a hand-back that did not work
  outsiders  \* history: focus() or a person has taken the foreground

locals == <<pc, prev, tries, typed>>
delivery == <<held, stray, bare>>
theft == <<stolen, outsiders>>
vars == <<foreground, raw, lock, locals, delivery, theft, refused>>

Returned == {"done", "failed"}
Typing == {t \in Senders : pc[t] \in {"type", "hold"}}

\* Modifiers down, key down, key up, modifiers up in reverse.
Chord(t) ==
  [i \in DOMAIN Mods[t] |-> <<Mods[t][i], "down">>]
    \o <<<<Key, "down">>, <<Key, "up">>>>
    \o [i \in DOMAIN Mods[t] |-> <<Reverse(Mods[t])[i], "up">>]

Init ==
  /\ foreground = User
  /\ raw = <<>>
  /\ held = {}
  /\ lock = Nobody
  /\ pc = [t \in Calls |-> "idle"]
  /\ prev = [t \in Calls |-> NoWindow]
  /\ tries = [t \in Calls |-> 0]
  /\ typed = [t \in Calls |-> 0]
  /\ stray = {}
  /\ bare = {}
  /\ stolen = {}
  /\ refused = {}
  /\ outsiders = FALSE
-------------------------------------------------------------------------------
Goto(t, there) == pc' = [pc EXCEPT ![t] = there]

\* SetForegroundWindow may silently fail.
ForceForeground(w) == foreground' \in {w, foreground}

\* Somebody who does not hold the lock takes the foreground.
Steals ==
  /\ outsiders' = TRUE
  /\ stolen' = stolen \cup {t \in Typing : foreground' # Target[t]}

\* A key that is not mapped, or an app without a window, is an early return.
Call(t) ==
  /\ pc[t] = "idle"
  /\ Goto(t, IF t \in Senders THEN "lock" ELSE "force") \/ Goto(t, "failed")
  /\ UNCHANGED <<foreground, raw, lock, prev, tries, typed, delivery, theft, refused>>

Acquire(t) ==
  /\ pc[t] = "lock"
  /\ lock = Nobody
  /\ lock' = t
  /\ Goto(t, "remember")
  /\ UNCHANGED <<foreground, raw, prev, tries, typed, delivery, theft, refused>>

\* GetForegroundWindow, under the lock.
Remember(t) ==
  /\ pc[t] = "remember"
  /\ prev' = [prev EXCEPT ![t] = foreground]
  /\ Goto(t, "force")
  /\ UNCHANGED <<foreground, raw, lock, tries, typed, delivery, theft, refused>>

\* Mutant: each attempt has a deadline of its own.
TakeFrontAnew(t) ==
  /\ pc[t] = "force"
  /\ ForceForeground(Target[t])
  /\ IF t \in Focusers THEN Steals ELSE UNCHANGED theft
  /\ tries' = [tries EXCEPT ![t] = 0]
  /\ Goto(t, "check")
  /\ UNCHANGED <<raw, lock, prev, typed, delivery, refused>>

TakeFront(t) ==
  /\ pc[t] = "force"
  /\ ForceForeground(Target[t])
  /\ IF t \in Focusers THEN Steals ELSE UNCHANGED theft
  /\ Goto(t, "check")
  /\ UNCHANGED <<raw, lock, prev, tries, typed, delivery, refused>>

Unlock(t) == lock' = IF lock = t THEN Nobody ELSE lock

\* The guard of the lock is dropped with the return, and the locals are gone.
Return(t, how) ==
  /\ Goto(t, how)
  /\ Unlock(t)
  /\ prev' = [prev EXCEPT ![t] = NoWindow]
  /\ tries' = [tries EXCEPT ![t] = 0]
  /\ typed' = [typed EXCEPT ![t] = 0]

\* Mutant: no deadline.
CheckForEver(t) ==
  /\ pc[t] = "check"
  /\ Goto(t, IF foreground # Target[t] THEN "force" ELSE IF t \in Senders THEN "type" ELSE "done")
  /\ UNCHANGED <<foreground, raw, lock, prev, tries, typed, delivery, theft, refused>>

\* The second GetForegroundWindow of force_foreground, and what its result leads to.
Check(t) ==
  /\ pc[t] = "check"
  /\ \/ /\ foreground = Target[t] /\ t \in Senders
        /\ Goto(t, "type")
        /\ UNCHANGED <<lock, prev, tries, typed>>
     \/ foreground = Target[t] /\ t \in Focusers /\ Return(t, "done")
     \/ /\ foreground # Target[t] /\ tries[t] < MaxTries
        /\ tries' = [tries EXCEPT ![t] = @ + 1]
        /\ Goto(t, "force")
        /\ UNCHANGED <<lock, prev, typed>>
     \/ foreground # Target[t] /\ tries[t] = MaxTries /\ Return(t, "failed")
  /\ UNCHANGED <<foreground, raw, delivery, theft, refused>>

\* Mutant: the guard is dropped once the events are in the queue.
TypeAndUnlock(t) ==
  /\ pc[t] = "type"
  /\ typed' = [typed EXCEPT ![t] = @ + 1]
  /\ raw' = Append(raw, <<t, Chord(t)[typed'[t]]>>)
  /\ IF typed'[t] = Len(Chord(t)) THEN Goto(t, "hold") /\ Unlock(t) ELSE UNCHANGED <<pc, lock>>
  /\ UNCHANGED <<foreground, prev, tries, delivery, theft, refused>>

\* Mutant: the modifiers are not released.
TypeHalf(t) ==
  /\ pc[t] = "type"
  /\ typed' = [typed EXCEPT ![t] = @ + 1]
  /\ raw' = Append(raw, <<t, Chord(t)[typed'[t]]>>)
  /\ IF typed'[t] = Len(Mods[t]) + 2 THEN Goto(t, "hold") ELSE UNCHANGED pc
  /\ UNCHANGED <<foreground, lock, prev, tries, delivery, theft, refused>>

\* keybd_event, with a gap after each.
Type(t) ==
  /\ pc[t] = "type"
  /\ typed' = [typed EXCEPT ![t] = @ + 1]
  /\ raw' = Append(raw, <<t, Chord(t)[typed'[t]]>>)
  /\ IF typed'[t] = Len(Chord(t)) THEN Goto(t, "hold") ELSE UNCHANGED pc
  /\ UNCHANGED <<foreground, lock, prev, tries, delivery, theft, refused>>

\* Mutant: no hold before the foreground is handed back.
HoldNot(t) ==
  /\ pc[t] = "hold"
  /\ Goto(t, "handback")
  /\ UNCHANGED <<foreground, raw, lock, prev, tries, typed, delivery, theft, refused>>

\* The 400 ms are taken to be long enough for the system to deliver the chord.
Hold(t) ==
  /\ pc[t] = "hold"
  /\ raw = <<>>
  /\ Goto(t, "handback")
  /\ UNCHANGED <<foreground, raw, lock, prev, tries, typed, delivery, theft, refused>>

\* Mutant: `==' for `!='.
HandBackInverted(t) ==
  /\ pc[t] = "handback"
  /\ IF prev[t] = Target[t] THEN ForceForeground(prev[t]) ELSE UNCHANGED foreground
  /\ UNCHANGED refused
  /\ Return(t, "done")
  /\ UNCHANGED <<raw, delivery, theft>>

\* Best effort, and only if there was another window in front before.
HandBack(t) ==
  /\ pc[t] = "handback"
  /\ IF prev[t] \in {NoWindow, Target[t]}
       THEN UNCHANGED <<foreground, refused>>
       ELSE /\ ForceForeground(prev[t])
            /\ refused' = IF foreground' = prev[t] THEN refused ELSE refused \cup {foreground'}
  /\ Return(t, "done")
  /\ UNCHANGED <<raw, delivery, theft>>
-------------------------------------------------------------------------------
\* The system delivers the next event to the window that is in front now.
RawInput ==
  /\ raw # <<>>
  /\ raw' = Tail(raw)
  /\ LET t == Head(raw)[1]
         k == Head(raw)[2][1]
         down == Head(raw)[2][2] = "down"
     IN /\ stray' = IF foreground # Target[t] THEN stray \cup {t} ELSE stray
        /\ held' = IF k = Key THEN held ELSE IF down THEN held \cup {k} ELSE held \ {k}
        /\ bare' = IF k = Key /\ held # ToSet(Mods[t]) THEN bare \cup {t} ELSE bare
  /\ UNCHANGED <<foreground, lock, locals, theft, refused>>

\* A person clicks another window, or closes the one in front.
HumanSwitches(w) ==
  /\ foreground # w
  /\ foreground' = w
  /\ Steals
  /\ UNCHANGED <<raw, lock, locals, delivery, refused>>

Step(t) ==
  \/ Call(t)
  \/ Acquire(t)
  \/ Remember(t)
  \/ TakeFront(t)
  \/ Check(t)
  \/ Type(t)
  \/ Hold(t)
  \/ HandBack(t)

Next ==
  \/ \E t \in Calls : Step(t)
  \/ RawInput
  \/ \E w \in Windows \cup {NoWindow} : HumanSwitches(w)

Spec == Init /\ [][Next]_vars

\* The calling threads run, and the system delivers its input.
FairSpec == Spec /\ WF_vars(RawInput) /\ \A t \in Calls : WF_vars(Step(t))
-------------------------------------------------------------------------------
\* Every variable stays in its range, and the queue holds events of one keystroke.
TypeOK ==
  /\ foreground \in Windows \cup {NoWindow}
  /\ lock \in Senders \cup {Nobody}
  /\ pc \in [Calls -> {"idle", "lock", "remember", "force", "check", "type", "hold", "handback"}
                        \cup Returned]
  /\ prev \in [Calls -> Windows \cup {NoWindow}]
  /\ tries \in [Calls -> 0 .. MaxTries]
  /\ typed \in [Calls -> Nat]
  /\ \A t \in Senders : typed[t] <= Len(Chord(t))
  /\ \A i \in DOMAIN raw : raw[i][1] = lock
  /\ stolen \subseteq Senders /\ stray \subseteq Senders /\ bare \subseteq Senders
  /\ refused \subseteq Windows \cup {NoWindow}
  /\ outsiders \in BOOLEAN

\* "steal focus from each other and interleave their chords" (windows.rs:51): an
\* event lands elsewhere than on its target only where focus() or a person took the
\* foreground while the chord was typed, and never because of another keystroke.
LandsOnTarget == stray \subseteq stolen

\* A keystroke that returns Ok has been delivered, with its modifiers held, and
\* whoever takes the foreground it leaves no modifier down.
ChordIsWhole ==
  /\ bare = {}
  /\ \A i \in DOMAIN raw : pc[raw[i][1]] \notin Returned
  /\ lock = Nobody => held = {}

\* Where only keystrokes take the foreground, a window that was not in front
\* before is left there by a refused hand-back only.
HandsBack ==
  ~outsiders /\ lock = Nobody => foreground \in {User} \cup refused

\* The inductive invariant behind these (KeystrokeWindowsProofs).  The lock is the section.
Section == {"remember", "force", "check", "type", "hold", "handback"}
LockInv ==
  /\ \A t \in Senders : lock = t <=> pc[t] \in Section
  /\ \A t \in Focusers : pc[t] \in {"idle", "force", "check"} \cup Returned

\* What is in the queue is the end of what was typed of one chord, and the system
\* holds what the delivered part of the chord leaves down.
Delivered(t) == typed[t] - Len(raw)
HeldAfter(t, n) ==
  {Mods[t][i] : i \in {j \in DOMAIN Mods[t] : j <= n /\ n < 2 * Len(Mods[t]) + 3 - j}}
ChordInv ==
  /\ raw \in Seq(Senders \X ((STRING \cup {Key}) \X {"down", "up"}))
  /\ \A t \in Typing :
       /\ Len(raw) <= typed[t]
       /\ \A i \in DOMAIN raw : raw[i] = <<t, Chord(t)[Delivered(t) + i]>>
       /\ held = HeldAfter(t, Delivered(t))
       /\ IF pc[t] = "type" THEN typed[t] < Len(Chord(t)) ELSE typed[t] = Len(Chord(t))
  /\ \A t \in Senders \ Typing : pc[t] # "handback" => typed[t] = 0
  /\ Typing = {} => raw = <<>> /\ held = {}
  /\ bare = {}

\* Whose window is in front: of a keystroke that types, its target, and without
\* outsiders that one or the one the keystroke remembers.
Holding == {t \in Senders : pc[t] \in Section \ {"remember"}}
FrontInv ==
  /\ \A t \in Typing : foreground = Target[t] \/ t \in stolen
  /\ stray \subseteq stolen
  /\ ~outsiders =>
       /\ NoWindow \notin refused
       /\ \A t \in Holding : prev[t] \in {User} \cup refused /\ foreground \in {prev[t], Target[t]}
       /\ Holding = {} => foreground \in {User} \cup refused
KeystrokeInv == LockInv /\ ChordInv /\ FrontInv

\* Every call returns, whoever else wants the foreground.
CallsReturn == \A t \in Calls : pc[t] # "idle" ~> pc[t] \in Returned

\* How many steps a call still takes at most: the attempts that fit into the 5 s, then the
\* chord, event by event, the hold and the hand-back.
Left(t) ==
  LET size == IF t \in Senders THEN Len(Chord(t)) ELSE 0
      more == 2 * (MaxTries - tries[t]) + size
  IN CASE pc[t] = "idle" -> more + 7
       [] pc[t] = "lock" -> more + 6
       [] pc[t] = "remember" -> more + 5
       [] pc[t] = "force" -> more + 4
       [] pc[t] = "check" -> more + 3
       [] pc[t] = "type" -> size - typed[t] + 2
       [] pc[t] = "hold" -> 2
       [] pc[t] = "handback" -> 1
       [] OTHER -> 0

\* Each step of a call brings it nearer to its return, and neither another call nor a person
\* takes that back: no call can be kept from returning by being disturbed again and again.
CallsAdvance ==
  [][\A t \in Calls : /\ Left(t)' \in Nat /\ Left(t)' <= Left(t)
                      /\ Step(t) => Left(t)' < Left(t)]_vars

\* Whose turn it is, how much of its chord has been delivered, and what a call is told.
Turn == IF lock \in Typing THEN lock ELSE Nobody
Progress == IF lock \in Typing THEN Delivered(lock) ELSE 0
Outcome(t) ==
  CASE pc[t] \in {"handback", "done"} -> "ok"
    [] pc[t] = "failed" -> "failed"
    [] OTHER -> "pending"

\* The locked section implements keystrokes that take turns (ChordTurns): no two chords
\* interleave, and a call that fails has sent nothing.
Turns ==
  INSTANCE ChordTurns WITH
    Sends <- [t \in Senders |-> Chord(t)],
    turn <- Turn, delivered <- Progress, outcome <- [t \in Senders |-> Outcome(t)]
ImplementsChordTurns == Turns!Spec
===============================================================================

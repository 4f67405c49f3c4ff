----------------------------- MODULE DesktopMacOS -----------------------------
(***************************************************************************)
(* What a Child does to the macOS desktop (src/src/macos.rs): focus,       *)
(* send_keystroke and press_menu_item, called from any threads at once and *)
(* serialized by nothing, beside a person who switches apps and apps that  *)
(* exit.                                                                   *)
(*                                                                         *)
(* A key goes to the app in front, through the session's queue, or to the  *)
(* private queue of its target, which a Qt app drains only when it is      *)
(* brought to the front.  A menu item is pressed through the accessibility *)
(* API; a disabled item swallows the press, and the menus of a Qt app are  *)
(* disabled until the app has once been in front, so that a press may      *)
(* flash its target to the front and has to hand the front back.  An app   *)
(* also disables and enables items of its own accord, at any moment: also  *)
(* between the look that lets a press go ahead and the press.              *)
(***************************************************************************)
EXTENDS Naturals, FiniteSets

CONSTANTS Apps, NoApp,
          Qt,            \* the apps made with Qt
          Background,    \* the apps that were launched hidden
          Keys, Presses, \* the calls of send_keystroke and of press_menu_item
          Target,        \* the app of each call
          Focused,       \* the apps that focus is called on
          Exiting,       \* the apps that may exit, a bound
          Fickle         \* the presses whose item the app itself disables and enables

Calls == Keys \cup Presses

ASSUME DesktopAssumption ==
  /\ NoApp \notin Apps /\ Background # Apps
  /\ Qt \subseteq Apps /\ Background \subseteq Apps
  /\ Keys \cap Presses = {}
  /\ Target \in [Calls -> Apps]
  /\ Fickle \subseteq Presses /\ Focused \subseteq Apps /\ Exiting \subseteq Apps

VARIABLES
  front,      \* the app in front
  hidden, gone,
  validated,  \* the apps that have validated their menus
  pc,
  frontmost,  \* per key: the route it takes
  tap,        \* per key: its events in the session's queue
  private,    \* per key: its events in the private queue of its target, if Qt
  prev,       \* per press: the app to hand the front back to
  ok,         \* per press: AXPress succeeded
  greyed,     \* the presses whose item its app disables just now
  acted,      \* the presses whose menu action ran
  unread,     \* history: presses that went ahead without knowing AXEnabled
  lapsed,     \* history: presses whose item its app disabled after the last look
  stray,      \* history: keys that another app than the target received
  lost,       \* history: keys whose target lost the front under the session's route
  gained,     \* history: keys whose target gained the front under the private one
  rightful    \* history: the app that a person or focus() last put in front, or NoApp

moved == <<lost, gained>>
desktop == <<front, hidden, private, moved>>
items == <<greyed, lapsed>>
menus == <<prev, ok, acted, unread, items>>
vars == <<desktop, gone, validated, pc, frontmost, tap, menus, stray, rightful>>

\* Nobody is rightful once the front was moved during a flash or not given back, or the
\* rightful app exited behind another one.
Tangled == rightful = NoApp

Returned == {"done", "failed"}
Goto(c, there) == pc' = [pc EXCEPT ![c] = there]

\* The presses that have looked who is in front and not handed it back.
Flashing == {c \in Presses : pc[c] \in {"flash", "last"} \/ prev[c] # NoApp}

Init ==
  /\ front \in Apps \ Background
  /\ hidden = Background
  /\ gone = {} /\ validated = {front}
  /\ pc = [c \in Calls |-> "idle"]
  /\ frontmost = [k \in Keys |-> FALSE]
  /\ tap = [k \in Keys |-> 0]
  /\ private = [k \in Keys |-> 0]
  /\ prev = [c \in Presses |-> NoApp]
  /\ ok = [c \in Presses |-> FALSE]
  /\ greyed \in SUBSET Fickle
  /\ acted = {} /\ unread = {} /\ lapsed = {}
  /\ stray = {} /\ lost = {} /\ gained = {}
  /\ rightful = front
-------------------------------------------------------------------------------
\* A key with an event that goes by the session's queue or is in it, and one that has
\* an event to post to the private queue of its target.
BySession(k) == frontmost[k] \/ tap[k] > 0
ToPrivate(k) == pc[k] \in {"down", "up"} /\ ~frontmost[k]

\* An app comes to the front; a Qt app drains its private queue.
SwitchTo(a) ==
  /\ front' = a
  /\ hidden' = hidden \ {a}
  /\ private' = [k \in Keys |-> IF a # front /\ Target[k] = a THEN 0 ELSE private[k]]
  /\ lost' = lost \cup {k \in Keys : a # front /\ Target[k] = front /\ BySession(k)}
  /\ gained' = gained \cup {k \in Keys : a # front /\ Target[k] = a /\ ToPrivate(k)}

\* set_frontmost_app: refused for an app that is gone, or just so.
SetFront(a) ==
  \/ a \notin gone /\ SwitchTo(a)
  \/ UNCHANGED desktop

\* A person, focus() or the system puts an app in front for good.
PutInFront(a) ==
  /\ SwitchTo(a)
  /\ rightful' = IF Flashing = {} THEN a ELSE NoApp

\* A key or a press without a GUI handle, or a key without a code, fails at once.
Call(c) ==
  /\ pc[c] = "idle"
  /\ \/ Goto(c, IF c \in Keys THEN "look" ELSE "walk")
     \/ Goto(c, "failed")
  /\ UNCHANGED <<desktop, gone, validated, frontmost, tap, menus, stray, rightful>>

\* focus, called any number of times: unhide, then activate, which the system may deny
\* without a word.  Without a GUI handle, or for an app that is gone, it is an error
\* and changes nothing.
Focus(a) ==
  /\ a \in Focused \ gone
  /\ \/ PutInFront(a)
     \/ hidden' = hidden \ {a} /\ UNCHANGED <<front, private, moved, rightful>>
  /\ UNCHANGED <<gone, validated, pc, frontmost, tap, menus, stray>>
-------------------------------------------------------------------------------
\* Mutant: a key is always posted to the session's queue.
LookNever(k) ==
  /\ pc[k] = "look"
  /\ frontmost' = [frontmost EXCEPT ![k] = TRUE]
  /\ Goto(k, "down")
  /\ UNCHANGED <<desktop, gone, validated, tap, menus, stray, rightful>>

\* is_pid_frontmost, read once for both events.
Look(k) ==
  /\ pc[k] = "look"
  /\ frontmost' = [frontmost EXCEPT ![k] = front = Target[k]]
  /\ Goto(k, "down")
  /\ UNCHANGED <<desktop, gone, validated, tap, menus, stray, rightful>>

\* Key down and then key up: CGEventPost or CGEventPostToPid, if the event can be
\* made at all.  What is posted to an app that is gone is lost, and what is posted
\* to one that is not made with Qt is read as it runs.
Post(k) ==
  /\ pc[k] \in {"down", "up"}
  /\ \/ /\ Goto(k, IF pc[k] = "down" THEN "up" ELSE "done")
        /\ IF frontmost[k]
             THEN tap' = [tap EXCEPT ![k] = @ + 1] /\ UNCHANGED private
             ELSE /\ private' = [private EXCEPT ![k] = IF Target[k] \in Qt \ gone THEN @ + 1 ELSE @]
                  /\ UNCHANGED tap
     \/ Goto(k, "failed") /\ UNCHANGED <<tap, private>>
  /\ frontmost' = [frontmost EXCEPT ![k] = @ /\ pc'[k] = "up"]
  /\ UNCHANGED <<front, hidden, moved, gone, validated, menus, stray, rightful>>

\* The session's queue goes to the app in front.
Deliver(k) ==
  /\ tap[k] > 0
  /\ tap' = [tap EXCEPT ![k] = @ - 1]
  /\ stray' = IF front = Target[k] THEN stray ELSE stray \cup {k}
  /\ UNCHANGED <<desktop, gone, validated, pc, frontmost, menus, rightful>>
-------------------------------------------------------------------------------
\* walk_first_matching: no permission, no answer or no such item fails.
Walk(c) ==
  /\ pc[c] = "walk"
  /\ \/ Target[c] \notin gone /\ Goto(c, "look1")
     \/ Goto(c, "failed")
  /\ UNCHANGED <<desktop, gone, validated, frontmost, tap, menus, stray, rightful>>

Usable(c) == Target[c] \in validated /\ c \notin greyed

\* AXEnabled of the item, which cannot be read of a busy app or one that is gone.
Reads(c) ==
  {"unknown"} \cup IF Target[c] \in gone THEN {} ELSE {IF Usable(c) THEN "yes" ELSE "no"}

\* Only `no' is disabled: what cannot be read is pressed.
GoPress(c, read) ==
  /\ read # "no"
  /\ Goto(c, "press")
  /\ unread' = IF read = "unknown" THEN unread \cup {c} ELSE unread

\* A disabled item's app is unhidden at the first look, and flashed at the second
\* one, which is taken whatever the first one said.
LookAtItem(c) ==
  /\ \/ /\ pc[c] = "look1"
        /\ \E read \in Reads(c) :
             hidden' = IF read = "no" THEN hidden \ {Target[c]} ELSE hidden
        /\ Goto(c, "look2")
        /\ UNCHANGED unread
     \/ /\ pc[c] = "look2"
        /\ \E read \in Reads(c) :
             \/ GoPress(c, read)
             \/ read = "no" /\ Goto(c, "remember") /\ UNCHANGED unread
        /\ UNCHANGED hidden
  /\ UNCHANGED <<front, private, moved, gone, validated, frontmost, tap, prev, ok,
                 acted, items, stray, rightful>>

Remember(c) ==
  /\ pc[c] = "remember"
  /\ prev' = [prev EXCEPT ![c] = IF front = Target[c] THEN NoApp ELSE front]
  /\ Goto(c, "flash")
  /\ rightful' = IF Flashing = {} THEN rightful ELSE NoApp
  /\ UNCHANGED <<desktop, gone, validated, frontmost, tap, ok, acted, unread, items,
                 stray>>

Flash(c) ==
  /\ pc[c] = "flash"
  /\ SetFront(Target[c])
  /\ Goto(c, "last")
  /\ UNCHANGED <<gone, validated, frontmost, tap, menus, stray, rightful>>

\* Mutant: the error of an item that stays disabled returns at once.
LastLookReturns(c) ==
  /\ pc[c] = "last"
  /\ \E read \in Reads(c) :
       \/ GoPress(c, read) /\ UNCHANGED prev
       \/ /\ read = "no" /\ Goto(c, "failed")
          /\ prev' = [prev EXCEPT ![c] = NoApp]
          /\ UNCHANGED unread
  /\ UNCHANGED <<desktop, gone, validated, frontmost, tap, ok, acted, items, stray,
                 rightful>>

\* Mutant: after the flash the item is pressed, disabled or not.
LastLookSkipped(c) ==
  /\ pc[c] = "last"
  /\ Goto(c, "press")
  /\ UNCHANGED <<desktop, gone, validated, frontmost, tap, menus, stray, rightful>>

\* The item is polled, for 2 s at most, and looked at once more: still disabled, it
\* is an error.
LastLook(c) ==
  /\ pc[c] = "last"
  /\ \E read \in Reads(c) :
       \/ GoPress(c, read)
       \/ read = "no" /\ Goto(c, "handback") /\ UNCHANGED unread
  /\ UNCHANGED <<desktop, gone, validated, frontmost, tap, prev, ok, acted, items,
                 stray, rightful>>

\* AXPress succeeds on a disabled item too, which swallows it.
Press(c) ==
  /\ pc[c] = "press"
  /\ \/ /\ Target[c] \notin gone
        /\ ok' = [ok EXCEPT ![c] = TRUE]
        /\ acted' = IF Usable(c) THEN acted \cup {c} ELSE acted
     \/ UNCHANGED <<ok, acted>>
  /\ Goto(c, "handback")
  /\ UNCHANGED <<desktop, gone, validated, frontmost, tap, prev, unread, items,
                 stray, rightful>>

\* The front goes back to whoever had it before the flash, if there was one.
HandBack(c) ==
  /\ pc[c] = "handback"
  /\ IF prev[c] = NoApp THEN UNCHANGED <<desktop, rightful>>
     ELSE /\ SetFront(prev[c])
          /\ rightful' = IF front' = prev[c] THEN rightful ELSE NoApp
  /\ prev' = [prev EXCEPT ![c] = NoApp]
  /\ ok' = [ok EXCEPT ![c] = FALSE]
  /\ Goto(c, IF ok[c] THEN "done" ELSE "failed")
  /\ UNCHANGED <<gone, validated, frontmost, tap, acted, unread, items, stray>>
-------------------------------------------------------------------------------
\* An app validates its menus while it is in front, and one that is not made with
\* Qt also while it is not hidden; that lasts.
Validate(a) ==
  /\ a \notin gone \cup validated
  /\ front = a \/ a \notin Qt \cup hidden
  /\ validated' = validated \cup {a}
  /\ UNCHANGED <<desktop, gone, pc, frontmost, tap, menus, stray, rightful>>

\* The app of an item disables it, or enables it again.
AppGreys(c) ==
  /\ c \in Fickle /\ Target[c] \notin gone
  /\ \/ /\ c \notin greyed
        /\ greyed' = greyed \cup {c}
        /\ lapsed' = IF pc[c] = "press" THEN lapsed \cup {c} ELSE lapsed
     \/ c \in greyed /\ greyed' = greyed \ {c} /\ UNCHANGED lapsed
  /\ UNCHANGED <<desktop, gone, validated, pc, frontmost, tap, prev, ok, acted, unread,
                 stray, rightful>>

PersonSwitches(a) ==
  /\ a \notin gone \cup {front}
  /\ PutInFront(a)
  /\ UNCHANGED <<gone, validated, pc, frontmost, tap, menus, stray>>

\* An app exits; when it was in front another one is, and the last one stays.
AppExits(a) ==
  /\ a \in Exiting \ gone
  /\ gone' = gone \cup {a}
  /\ IF a = front
       THEN \E b \in Apps \ gone' : PutInFront(b)
       ELSE /\ rightful' = IF a = rightful THEN NoApp ELSE rightful
            /\ UNCHANGED desktop
  /\ UNCHANGED <<validated, pc, frontmost, tap, menus, stray>>

KeyStep(k) == Look(k) \/ Post(k)
PressStep(c) ==
  \/ Walk(c) \/ LookAtItem(c) \/ Remember(c) \/ Flash(c) \/ LastLook(c)
  \/ Press(c) \/ HandBack(c)

Next ==
  \/ \E c \in Calls : Call(c)
  \/ \E k \in Keys : KeyStep(k) \/ Deliver(k)
  \/ \E c \in Presses : PressStep(c) \/ AppGreys(c)
  \/ \E a \in Apps : Focus(a) \/ Validate(a) \/ PersonSwitches(a) \/ AppExits(a)

Spec == Init /\ [][Next]_vars
-------------------------------------------------------------------------------
\* Every variable stays in its range; the app in front runs and is not hidden.
TypeOK ==
  /\ front \in Apps \ (gone \cup hidden)
  /\ hidden \subseteq Apps /\ gone \subseteq Apps /\ validated \subseteq Apps
  /\ pc \in [Calls -> {"idle", "look", "down", "up", "walk", "look1", "look2",
                       "remember", "flash", "last", "press", "handback"} \cup Returned]
  /\ frontmost \in [Keys -> BOOLEAN]
  /\ tap \in [Keys -> 0 .. 2] /\ private \in [Keys -> 0 .. 2]
  /\ prev \in [Presses -> Apps \cup {NoApp}]
  /\ ok \in [Presses -> BOOLEAN]
  /\ acted \subseteq Presses /\ unread \subseteq Presses
  /\ greyed \subseteq Fickle /\ lapsed \subseteq Fickle
  /\ stray \subseteq Keys /\ lost \subseteq Keys /\ gained \subseteq Keys
  /\ rightful \in Apps \cup {NoApp}

\* A key reaches another app only if its target was in front at the look and lost the
\* front before the last event was delivered; and it is left in the private queue of a
\* Qt app that is in front, where nothing would drain it, only if the target was not
\* in front at the look and gained the front before the last event was posted.
KeysReachTarget ==
  \A k \in Keys :
    /\ k \in stray => k \in lost
    /\ private[k] > 0 /\ front = Target[k] => k \in gained

\* However a press ends, pressed, refused or failed, the app that a person had put
\* in front is in front again, unless somebody else moved the front during the
\* flash, the flashes of two presses overlapped, or the hand-back was refused.
FrontComesBack == Flashing = {} /\ ~Tangled => front = rightful

\* A press that says Ok had its menu action run, whatever the app does to its items
\* before the last look and while the item is polled; unless AXEnabled could not be
\* read, or the app disabled the item between the last look and AXPress, which is
\* swallowed then and succeeds.
PressActs == \A c \in Presses : pc[c] = "done" => c \in acted \cup unread \cup lapsed

\* The inductive invariant behind all of them (DesktopMacOSProofs).  A key posts two
\* events at most, and its route is where its target is unless the target has moved.
KeyInv ==
  \A k \in Keys :
    /\ pc[k] \in {"idle", "look", "down"} => tap[k] + private[k] = 0
    /\ pc[k] = "up" => tap[k] + private[k] <= 1
    /\ frontmost[k] => pc[k] \in {"down", "up"}
    /\ k \notin lost => k \notin stray /\ (BySession(k) => front = Target[k])
    /\ k \notin gained => (ToPrivate(k) \/ private[k] > 0 => front # Target[k])

\* An item is pressed if it is usable, or not known not to be, or was usable when the
\* press looked last.
PressInv ==
  \A c \in Presses :
    /\ ok[c] => pc[c] = "handback" /\ c \in acted \cup unread \cup lapsed
    /\ pc[c] = "press" => Usable(c) \/ c \in unread \cup lapsed
    /\ prev[c] # NoApp => pc[c] \in {"flash", "last", "press", "handback"}

\* Where nothing interferes there is one flash at a time, and what it hands back is
\* what it took.
FrontInv ==
  ~Tangled =>
    /\ FrontComesBack
    /\ \A c, d \in Flashing : c = d
    /\ \A c \in Presses :
         /\ pc[c] \in {"flash", "last"} /\ prev[c] = NoApp => Target[c] = rightful /\ front = rightful
         /\ prev[c] # NoApp => prev[c] = rightful

DesktopInv == TypeOK /\ KeyInv /\ PressInv /\ PressActs /\ FrontInv
===============================================================================

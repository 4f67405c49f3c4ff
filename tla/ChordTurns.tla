------------------------------ MODULE ChordTurns ------------------------------
(***************************************************************************)
(* What send_keystroke promises of the events it sends (src/src/windows.rs *)
(* 47-56 and 131-208), without the lock, the input queue and the           *)
(* foreground: the keystrokes take turns, each is delivered from its first *)
(* event to its last or not at all, the key comes while exactly its own    *)
(* modifiers are down, and a keystroke that returns Ok has been delivered  *)
(* and leaves no modifier down.                                            *)
(***************************************************************************)
EXTENDS Naturals, Sequences

CONSTANTS Senders, Mods, Key,
          Sends,       \* per keystroke: its events, <<key, "down" or "up">>
          Nobody

VARIABLES
  turn,      \* the keystroke that is being delivered, or Nobody
  delivered, \* how many of its events were
  held,      \* modifiers that are down
  outcome    \* per keystroke: "pending", "ok", "failed"

vars == <<turn, delivered, held, outcome>>

Init ==
  /\ turn = Nobody
  /\ delivered = 0
  /\ held = {}
  /\ outcome = [t \in Senders |-> "pending"]

\* A turn begins when no other is under way and nothing is down.
Begin(t) ==
  /\ turn = Nobody /\ held = {}
  /\ outcome[t] = "pending"
  /\ turn' = t
  /\ UNCHANGED <<delivered, held, outcome>>

\* Its next event arrives.
Deliver(t) ==
  /\ turn = t
  /\ delivered < Len(Sends[t])
  /\ delivered' = delivered + 1
  /\ LET k == Sends[t][delivered'][1]
         way == Sends[t][delivered'][2]
     IN /\ k = Key => held = {Mods[t][i] : i \in DOMAIN Mods[t]}
        /\ held' = IF k = Key THEN held ELSE IF way = "down" THEN held \cup {k} ELSE held \ {k}
  /\ UNCHANGED <<turn, outcome>>

End(t) ==
  /\ turn = t
  /\ delivered = Len(Sends[t]) /\ held = {}
  /\ turn' = Nobody /\ delivered' = 0
  /\ outcome' = [outcome EXCEPT ![t] = "ok"]
  /\ UNCHANGED held

\* A call that fails has had no turn.
Fail(t) ==
  /\ turn # t
  /\ outcome[t] = "pending"
  /\ outcome' = [outcome EXCEPT ![t] = "failed"]
  /\ UNCHANGED <<turn, delivered, held>>

Next == \E t \in Senders : Begin(t) \/ Deliver(t) \/ End(t) \/ Fail(t)

Spec == Init /\ [][Next]_vars
===============================================================================

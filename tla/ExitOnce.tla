------------------------------- MODULE ExitOnce -------------------------------
(***************************************************************************)
(* What `Child::on_exit` promises, with no thread, lock or queue in sight. *)
(* A callback is an FnOnce: whoever registers it gives it away, once.      *)
(* After the process has exited each registered callback is settled, once: *)
(* its body runs, or, if the executor that holds it may die, it is dropped.*)
(* `ran' is the sequence of the bodies entered and not their set: a body   *)
(* entered a second time is a step, and no step that is allowed here.      *)
(***************************************************************************)
EXTENDS Sequences

CONSTANTS Callbacks,
          MayDrop      \* an executor may die with callbacks in its hands

VARIABLES exited,      \* the operating system has reported the exit
          registered,  \* callbacks handed to on_exit
          ran,         \* callbacks whose body has been entered, in order
          dropped      \* callbacks that will never run

vars == <<exited, registered, ran, dropped>>

Settled == {ran[i] : i \in DOMAIN ran} \cup dropped

Init ==
  /\ exited = FALSE
  /\ registered = {}
  /\ ran = <<>>
  /\ dropped = {}

Exit ==
  /\ ~exited
  /\ exited' = TRUE
  /\ UNCHANGED <<registered, ran, dropped>>

Register(c) ==
  /\ c \notin registered
  /\ registered' = registered \cup {c}
  /\ UNCHANGED <<exited, ran, dropped>>

Run(c) ==
  /\ exited
  /\ c \in registered \ Settled
  /\ ran' = Append(ran, c)
  /\ UNCHANGED <<exited, registered, dropped>>

\* An executor takes every callback it still holds with it.
Drop(D) ==
  /\ MayDrop
  /\ exited
  /\ D \subseteq registered \ Settled
  /\ dropped' = dropped \cup D
  /\ UNCHANGED <<exited, registered, ran>>

Next ==
  \/ Exit
  \/ \E c \in Callbacks : Register(c) \/ Run(c)
  \/ \E D \in SUBSET Callbacks : Drop(D)

Spec == Init /\ [][Next]_vars
===============================================================================

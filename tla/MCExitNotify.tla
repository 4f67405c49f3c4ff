----------------------------- MODULE MCExitNotify -----------------------------
(* Constant values for TLC; the callbacks c1, c2, ... are model values. *)
EXTENDS ExitNotify

CONSTANTS c1, c2, c3

\* The body of c1 registers c2: a nested registration that is late, and that is
\* wrapped when c1 runs on a worker.
NestedC1C2 == [c \in Callbacks |-> IF c = c1 THEN c2 ELSE NoCb]
===============================================================================

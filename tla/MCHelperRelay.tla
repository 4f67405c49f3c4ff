----------------------------- MODULE MCHelperRelay -----------------------------
(* Constant values for TLC: how much the app writes, and what is not UTF-8. *)
EXTENDS HelperRelay

FourAndThree == [s \in Streams |-> IF s = "out" THEN 4 ELSE 3]
SecondErrBad == [s \in Streams |-> IF s = "err" THEN {2} ELSE {}]
===============================================================================

---------------------------- MODULE MCAdoptWindows ----------------------------
(* Constant values for TLC: two launches, with an argument they share and one  *)
(* of their own each, or with one argument each, or with none.                 *)
EXTENDS AdoptWindows, TLC

CONSTANTS l1, l2

OneEach == [l \in Launches |-> IF l = l1 THEN {"a"} ELSE {"b"}]
TwoEach == [l \in Launches |-> OneEach[l] \cup {"place"}]
FirstArgless == [l \in Launches |-> IF l = l1 THEN {} ELSE {"b"}]

NewPidSymmetry == Permutations(Pids \ OldPids)
===============================================================================

----------------------------- MODULE MCSpawnMacOS -----------------------------
(* Two piped launches and a simple one in one process, and another launcher. *)
EXTENDS SpawnMacOS

CONSTANTS l1, l2, l3, o1, q1

OneProcess == [l \in Launches |-> q1]

\* l1 and the other launcher pass arguments of their own, neither a window of the
\* other's; l2 passes none, so that it takes the first new instance it sees; l3
\* needs none.
MixedArgs == [o \in Starters |-> IF o = l1 THEN <<"place", "a">>
                                 ELSE IF o = o1 THEN <<"place", "b">>
                                 ELSE <<>>]
===============================================================================

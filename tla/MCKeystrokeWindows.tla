-------------------------- MODULE MCKeystrokeWindows --------------------------
(* Constant values for TLC: two keystrokes on two apps and one focus().        *)
EXTENDS KeystrokeWindows

CONSTANTS s1, s2, f1, a1, a2

FirstApart == [t \in Calls |-> IF t = s1 THEN a1 ELSE a2]
Modifiers == [t \in Senders |-> IF t = s1 THEN <<"ctrl", "alt">> ELSE <<"shift">>]
===============================================================================

---------------------------- MODULE MCDesktopMacOS ----------------------------
(* Two apps in the background, one of them made with Qt, and the app their user *)
(* works in.                                                                    *)
EXTENDS DesktopMacOS

CONSTANTS studio, viewer, editor, k1, p1, p2

\* The key and a press go to the Qt app, the other press to the second one.
Targets == [c \in Calls |-> IF c = p2 THEN viewer ELSE studio]
===============================================================================

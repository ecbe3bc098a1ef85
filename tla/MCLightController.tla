--------------------------- MODULE MCLightController ---------------------------
(* Instance of LightController for TLC: a cycle of three seconds, and an     *)
(* unassigned counter that is zero, inside a cycle's range or beyond it.     *)
EXTENDS LightController

MCUninitCounter == {0, 2, 5}
===============================================================================

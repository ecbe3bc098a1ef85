------------------------------ MODULE FirmwareSlots ------------------------------
(***************************************************************************)
(* What an update over the air promises: the firmware changes at a restart *)
(* only, from one complete version to another, and the version the device  *)
(* will start next is never in doubt.                                      *)
(***************************************************************************)

CONSTANT Versions

VARIABLES
  running,   \* the version being executed
  next       \* the version the next start executes

slotVars == <<running, next>>

Init == running \in Versions /\ next = running

Install ==
  /\ next' \in Versions
  /\ UNCHANGED running

Restart ==
  /\ running' = next
  /\ UNCHANGED next

Next == Install \/ Restart

Spec == Init /\ [][Next]_slotVars
===============================================================================

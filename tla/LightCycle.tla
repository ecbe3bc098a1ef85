------------------------------ MODULE LightCycle ------------------------------
(***************************************************************************)
(* What the light controller promises about one lighting cycle, without    *)
(* tasks, latches, sensors or web requests.                                *)
(*                                                                         *)
(* A cycle is started with a fixed number of seconds, counts down to zero  *)
(* and can be neither restarted nor lengthened on the way.  The lamp may   *)
(* be put out at any moment, may be lit only while a cycle is counting,    *)
(* and is put out when the cycle is over.                                  *)
(***************************************************************************)
EXTENDS Naturals

CONSTANT Duration   \* seconds of one cycle

VARIABLES
  remaining,        \* seconds the running cycle has left; 0 when none runs
  lamp              \* is the lamp lit?

cycleVars == <<remaining, lamp>>

Init ==
  /\ remaining = 0
  /\ lamp = FALSE

(* A cycle begins, with the lamp still dark. *)
StartCycle ==
  /\ remaining = 0
  /\ ~lamp
  /\ remaining' = Duration
  /\ UNCHANGED lamp

LightUp ==
  /\ remaining > 0
  /\ lamp' = TRUE
  /\ UNCHANGED remaining

PutOut ==
  /\ lamp' = FALSE
  /\ UNCHANGED remaining

Second ==
  /\ remaining > 0
  /\ remaining' = remaining - 1
  /\ UNCHANGED lamp

Next == StartCycle \/ LightUp \/ PutOut \/ Second

SafeSpec == Init /\ [][Next]_cycleVars

(* The cycle's clock does not stop and an expired cycle is cleaned up. *)
FairSpec ==
  /\ SafeSpec
  /\ WF_cycleVars(Second)
  /\ WF_cycleVars(remaining = 0 /\ PutOut)
===============================================================================

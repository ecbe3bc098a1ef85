------------------------- MODULE LightController_proofs -------------------------
(***************************************************************************)
(* Proofs about LightController, for every lightEnabledTimeS, every value  *)
(* the unassigned counter may hold and every set of web requests.          *)
(***************************************************************************)
EXTENDS LightController, TLAPS

(* The countdown has exactly the life of m_lightEnabled, and the step of    *)
(* the dispatcher says which of the writes of SetLightState are still due.  *)
(* The two safety invariants are not inductive alone: that DriveHigh lights *)
(* the lamp under a running countdown, and that DriveLow finds none, is     *)
(* only known from these.                                                   *)
CountdownInv ==
  /\ m_lightEnabled => m_enabledCounterS > 0
  /\ dispatcher = "drivingHigh" => m_lightEnabled
  /\ dispatcher = "drivingLow" => ~m_lightEnabled /\ m_enabledCounterS = 0

Inv == TypeOK /\ CountdownInv /\ LampNeverUnattended /\ LatchCoversCycle

(* The invariant holds when the constructor has returned. *)
LEMMA InitInv == Init => Inv
  BY UninitCounterAssumption
  DEF Init, Inv, TypeOK, CountdownInv, LampNeverUnattended, LatchCoversCycle

(* Every step of either task preserves the invariant. *)
LEMMA NextInv == Inv /\ [Next]_vars => Inv'
<1> SUFFICES ASSUME Inv, [Next]_vars PROVE Inv'
  OBVIOUS
<1> USE LightEnabledTimeAssumption
    DEF Inv, TypeOK, CountdownInv, LampNeverUnattended, LatchCoversCycle
<1>1. ASSUME NEW movementDetected \in BOOLEAN, PresenceCallback(movementDetected)
      PROVE  Inv'
  <2>1. CASE ~Triggers(movementDetected)
    BY <1>1, <2>1 DEF PresenceCallback
  <2>2. CASE Triggers(movementDetected) /\ m_overrideFlag
    <3>1. ~m_lightEnabled \/ dispatcher = "drivingHigh"
      BY <2>2 DEF Triggers
    <3> QED
      BY <1>1, <2>2, <3>1 DEF PresenceCallback
  <2>3. CASE Triggers(movementDetected) /\ ~m_overrideFlag
    <3>1. ~m_movementLatch
      BY <2>3 DEF Triggers
    <3> QED
      BY <1>1, <2>3, <3>1 DEF PresenceCallback
  <2> QED
    BY <2>1, <2>2, <2>3
<1>2. CASE StartCountdown
  BY <1>2 DEF StartCountdown
<1>3. CASE DriveHigh
  BY <1>3 DEF DriveHigh
<1>4. ASSUME NEW brightness \in BrightnessLevel, BrightnessCallback(brightness)
      PROVE  Inv'
  BY <1>4 DEF BrightnessCallback
<1>5. CASE Update
  <2>1. CASE m_enabledCounterS = 0
    BY <1>5, <2>1 DEF Update
  <2>2. CASE m_enabledCounterS > 1
    BY <1>5, <2>2 DEF Update
  <2>3. CASE m_enabledCounterS = 1
    <3>1. /\ m_enabledCounterS' = 0
          /\ m_lightEnabled' = FALSE
          /\ dispatcher' = "drivingLow"
          /\ UNCHANGED <<m_isDark, m_movementLatch, m_overrideFlag, gpio, httpd>>
      BY <1>5, <2>3 DEF Update
    <3> QED
      BY <3>1
  <2> QED
    BY <2>1, <2>2, <2>3
<1>6. CASE DriveLow
  BY <1>6 DEF DriveLow
<1>7. CASE DisableController
  BY <1>7 DEF DisableController, dispatcherVars
<1>8. CASE DisableDrivesLow
  BY <1>8 DEF DisableDrivesLow, dispatcherVars
<1>9. CASE EnableController
  BY <1>9 DEF EnableController, dispatcherVars
<1>10. CASE UNCHANGED vars
  BY <1>10 DEF vars, dispatcherVars
<1> QED
  BY <1>1, <1>2, <1>3, <1>4, <1>5, <1>6, <1>7, <1>8, <1>9, <1>10
     DEF Next, DispatcherStep, HttpdStep

(* The invariant holds throughout every behaviour of the controller. *)
THEOREM Invariance == Spec => []Inv
<1> QED
  BY InitInv, NextInv, PTL DEF Spec

(* Every member keeps its type; in particular Update() never takes the      *)
(* countdown below zero.                                                    *)
THEOREM TypeCorrect == Spec => []TypeOK
<1>1. Inv => TypeOK
  BY DEF Inv
<1> QED
  BY <1>1, Invariance, PTL

(* The lamp never burns without a countdown that will put it out, however   *)
(* web requests interleave with the dispatcher.                             *)
THEOREM LampAttended == Spec => []LampNeverUnattended
<1>1. Inv => LampNeverUnattended
  BY DEF Inv
<1> QED
  BY <1>1, Invariance, PTL

(* From the first write of SetLightState(true) to the end of the countdown  *)
(* no movement report can start the countdown again.                        *)
THEOREM CycleLatched == Spec => []LatchCoversCycle
<1>1. Inv => LatchCoversCycle
  BY DEF Inv
<1> QED
  BY <1>1, Invariance, PTL

-------------------------------------------------------------------------------
(* Refinement of the abstract lighting cycle.                               *)

(* A new controller runs no cycle. *)
LEMMA InitRefines == Init => Cycle!Init
  BY DEF Init, Cycle!Init

(* Every step of either task is a step of the abstract cycle or changes     *)
(* nothing of it.                                                           *)
LEMMA StepRefines == Inv /\ [Next]_vars => [Cycle!Next]_(Cycle!cycleVars)
<1> SUFFICES ASSUME Inv, [Next]_vars PROVE [Cycle!Next]_(Cycle!cycleVars)
  OBVIOUS
<1> USE LightEnabledTimeAssumption
    DEF Inv, TypeOK, CountdownInv, LampNeverUnattended, LatchCoversCycle,
        Cycle!Next, Cycle!cycleVars
<1>1. ASSUME NEW movementDetected \in BOOLEAN, PresenceCallback(movementDetected)
      PROVE  UNCHANGED Cycle!cycleVars
  BY <1>1 DEF PresenceCallback
<1>2. ASSUME StartCountdown PROVE Cycle!StartCycle
  BY <1>2 DEF StartCountdown, Cycle!StartCycle
<1>3. ASSUME DriveHigh PROVE Cycle!LightUp
  BY <1>3 DEF DriveHigh, Cycle!LightUp
<1>4. ASSUME NEW brightness \in BrightnessLevel, BrightnessCallback(brightness)
      PROVE  UNCHANGED Cycle!cycleVars
  BY <1>4 DEF BrightnessCallback
<1>5. ASSUME Update PROVE Cycle!Second \/ UNCHANGED Cycle!cycleVars
  BY <1>5 DEF Update, Cycle!Second
<1>6. ASSUME DriveLow PROVE Cycle!PutOut
  BY <1>6 DEF DriveLow, Cycle!PutOut
<1>7. ASSUME HttpdStep PROVE Cycle!PutOut \/ UNCHANGED Cycle!cycleVars
  BY <1>7 DEF HttpdStep, DisableController, DisableDrivesLow, EnableController,
              dispatcherVars, Cycle!PutOut
<1>8. ASSUME UNCHANGED vars PROVE UNCHANGED Cycle!cycleVars
  BY <1>8 DEF vars, dispatcherVars
<1> QED
  BY <1>1, <1>2, <1>3, <1>4, <1>5, <1>6, <1>7, <1>8 DEF Next, DispatcherStep

(* The controller implements the safety part of the abstract cycle: the     *)
(* lamp is lit only inside a cycle, and a cycle starts dark, at its full    *)
(* length, and is never lengthened.                                         *)
THEOREM CycleSafety == Spec => Cycle!SafeSpec
<1> QED
  BY InitRefines, StepRefines, Invariance, PTL DEF Spec, Cycle!SafeSpec
===============================================================================

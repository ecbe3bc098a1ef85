--------------------------- MODULE LightSystem_proofs ---------------------------
(***************************************************************************)
(* Proofs about LightSystem, for every length of the cycle, every number   *)
(* of passes between two slow ones, all sensor values and all web          *)
(* requests.  What LightController_proofs shows of the controller alone is *)
(* carried over: the composition is first shown to implement the           *)
(* controller's specification.                                             *)
(***************************************************************************)
EXTENDS LightSystem, Integers, TLAPS

Controller == INSTANCE LightController_proofs

-------------------------------------------------------------------------------
(* The composition implements the controller.                               *)

(* The sensors call the callbacks with arguments of the declared types.     *)
LEMMA MovementIsBoolean == Presence!Measure => m_currentState' \in Presence!SensorCurrentState
  BY DEF Presence!Measure, Presence!Presence, Presence!Movement,
         Presence!SensorCurrentState

(* A level of the map, or the dark one beyond its last key. *)
LEMMA LevelType ==
  ASSUME NEW resistance
  PROVE  Photo!BrightnessOf(resistance) \in Photo!BrightnessLevel
<1>1. 0 \in Photo!BrightnessLevel
  BY DEF Photo!BrightnessLevel, Photo!BRIGHTNESS_DARK, Photo!BRIGHTNESS_EXTREMELY_BRIGHT
<1> QED
  BY <1>1, Zenon DEF Photo!BrightnessOf, Photo!BRIGHTNESS_DARK

LEMMA SameLevels == Photo!BrightnessLevel = Light!BrightnessLevel
  BY DEF Photo!BrightnessLevel, Photo!BRIGHTNESS_DARK, Photo!BRIGHTNESS_EXTREMELY_BRIGHT,
         Light!BrightnessLevel

LEMMA InitRefines == Init => Light!Init
  BY DEF Init

(* Every entry of a pass, every step of the HTTP server and every step      *)
(* inside SetLightState is a step of the controller or none.                *)
LEMMA StepRefines == [Next]_vars => [Light!Next]_(Light!vars)
<1> SUFFICES ASSUME [Next]_vars PROVE [Light!Next]_(Light!vars)
  OBVIOUS
<1>1. UNCHANGED lightVars => UNCHANGED Light!vars
  BY DEF lightVars, Light!vars, Light!dispatcherVars
<1>2. CASE PresenceSensorUpdate
  <2>1. CASE Presence!StateChanged
    <3>1. m_currentState'.movementDetected \in BOOLEAN
      BY <1>2, MovementIsBoolean DEF PresenceSensorUpdate, Presence!SensorCurrentState
    <3>2. Light!PresenceCallback(m_currentState'.movementDetected)
      BY <1>2, <2>1 DEF PresenceSensorUpdate
    <3> QED
      BY <3>1, <3>2 DEF Light!Next, Light!DispatcherStep
  <2>2. CASE ~Presence!StateChanged
    BY <1>1, <1>2, <2>2 DEF PresenceSensorUpdate
  <2> QED
    BY <2>1, <2>2
<1>3. CASE AdcUpdate
  BY <1>1, <1>3 DEF AdcUpdate
<1>4. CASE PhotoresistorUpdate
  <2>1. CASE Photo!BrightnessChanged
    <3>1. m_currentBrightness' \in Light!BrightnessLevel
      BY <1>4, LevelType, SameLevels DEF PhotoresistorUpdate, Photo!Update
    <3>2. Light!BrightnessCallback(m_currentBrightness')
      BY <1>4, <2>1 DEF PhotoresistorUpdate
    <3> QED
      BY <3>1, <3>2 DEF Light!Next, Light!DispatcherStep
  <2>2. CASE ~Photo!BrightnessChanged
    BY <1>1, <1>4, <2>2 DEF PhotoresistorUpdate
  <2> QED
    BY <2>1, <2>2
<1>5. CASE LightControllerUpdate
  BY <1>5 DEF LightControllerUpdate, Light!Next, Light!DispatcherStep
<1>6. CASE SkipSlowEntry \/ NextPass
  BY <1>1, <1>6 DEF SkipSlowEntry, NextPass
<1>7. CASE ControllerStep
  BY <1>7 DEF ControllerStep, Light!Next, Light!DispatcherStep
<1>8. CASE HttpServer
  BY <1>8 DEF HttpServer, Light!Next, Light!HttpdStep
<1>9. CASE UNCHANGED vars
  BY <1>1, <1>9 DEF vars
<1> QED
  BY <1>2, <1>3, <1>4, <1>5, <1>6, <1>7, <1>8, <1>9 DEF Next, DispatcherTask

(* Inside the composition the controller does what LightController says:    *)
(* the assumptions of that module on how it is called are met by the order  *)
(* of the dispatcher's entries and by the sensors' tests for a change.      *)
THEOREM ControllerImplementedSafely == Spec => Light!Spec
  BY InitRefines, StepRefines, PTL DEF Spec, Light!Spec

(* LightController_proofs speaks of its own instance of the controller. *)
LEMMA SameController == Light!Spec => Controller!Spec
<1>1. Light!Init => Controller!Init
  BY DEF Light!Init, Controller!Init
<1>2. [Light!Next]_(Light!vars) => [Controller!Next]_(Controller!vars)
  <2> SUFFICES ASSUME [Light!Next]_(Light!vars) PROVE [Controller!Next]_(Controller!vars)
    OBVIOUS
  <2>1. UNCHANGED Light!vars => UNCHANGED Controller!vars
    BY DEF Light!vars, Light!dispatcherVars, Controller!vars, Controller!dispatcherVars
  <2>2. ASSUME NEW movementDetected \in BOOLEAN, Light!PresenceCallback(movementDetected)
        PROVE  Controller!PresenceCallback(movementDetected)
    BY <2>2 DEF Light!PresenceCallback, Controller!PresenceCallback,
                Light!Triggers, Controller!Triggers
  <2>3. ASSUME NEW brightness \in Light!BrightnessLevel, Light!BrightnessCallback(brightness)
        PROVE  /\ brightness \in Controller!BrightnessLevel
               /\ Controller!BrightnessCallback(brightness)
    BY <2>3 DEF Light!BrightnessCallback, Controller!BrightnessCallback,
                Light!BRIGHTNESS_DIM, Controller!BRIGHTNESS_DIM,
                Light!BrightnessLevel, Controller!BrightnessLevel
  <2>4. Light!StartCountdown => Controller!StartCountdown
    BY DEF Light!StartCountdown, Controller!StartCountdown
  <2>5. Light!DriveHigh => Controller!DriveHigh
    BY DEF Light!DriveHigh, Controller!DriveHigh
  <2>6. Light!DriveLow => Controller!DriveLow
    BY DEF Light!DriveLow, Controller!DriveLow
  <2>7. Light!Update => Controller!Update
    BY DEF Light!Update, Controller!Update
  <2>8. Light!HttpdStep => Controller!HttpdStep
    BY DEF Light!HttpdStep, Controller!HttpdStep,
           Light!DisableController, Controller!DisableController,
           Light!DisableDrivesLow, Controller!DisableDrivesLow,
           Light!EnableController, Controller!EnableController,
           Light!dispatcherVars, Controller!dispatcherVars
  <2> QED
    BY <2>1, <2>2, <2>3, <2>4, <2>5, <2>6, <2>7, <2>8
       DEF Light!Next, Light!DispatcherStep, Controller!Next, Controller!DispatcherStep
<1> QED
  BY <1>1, <1>2, PTL DEF Light!Spec, Controller!Spec

(* What the controller keeps on its own it keeps in the composition. *)
LEMMA ControllerInvariance == Spec => []Controller!Inv
<1>1. Controller!Spec => []Controller!Inv
  BY ControllerAssumption, Controller!Invariance DEF Light!WebRequest, Controller!WebRequest
<1> QED
  BY <1>1, ControllerImplementedSafely, SameController, PTL
-------------------------------------------------------------------------------
(* The inductive invariant of the composition.                              *)

(* A second of the running cycle that is due in this pass: the pass is the  *)
(* slow one and has not reached the controller's Update.                    *)
due == IF tickCount = 0 /\ entry # "delay" THEN 1 ELSE 0

(* The passes that the counted seconds and the position in the current      *)
(* second account for.                                                      *)
accounted ==
  (lightEnabledTimeS - m_enabledCounterS + due) * SLOW_TASK_COUNTER + tickCount

(* From the start of a cycle on, the passes begun and those accounted for   *)
(* differ by the part of a second that had gone when it was started.        *)
CycleTracked ==
  m_lightEnabled =>
    /\ m_enabledCounterS <= lightEnabledTimeS
    /\ cyclePasses < accounted
    /\ accounted <= cyclePasses + SLOW_TASK_COUNTER

(* A cycle is started while the dispatcher is in the presence sensor's      *)
(* Update, so that the slow entry of that pass is still to come.            *)
PassesInv ==
  /\ dispatcher \in {"enabling", "drivingHigh"} => entry = "adc"
  /\ ~m_lightEnabled /\ entry # "delay" => cyclePasses = 0
  /\ CycleTracked

(* Before the first request the override flag is down and the HTTP server   *)
(* is nowhere in the controller.                                            *)
AskedInv ==
  ~requested =>
    /\ ~m_overrideFlag
    /\ httpd = "idle"
    /\ Light!ReportedStateIsLamp
    /\ Light!EnabledIsArmed

Inv == TypeOK /\ DarknessTracksSensor /\ PassesInv /\ AskedInv

(* What the steps below use of the controller's own invariant. *)
LEMMA ControllerFacts ==
  Controller!Inv =>
    /\ Light!TypeOK
    /\ m_lightEnabled => m_enabledCounterS > 0
    /\ dispatcher = "enabling" => ~m_lightEnabled
    /\ dispatcher = "drivingHigh" => m_lightEnabled
    /\ dispatcher = "drivingLow" => ~m_lightEnabled
  BY DEF Controller!Inv, Controller!TypeOK, Light!TypeOK, Controller!CountdownInv,
         Controller!LatchCoversCycle

-------------------------------------------------------------------------------
(* Types.                                                                   *)

(* What a conversion yields: just below the supply voltage the divisor is 1, *)
(* at or above it the code gives a constant.                                *)
LEMMA Resistance ==
  ASSUME NEW raw \in Nat
  PROVE  Photo!CalculateResistance(Photo!CurrentVoltageMv(raw)) \in 0 .. Photo!HighestResistance
<1> DEFINE mv == Photo!CurrentVoltageMv(raw)
           highest == Photo!HighestResistance
<1>1. highest \in Nat /\ highest >= 692790000
  BY SMT DEF Photo!HighestResistance, Photo!DIVIDER_SUPPLY_VOLTAGE_MV, Photo!DIVIDER_RESISTOR
<1>2. mv \in Nat
  <2>1. raw * 2500 \in Nat /\ \A a \in Nat : a \div 4096 \in Nat
    BY SMT
  <2> QED
    BY <2>1, SMT DEF Photo!CurrentVoltageMv, Photo!ADC_REFERENCE_VOLTAGE_MV,
                     Photo!ADC_RESOLUTION_BIT
<1> HIDE DEF mv, highest
<1> SUFFICES Photo!CalculateResistance(mv) \in 0 .. highest
  BY DEF mv, highest
<1>3. CASE mv >= 3300
  BY <1>1, <1>2, <1>3, SMT DEF Photo!CalculateResistance, Photo!DIVIDER_SUPPLY_VOLTAGE_MV
<1>4. CASE mv < 3300
  <2>1. /\ mv * 210000 \in Nat /\ 3300 - mv \in Nat /\ 3300 - mv >= 1
        /\ mv * 210000 <= highest
    BY <1>1, <1>2, <1>4, SMT
  <2>2. \A a, b \in Nat : b >= 1 => a \div b \in Int /\ a \div b >= 0 /\ a \div b <= a
    BY SMT
  <2>3. Photo!CalculateResistance(mv) = (mv * 210000) \div (3300 - mv)
    BY <1>2, <1>4, SMT
       DEF Photo!CalculateResistance, Photo!DIVIDER_SUPPLY_VOLTAGE_MV, Photo!DIVIDER_RESISTOR
  <2> QED
    BY <1>1, <2>1, <2>2, <2>3, SMT
<1> QED
  BY <1>2, <1>3, <1>4

LEMMA NothingMeasured == 0 \in 0 .. Photo!HighestResistance
<1>1. Photo!HighestResistance \in Nat
  BY SMT DEF Photo!HighestResistance, Photo!DIVIDER_SUPPLY_VOLTAGE_MV, Photo!DIVIDER_RESISTOR
<1> QED
  BY <1>1, SMT

LEMMA PhotoTypeSteps ==
  ASSUME Photo!TypeOK, Photo!AdcUpdate \/ Photo!Update \/ UNCHANGED photoVars
  PROVE  Photo!TypeOK'
<1>1. CASE Photo!AdcUpdate
  BY <1>1 DEF Photo!AdcUpdate, Photo!TypeOK
<1>2. CASE Photo!Update
  <2>1. m_currentRawValue \in Nat
    BY SensorAssumption DEF Photo!TypeOK
  <2>2. m_currentResistance' \in 0 .. Photo!HighestResistance
    BY <1>2, <2>1, Resistance DEF Photo!Update
  <2>3. m_currentBrightness' \in Photo!BrightnessLevel
    BY <1>2, LevelType DEF Photo!Update
  <2> QED
    BY <1>2, <2>2, <2>3 DEF Photo!Update, Photo!TypeOK
<1>3. CASE UNCHANGED photoVars
  BY <1>3 DEF photoVars, Photo!TypeOK
<1> QED
  BY <1>1, <1>2, <1>3

LEMMA PresenceTypeSteps ==
  ASSUME currentTargetData \in TargetData \cup UninitTargetData,
         m_currentState \in Presence!SensorCurrentState,
         Presence!Measure \/ UNCHANGED presenceVars
  PROVE  /\ currentTargetData' \in TargetData \cup UninitTargetData
         /\ m_currentState' \in Presence!SensorCurrentState
  BY MovementIsBoolean DEF Presence!Measure, Presence!ReadTarget, presenceVars

(* Which part of the sensors' state a step changes. *)
LEMMA SensorSteps ==
  [Next]_vars =>
    /\ Presence!Measure \/ UNCHANGED presenceVars
    /\ Photo!AdcUpdate \/ Photo!Update \/ UNCHANGED photoVars
  BY DEF Next, DispatcherTask, HttpServer, PresenceSensorUpdate, AdcUpdate,
         PhotoresistorUpdate, LightControllerUpdate, SkipSlowEntry, NextPass,
         ControllerStep, vars

(* Where a pass goes on, and what it counts. *)
LEMMA PassSteps ==
  ASSUME TypeOK, [Next]_vars
  PROVE  /\ entry' \in {"presenceSensor", "adc", "photoresistor", "lightController", "delay"}
         /\ tickCount' \in 0 .. SLOW_TASK_COUNTER - 1
         /\ cyclePasses' \in Nat
         /\ requested' \in BOOLEAN
<1> USE SlowTaskCounterAssumption DEF TypeOK, Call
<1>1. CASE PresenceSensorUpdate
  BY <1>1 DEF PresenceSensorUpdate
<1>2. CASE AdcUpdate
  BY <1>2 DEF AdcUpdate
<1>3. CASE PhotoresistorUpdate
  BY <1>3 DEF PhotoresistorUpdate
<1>4. CASE LightControllerUpdate
  BY <1>4 DEF LightControllerUpdate
<1>5. CASE SkipSlowEntry
  BY <1>5 DEF SkipSlowEntry
<1>6. CASE NextPass
  BY <1>6 DEF NextPass
<1>7. CASE ControllerStep
  BY <1>7 DEF ControllerStep
<1>8. CASE HttpServer
  BY <1>8 DEF HttpServer
<1>9. CASE UNCHANGED vars
  BY <1>9 DEF vars
<1> QED
  BY <1>1, <1>2, <1>3, <1>4, <1>5, <1>6, <1>7, <1>8, <1>9 DEF Next, DispatcherTask

LEMMA TypeSteps ==
  ASSUME TypeOK, [Next]_vars, Controller!Inv'
  PROVE  TypeOK'
<1>1. Light!TypeOK'
  BY DEF Controller!Inv, Controller!TypeOK, Light!TypeOK
<1>2. Photo!TypeOK'
  BY SensorSteps, PhotoTypeSteps DEF TypeOK
<1>3. /\ currentTargetData' \in TargetData \cup UninitTargetData
      /\ m_currentState' \in Presence!SensorCurrentState
  BY SensorSteps, PresenceTypeSteps DEF TypeOK
<1> QED
  BY <1>1, <1>2, <1>3, PassSteps DEF TypeOK

-------------------------------------------------------------------------------
(* The darkness of the controller.                                          *)

LEMMA LightStepsKeepDarkness ==
  Light!StartCountdown \/ Light!DriveHigh \/ Light!DriveLow \/ Light!Update \/ Light!HttpdStep
    => UNCHANGED m_isDark
  BY DEF Light!StartCountdown, Light!DriveHigh, Light!DriveLow, Light!Update,
         Light!HttpdStep, Light!DisableController, Light!DisableDrivesLow,
         Light!EnableController, Light!dispatcherVars

LEMMA DarknessSteps ==
  ASSUME DarknessTracksSensor, [Next]_vars
  PROVE  DarknessTracksSensor'
<1> USE DEF DarknessTracksSensor, Light!BRIGHTNESS_DIM
<1>1. CASE PresenceSensorUpdate
  <2>1. UNCHANGED m_isDark
    BY <1>1 DEF PresenceSensorUpdate, Light!PresenceCallback, lightVars
  <2> QED
    BY <1>1, <2>1 DEF PresenceSensorUpdate, photoVars
<1>2. CASE AdcUpdate
  BY <1>2 DEF AdcUpdate, Photo!AdcUpdate, lightVars
<1>3. CASE PhotoresistorUpdate
  <2>1. CASE Photo!BrightnessChanged
    BY <1>3, <2>1 DEF PhotoresistorUpdate, Light!BrightnessCallback
  <2>2. CASE ~Photo!BrightnessChanged
    BY <1>3, <2>2 DEF PhotoresistorUpdate, Photo!BrightnessChanged, lightVars
  <2> QED
    BY <2>1, <2>2
<1>4. CASE LightControllerUpdate \/ ControllerStep \/ HttpServer
  <2>1. UNCHANGED m_isDark
    BY <1>4, LightStepsKeepDarkness
       DEF LightControllerUpdate, ControllerStep, HttpServer, Light!HttpdStep
  <2> QED
    BY <1>4, <2>1 DEF LightControllerUpdate, ControllerStep, HttpServer, photoVars
<1>5. CASE SkipSlowEntry \/ NextPass
  BY <1>5 DEF SkipSlowEntry, NextPass, lightVars, photoVars
<1>6. CASE UNCHANGED vars
  BY <1>6 DEF vars, lightVars, photoVars
<1> QED
  BY <1>1, <1>2, <1>3, <1>4, <1>5, <1>6 DEF Next, DispatcherTask

-------------------------------------------------------------------------------
(* Before the first request.                                                *)

LEMMA AskedSteps ==
  ASSUME TypeOK, AskedInv, Controller!Inv, [Next]_vars
  PROVE  AskedInv'
<1> SUFFICES ASSUME ~requested'
             PROVE  /\ ~m_overrideFlag'
                    /\ httpd' = "idle"
                    /\ Light!ReportedStateIsLamp'
                    /\ Light!EnabledIsArmed'
  BY DEF AskedInv
<1> USE DEF Light!ReportedStateIsLamp, Light!EnabledIsArmed
<1>1. /\ m_lightEnabled => m_enabledCounterS > 0
      /\ dispatcher = "drivingHigh" => m_lightEnabled
      /\ dispatcher = "drivingLow" => ~m_lightEnabled
      /\ m_enabledCounterS \in Nat
  BY ControllerFacts DEF Light!TypeOK
<1>2. ASSUME ~requested
      PROVE  /\ ~m_overrideFlag
             /\ httpd = "idle"
             /\ Light!ReportedStateIsLamp
             /\ Light!EnabledIsArmed
  BY <1>2 DEF AskedInv
<1>3. CASE UNCHANGED <<lightVars, requested>>
  BY <1>2, <1>3 DEF lightVars
<1>4. CASE PresenceSensorUpdate
  <2>1. ~requested
    BY <1>4 DEF PresenceSensorUpdate, Call
  <2>2. CASE ~Presence!StateChanged
    BY <1>3, <1>4, <2>2 DEF PresenceSensorUpdate, Call
  <2>3. CASE Presence!StateChanged
    BY <1>2, <1>4, <2>1, <2>3 DEF PresenceSensorUpdate, Light!PresenceCallback
  <2> QED
    BY <2>2, <2>3
<1>5. CASE PhotoresistorUpdate
  <2>1. ~requested
    BY <1>5 DEF PhotoresistorUpdate, Call
  <2>2. CASE ~Photo!BrightnessChanged
    BY <1>3, <1>5, <2>2 DEF PhotoresistorUpdate, Call
  <2>3. CASE Photo!BrightnessChanged
    BY <1>2, <1>5, <2>1, <2>3 DEF PhotoresistorUpdate, Light!BrightnessCallback
  <2> QED
    BY <2>2, <2>3
<1>6. CASE LightControllerUpdate
  <2>1. ~requested /\ Light!Update
    BY <1>6 DEF LightControllerUpdate, Call
  <2> QED
    BY <1>1, <1>2, <2>1 DEF Light!Update
<1>7. CASE ControllerStep
  <2>1. /\ ~requested
        /\ Light!StartCountdown \/ Light!DriveHigh \/ Light!DriveLow
    BY <1>7 DEF ControllerStep
  <2>2. CASE Light!StartCountdown
    BY <1>2, <2>1, <2>2 DEF Light!StartCountdown
  <2>3. CASE Light!DriveHigh
    BY <1>1, <1>2, <2>1, <2>3 DEF Light!DriveHigh, TypeOK, Light!TypeOK
  <2>4. CASE Light!DriveLow
    BY <1>1, <1>2, <2>1, <2>4 DEF Light!DriveLow, TypeOK, Light!TypeOK
  <2> QED
    BY <2>1, <2>2, <2>3, <2>4
<1>8. CASE HttpServer
  BY <1>8 DEF HttpServer
<1> QED
  BY <1>3, <1>4, <1>5, <1>6, <1>7, <1>8
     DEF Next, DispatcherTask, AdcUpdate, SkipSlowEntry, NextPass, Call, vars

-------------------------------------------------------------------------------
(* The passes of a cycle.                                                   *)

LEMMA Counting ==
  ASSUME NEW n \in Nat
  PROVE  /\ n * SLOW_TASK_COUNTER \in Nat
         /\ (n + 1) * SLOW_TASK_COUNTER = n * SLOW_TASK_COUNTER + SLOW_TASK_COUNTER
  BY SlowTaskCounterAssumption, SMT

(* A step that changes none of the counters and leaves a due second due. *)
LEMMA SameCount ==
  ASSUME CycleTracked,
         UNCHANGED <<m_lightEnabled, m_enabledCounterS, tickCount, cyclePasses>>,
         due' = due
  PROVE  CycleTracked'
<1>1. accounted' = accounted
  BY DEF accounted
<1> QED
  BY <1>1 DEF CycleTracked

(* The controller's Update, in the slow pass: the second that was due is    *)
(* counted.                                                                 *)
LEMMA UpdateCounts ==
  ASSUME TypeOK, CycleTracked, LightControllerUpdate,
         m_lightEnabled => m_enabledCounterS > 0
  PROVE  CycleTracked'
<1> SUFFICES ASSUME m_lightEnabled'
             PROVE  /\ m_enabledCounterS' <= lightEnabledTimeS
                    /\ cyclePasses' < accounted'
                    /\ accounted' <= cyclePasses' + SLOW_TASK_COUNTER
  BY DEF CycleTracked
<1>1. /\ m_lightEnabled /\ m_enabledCounterS > 1
      /\ m_enabledCounterS' = m_enabledCounterS - 1
      /\ UNCHANGED <<tickCount, cyclePasses>>
      /\ tickCount = 0 /\ entry # "delay" /\ entry' = "delay"
  <2>1. m_enabledCounterS \in Nat /\ m_lightEnabled \in BOOLEAN
    BY DEF TypeOK, Light!TypeOK
  <2>2. Light!Update
    BY DEF LightControllerUpdate
  <2>3. /\ UNCHANGED <<tickCount, cyclePasses>>
        /\ tickCount = 0 /\ entry # "delay" /\ entry' = "delay"
    BY DEF LightControllerUpdate, Call, slowTaskTrigger
  <2>4. CASE m_enabledCounterS = 0
    <3>1. m_lightEnabled
      BY <2>2, <2>4, Zenon DEF Light!Update
    <3>2. m_enabledCounterS > 0
      BY <3>1
    <3> QED
      BY <2>4, <3>2
  <2>5. CASE m_enabledCounterS > 1
    <3>1. m_enabledCounterS # 0 /\ m_enabledCounterS # 1
      BY <2>1, <2>5
    <3>2. m_lightEnabled /\ m_enabledCounterS' = m_enabledCounterS - 1
      BY <2>2, <3>1, Zenon DEF Light!Update
    <3> QED
      BY <2>3, <2>5, <3>2
  <2>6. CASE m_enabledCounterS = 1
    BY <2>2, <2>6 DEF Light!Update
  <2> QED
    BY <2>1, <2>4, <2>5, <2>6
<1>2. due = 1 /\ due' = 0
  BY <1>1 DEF due
<1>3. /\ m_enabledCounterS \in Nat /\ lightEnabledTimeS \in Nat
      /\ m_enabledCounterS <= lightEnabledTimeS
  BY <1>1, ControllerAssumption DEF TypeOK, Light!TypeOK, CycleTracked
<1>4. lightEnabledTimeS - m_enabledCounterS' + due' = lightEnabledTimeS - m_enabledCounterS + due
  BY <1>1, <1>2, <1>3
<1>5. accounted' = accounted
  BY <1>1, <1>4 DEF accounted
<1> QED
  BY <1>1, <1>3, <1>5 DEF CycleTracked

(* The next pass begins: one more pass, and one more accounted for, be it   *)
(* by tickCount or, after its wrap, by the second that is due.              *)
LEMMA PassCounts ==
  ASSUME TypeOK, CycleTracked, NextPass
  PROVE  CycleTracked'
<1> SUFFICES ASSUME m_lightEnabled'
             PROVE  /\ m_enabledCounterS' <= lightEnabledTimeS
                    /\ cyclePasses' < accounted'
                    /\ accounted' <= cyclePasses' + SLOW_TASK_COUNTER
  BY DEF CycleTracked
<1>1. /\ m_lightEnabled
      /\ UNCHANGED <<m_lightEnabled, m_enabledCounterS>>
      /\ cyclePasses' = cyclePasses + 1
      /\ entry = "delay" /\ entry' = "presenceSensor"
      /\ tickCount' = IF tickCount + 1 >= SLOW_TASK_COUNTER THEN 0 ELSE tickCount + 1
  BY DEF NextPass, lightVars
<1>2. /\ m_enabledCounterS \in Nat /\ lightEnabledTimeS \in Nat
      /\ m_enabledCounterS <= lightEnabledTimeS
      /\ tickCount \in 0 .. SLOW_TASK_COUNTER - 1 /\ cyclePasses \in Nat
      /\ SLOW_TASK_COUNTER \in Nat
  BY <1>1, ControllerAssumption, SlowTaskCounterAssumption
     DEF TypeOK, Light!TypeOK, CycleTracked
<1> DEFINE n == lightEnabledTimeS - m_enabledCounterS
<1>3. n \in Nat
  BY <1>2
<1>4. accounted = n * SLOW_TASK_COUNTER + tickCount
  <2>1. due = 0
    BY <1>1 DEF due
  <2>2. lightEnabledTimeS - m_enabledCounterS + due = n
    BY <1>3, <2>1
  <2> QED
    BY <2>2 DEF accounted
<1>5. accounted' = accounted + 1
  <2>1. n' = n
    BY <1>1
  <2>2. CASE tickCount + 1 >= SLOW_TASK_COUNTER
    <3>1. tickCount' = 0 /\ due' = 1 /\ tickCount = SLOW_TASK_COUNTER - 1
      BY <1>1, <1>2, <2>2 DEF due
    <3>2. accounted' = (n + 1) * SLOW_TASK_COUNTER + tickCount'
      BY <2>1, <3>1 DEF accounted
    <3> HIDE DEF n
    <3> QED
      BY <1>2, <1>3, <1>4, <3>1, <3>2, Counting
  <2>3. CASE ~(tickCount + 1 >= SLOW_TASK_COUNTER)
    <3>1. tickCount' = tickCount + 1 /\ due' = 0
      BY <1>1, <1>2, <2>3 DEF due
    <3>2. accounted' = (n + 0) * SLOW_TASK_COUNTER + tickCount'
      BY <2>1, <3>1 DEF accounted
    <3>3. accounted' = n * SLOW_TASK_COUNTER + tickCount'
      BY <1>3, <3>2
    <3> HIDE DEF n
    <3> QED
      BY <1>2, <1>3, <1>4, <3>1, <3>3, Counting
  <2> QED
    BY <2>2, <2>3
<1>6. accounted \in Nat
  <2> HIDE DEF n
  <2> QED
    BY <1>2, <1>3, <1>4, Counting
<1> QED
  BY <1>1, <1>2, <1>5, <1>6 DEF CycleTracked

(* SetLightState(true): no second is counted and no pass has begun since. *)
LEMMA StartCounts ==
  ASSUME TypeOK, PassesInv, ControllerStep, Light!StartCountdown, ~m_lightEnabled
  PROVE  CycleTracked'
<1>1. /\ m_enabledCounterS' = lightEnabledTimeS /\ entry = "adc"
      /\ cyclePasses = 0 /\ cyclePasses' = 0
      /\ UNCHANGED <<tickCount, entry>>
  BY DEF Light!StartCountdown, ControllerStep, PassesInv
<1>2. /\ lightEnabledTimeS \in Nat /\ SLOW_TASK_COUNTER \in Nat
      /\ tickCount \in 0 .. SLOW_TASK_COUNTER - 1
  BY ControllerAssumption, SlowTaskCounterAssumption DEF TypeOK
<1>3. accounted' = due' * SLOW_TASK_COUNTER + tickCount
  <2>1. due' \in Nat
    BY DEF due
  <2>2. lightEnabledTimeS - m_enabledCounterS' = 0
    BY <1>1, <1>2
  <2>3. lightEnabledTimeS - m_enabledCounterS' + due' = due'
    BY <2>1, <2>2
  <2> QED
    BY <1>1, <2>3 DEF accounted
<1>4. accounted' = IF tickCount = 0 THEN SLOW_TASK_COUNTER ELSE tickCount
  <2>1. CASE tickCount = 0
    <3>1. due' = 1
      BY <1>1, <2>1 DEF due
    <3> QED
      BY <1>2, <1>3, <2>1, <3>1
  <2>2. CASE tickCount # 0
    <3>1. due' = 0
      BY <1>1, <2>2 DEF due
    <3> QED
      BY <1>2, <1>3, <2>2, <3>1
  <2> QED
    BY <2>1, <2>2
<1> QED
  BY <1>1, <1>2, <1>4, SlowTaskCounterAssumption DEF CycleTracked

LEMMA PassesSteps ==
  ASSUME TypeOK, PassesInv, Controller!Inv, [Next]_vars
  PROVE  PassesInv'
<1>1. /\ m_lightEnabled => m_enabledCounterS > 0
      /\ dispatcher = "enabling" => ~m_lightEnabled
      /\ m_lightEnabled \in BOOLEAN
  BY ControllerFacts DEF Light!TypeOK
<1>2. /\ dispatcher \in {"enabling", "drivingHigh"} => entry = "adc"
      /\ ~m_lightEnabled /\ entry # "delay" => cyclePasses = 0
      /\ CycleTracked
  BY DEF PassesInv
<1>3. CASE PresenceSensorUpdate
  <2>1. /\ entry = "presenceSensor" /\ entry' = "adc"
        /\ UNCHANGED <<m_lightEnabled, m_enabledCounterS, tickCount, cyclePasses>>
    BY <1>3 DEF PresenceSensorUpdate, Call, Light!PresenceCallback, lightVars
  <2>2. due' = due
    BY <2>1 DEF due
  <2>3. CycleTracked'
    BY <1>2, <2>1, <2>2, SameCount
  <2> QED
    BY <1>2, <2>1, <2>3 DEF PassesInv
<1>4. CASE AdcUpdate \/ PhotoresistorUpdate \/ SkipSlowEntry
  <2>1. /\ dispatcher = "idle" /\ dispatcher' = "idle" /\ entry # "delay"
        /\ UNCHANGED <<m_lightEnabled, m_enabledCounterS, tickCount, cyclePasses>>
    BY <1>4 DEF AdcUpdate, PhotoresistorUpdate, SkipSlowEntry, Call,
                Light!BrightnessCallback, lightVars
  <2>2. entry' = "delay" => tickCount # 0
    BY <1>4 DEF AdcUpdate, PhotoresistorUpdate, SkipSlowEntry, Call, slowTaskTrigger
  <2>3. due' = due
    BY <2>1, <2>2 DEF due
  <2>4. CycleTracked'
    BY <1>2, <2>1, <2>3, SameCount
  <2> QED
    BY <1>2, <2>1, <2>4 DEF PassesInv
<1>5. CASE LightControllerUpdate
  <2>1. /\ entry' = "delay"
        /\ dispatcher' \in {"idle", "drivingLow"}
    BY <1>5 DEF LightControllerUpdate, Call, Light!Update
  <2>2. CycleTracked'
    BY <1>1, <1>2, <1>5, UpdateCounts
  <2> QED
    BY <2>1, <2>2 DEF PassesInv
<1>6. CASE NextPass
  <2>1. /\ dispatcher' = "idle"
        /\ ~m_lightEnabled' => cyclePasses' = 0
    BY <1>1, <1>6 DEF NextPass, lightVars
  <2>2. CycleTracked'
    BY <1>2, <1>6, PassCounts
  <2> QED
    BY <2>1, <2>2 DEF PassesInv
<1>7. CASE ControllerStep /\ Light!StartCountdown
  <2>1. /\ dispatcher = "enabling" /\ m_lightEnabled' /\ UNCHANGED entry
    BY <1>7 DEF ControllerStep, Light!StartCountdown
  <2>2. CycleTracked'
    BY <1>1, <1>7, <2>1, StartCounts
  <2> QED
    BY <1>2, <2>1, <2>2 DEF PassesInv
<1>8. CASE ControllerStep /\ (Light!DriveHigh \/ Light!DriveLow)
  <2>1. /\ dispatcher' = "idle"
        /\ UNCHANGED <<m_lightEnabled, m_enabledCounterS, tickCount, entry>>
        /\ cyclePasses' = IF m_lightEnabled' THEN cyclePasses ELSE 0
    BY <1>8 DEF ControllerStep, Light!DriveHigh, Light!DriveLow
  <2>2. CycleTracked'
    <3>1. CASE m_lightEnabled
      <4>1. UNCHANGED <<m_lightEnabled, m_enabledCounterS, tickCount, cyclePasses>> /\ due' = due
        BY <2>1, <3>1 DEF due
      <4> QED
        BY <1>2, <4>1, SameCount
    <3>2. CASE ~m_lightEnabled
      BY <2>1, <3>2 DEF CycleTracked
    <3> QED
      BY <3>1, <3>2
  <2> QED
    BY <2>1, <2>2 DEF PassesInv
<1>9. CASE HttpServer \/ UNCHANGED vars
  <2>1. UNCHANGED <<m_lightEnabled, m_enabledCounterS, dispatcher, entry, tickCount, cyclePasses>>
    BY <1>9 DEF HttpServer, Light!DisableController, Light!DisableDrivesLow,
                Light!EnableController, Light!dispatcherVars, vars, lightVars
  <2>2. due' = due
    BY <2>1 DEF due
  <2>3. CycleTracked'
    BY <1>2, <2>1, <2>2, SameCount
  <2> QED
    BY <1>2, <2>1, <2>3 DEF PassesInv
<1> QED
  BY <1>3, <1>4, <1>5, <1>6, <1>7, <1>8, <1>9 DEF Next, DispatcherTask, ControllerStep

-------------------------------------------------------------------------------
(* The invariant holds when main has registered the entries. *)
LEMMA InitInv == Init => Inv
<1> SUFFICES ASSUME Init PROVE Inv
  OBVIOUS
<1>1. Light!TypeOK
  BY ControllerAssumption DEF Init, Light!Init, Light!TypeOK
<1>2. TypeOK
  BY <1>1, NothingMeasured, SensorAssumption, SlowTaskCounterAssumption
     DEF Init, TypeOK, Presence!Init, Photo!Init, Photo!TypeOK
<1>3. DarknessTracksSensor
  BY DEF Init, DarknessTracksSensor
<1>4. PassesInv
  BY DEF Init, Light!Init, PassesInv, CycleTracked
<1>5. AskedInv
  BY DEF Init, Light!Init, AskedInv, Light!ReportedStateIsLamp, Light!EnabledIsArmed
<1> QED
  BY <1>2, <1>3, <1>4, <1>5 DEF Inv

LEMMA NextInv == Inv /\ Controller!Inv /\ Controller!Inv' /\ [Next]_vars => Inv'
  BY TypeSteps, DarknessSteps, PassesSteps, AskedSteps DEF Inv

(* The invariant holds throughout every behaviour of the composition. *)
THEOREM Invariance == Spec => []Inv
  BY InitInv, NextInv, ControllerInvariance, PTL DEF Spec

(* Although a level that has not changed is never reported, and although    *)
(* the constructor samples a level nobody has measured, the controller is   *)
(* dark exactly when the sensor's level is.                                 *)
THEOREM DarknessTracked == Spec => []DarknessTracksSensor
<1>1. Inv => DarknessTracksSensor
  BY DEF Inv
<1> QED
  BY <1>1, Invariance, PTL

(* What the invariant says of the passes is the bound on them: a cycle      *)
(* lasts lightEnabledTimeS seconds, or up to one second less.               *)
LEMMA TrackedIsBounded == TypeOK /\ PassesInv => CountdownTracksPasses
<1> SUFFICES ASSUME TypeOK, CycleTracked, m_lightEnabled
             PROVE  LET counted == lightEnabledTimeS - m_enabledCounterS
                    IN  /\ cyclePasses + SLOW_TASK_COUNTER >= counted * SLOW_TASK_COUNTER
                        /\ cyclePasses < (counted + 1) * SLOW_TASK_COUNTER
  BY DEF PassesInv, CountdownTracksPasses
<1> DEFINE n == lightEnabledTimeS - m_enabledCounterS
<1>1. /\ n \in Nat /\ n + 0 = n
      /\ tickCount \in 0 .. SLOW_TASK_COUNTER - 1 /\ cyclePasses \in Nat
      /\ SLOW_TASK_COUNTER \in Nat
      /\ cyclePasses < accounted /\ accounted <= cyclePasses + SLOW_TASK_COUNTER
  BY ControllerAssumption, SlowTaskCounterAssumption DEF TypeOK, Light!TypeOK, CycleTracked
<1>2. accounted = (n + due) * SLOW_TASK_COUNTER + tickCount
  BY DEF accounted
<1>3. \/ due = 0
      \/ due = 1 /\ tickCount = 0
  BY DEF due
<1> HIDE DEF n
<1>4. /\ cyclePasses + SLOW_TASK_COUNTER >= n * SLOW_TASK_COUNTER
      /\ cyclePasses < (n + 1) * SLOW_TASK_COUNTER
  <2>1. CASE due = 0
    <3>1. accounted = n * SLOW_TASK_COUNTER + tickCount
      BY <1>1, <1>2, <2>1
    <3> QED
      BY <1>1, <3>1, Counting
  <2>2. CASE due = 1 /\ tickCount = 0
    <3>1. accounted = (n + 1) * SLOW_TASK_COUNTER
      BY <1>1, <1>2, <2>2, Counting
    <3> QED
      BY <1>1, <3>1, Counting
  <2> QED
    BY <1>3, <2>1, <2>2
<1> QED
  BY <1>4 DEF n

(* The countdown in seconds and the dispatcher's passes never drift apart,  *)
(* wherever in a second the cycle was started.                              *)
THEOREM CountdownTracked == Spec => []CountdownTracksPasses
<1>1. Inv => CountdownTracksPasses
  BY TrackedIsBounded DEF Inv
<1> QED
  BY <1>1, Invariance, PTL

(* Until somebody uses the web page the lamp is what the page says, and a   *)
(* controller without a cycle is armed.                                     *)
THEOREM ConsistentBeforeRequests == Spec => []ConsistentUntilAsked
<1>1. Inv => ConsistentUntilAsked
  BY DEF Inv, AskedInv, ConsistentUntilAsked
<1> QED
  BY <1>1, Invariance, PTL

(* The composition inherits what LightController_proofs shows: the lamp     *)
(* never burns without a countdown that will put it out.                    *)
THEOREM LampAttended == Spec => []Light!LampNeverUnattended
<1>1. Controller!Inv => Light!LampNeverUnattended
  BY DEF Controller!Inv, Controller!LampNeverUnattended, Light!LampNeverUnattended
<1> QED
  BY <1>1, ControllerInvariance, PTL
===============================================================================

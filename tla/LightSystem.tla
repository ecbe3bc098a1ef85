------------------------------- MODULE LightSystem -------------------------------
(***************************************************************************)
(* The automatic light as main.cpp puts it together: DispatcherTask calls  *)
(* the sensors and the light controller in the order of registration, the  *)
(* sensors call the controller's callbacks from inside their Update, and   *)
(* the HTTP server enables and disables the controller from its own task.  *)
(*                                                                         *)
(* A pass of the dispatcher starts every 100 ms.  Entries registered with  *)
(* TASK_FREQ_100MS run in every pass, those with TASK_FREQ_1S in every     *)
(* SLOW_TASK_COUNTER-th.  The model starts when main has registered all    *)
(* entries; by then the dispatcher may have made any number of passes.     *)
(***************************************************************************)
EXTENDS Naturals

CONSTANTS
  lightEnabledTimeS, UninitCounter, Requests,     \* of LightController
  TargetData, UninitTargetData, UninitState,      \* of PresenceSensor
  RawValues, UninitRawValues, UninitBrightness,   \* of Photoresistor
  SLOW_TASK_COUNTER                               \* 10 in DispatcherTask.hpp

ASSUME SlowTaskCounterAssumption == SLOW_TASK_COUNTER \in Nat \ {0}

VARIABLES
  m_isDark, m_lightEnabled, m_overrideFlag, m_enabledCounterS,
  m_movementLatch, gpio, dispatcher, httpd,       \* of LightController
  currentTargetData, m_currentState,              \* of PresenceSensor
  m_currentRawValue, m_currentResistance, m_currentBrightness,
  entry,       \* what the dispatcher calls next, "delay" between two passes
  tickCount,
  cyclePasses, \* history: passes begun since the running cycle was started
  requested    \* history: a web request has come

Light == INSTANCE LightController
Presence == INSTANCE PresenceSensor
Photo == INSTANCE Photoresistor

(* What the instances are told of their constants: the assumptions of       *)
(* LightController, and unassigned members that are in the range of their   *)
(* C++ types.                                                               *)
ASSUME ControllerAssumption ==
  /\ lightEnabledTimeS \in Nat \ {0}
  /\ UninitCounter \subseteq Nat /\ UninitCounter # {}
  /\ Requests \subseteq Light!WebRequest
ASSUME SensorAssumption ==
  /\ UninitState \subseteq Presence!SensorCurrentState
  /\ RawValues \cup UninitRawValues \subseteq Nat

lightVars ==
  <<m_isDark, m_lightEnabled, m_overrideFlag, m_enabledCounterS,
    m_movementLatch, gpio, dispatcher, httpd>>
presenceVars == <<currentTargetData, m_currentState>>
photoVars == <<m_currentRawValue, m_currentResistance, m_currentBrightness>>
vars == <<lightVars, presenceVars, photoVars, entry, tickCount, cyclePasses, requested>>

(* The constructor of LightController samples the brightness before it has  *)
(* been measured.                                                           *)
Init ==
  /\ Light!Init
  /\ Presence!Init
  /\ Photo!Init
  /\ m_isDark = (m_currentBrightness < Light!BRIGHTNESS_DIM)
  /\ entry = "presenceSensor"
  /\ tickCount \in 0 .. SLOW_TASK_COUNTER - 1
  /\ cyclePasses = 0
  /\ requested = FALSE

(* Faulty variant: the counter, which wraps before it, compared with its end. *)
slowTaskTriggerAtEnd == tickCount = SLOW_TASK_COUNTER

slowTaskTrigger == tickCount = 0

-------------------------------------------------------------------------------
(* The dispatcher's calls.  A callback that lights the lamp takes several   *)
(* steps; the pass goes on when the controller has returned.                *)

(* A pass calls what comes after an entry once that entry has returned. *)
Call(task, next) ==
  /\ entry = task
  /\ dispatcher = "idle"
  /\ entry' = next
  /\ UNCHANGED <<tickCount, cyclePasses, requested>>

PresenceSensorUpdate ==
  /\ Call("presenceSensor", "adc")
  /\ Presence!Measure
  /\ IF Presence!StateChanged
       THEN Light!PresenceCallback(m_currentState'.movementDetected)
       ELSE UNCHANGED lightVars
  /\ UNCHANGED photoVars

AdcUpdate ==
  /\ Call("adc", "photoresistor")
  /\ Photo!AdcUpdate
  /\ UNCHANGED <<lightVars, presenceVars>>

(* Faulty variant: the callback is given the level before this measurement. *)
PhotoresistorUpdateStale ==
  /\ Call("photoresistor", "lightController")
  /\ slowTaskTrigger
  /\ Photo!Update
  /\ IF Photo!BrightnessChanged
       THEN Light!BrightnessCallback(m_currentBrightness)
       ELSE UNCHANGED lightVars
  /\ UNCHANGED presenceVars

PhotoresistorUpdate ==
  /\ Call("photoresistor", "lightController")
  /\ slowTaskTrigger
  /\ Photo!Update
  /\ IF Photo!BrightnessChanged
       THEN Light!BrightnessCallback(m_currentBrightness')
       ELSE UNCHANGED lightVars
  /\ UNCHANGED presenceVars

(* Faulty variant: the controller registered with TASK_FREQ_100MS. *)
LightControllerUpdateEveryPass ==
  /\ Call("lightController", "delay")
  /\ Light!Update
  /\ UNCHANGED <<presenceVars, photoVars>>

LightControllerUpdate ==
  /\ Call("lightController", "delay")
  /\ slowTaskTrigger
  /\ Light!Update
  /\ UNCHANGED <<presenceVars, photoVars>>

(* An entry of TASK_FREQ_1S in a pass that is not the slow one. *)
SkipSlowEntry ==
  /\ ~slowTaskTrigger
  /\ \/ Call("photoresistor", "lightController")
     \/ Call("lightController", "delay")
  /\ UNCHANGED <<lightVars, presenceVars, photoVars>>

(* tickCount++, xTaskDelayUntil, and the wrap at the top of the loop. *)
NextPass ==
  /\ entry = "delay"
  /\ dispatcher = "idle"
  /\ entry' = "presenceSensor"
  /\ tickCount' = IF tickCount + 1 >= SLOW_TASK_COUNTER THEN 0 ELSE tickCount + 1
  /\ cyclePasses' = IF m_lightEnabled THEN cyclePasses + 1 ELSE 0
  /\ UNCHANGED <<lightVars, presenceVars, photoVars, requested>>

(* The rest of SetLightState inside a callback or inside Update. *)
ControllerStep ==
  /\ Light!StartCountdown \/ Light!DriveHigh \/ Light!DriveLow
  /\ UNCHANGED <<presenceVars, photoVars, entry, tickCount, requested>>
  /\ cyclePasses' = IF m_lightEnabled' THEN cyclePasses ELSE 0

DispatcherTask ==
  \/ PresenceSensorUpdate
  \/ AdcUpdate
  \/ PhotoresistorUpdate
  \/ LightControllerUpdate
  \/ SkipSlowEntry
  \/ NextPass
  \/ ControllerStep

(* The HTTP server runs at the dispatcher's priority, so that its steps     *)
(* fall anywhere between those of a pass.                                   *)
HttpServer ==
  /\ Light!DisableController \/ Light!DisableDrivesLow \/ Light!EnableController
  /\ requested' = TRUE
  /\ UNCHANGED <<presenceVars, photoVars, entry, tickCount, cyclePasses>>

Next == DispatcherTask \/ HttpServer

Spec == Init /\ [][Next]_vars

(* The dispatcher never ends and is never starved: it shares its priority   *)
(* with the HTTP server only, and the scheduler slices time between equals. *)
(* A request that has been begun is finished; none has to come.             *)
FairSpec ==
  /\ Spec
  /\ WF_vars(DispatcherTask)
  /\ WF_vars(Light!DisableDrivesLow /\ HttpServer)

-------------------------------------------------------------------------------
(* Properties. *)

(* Inside the composition, the controller behaves as LightController says,  *)
(* its fairness included: Update() is called again and again although it    *)
(* shares the pass with four other entries.                                 *)
ControllerImplemented == Light!FairSpec

(* The controller's darkness is that of the photoresistor's level whenever  *)
(* no callback is under way: also before the first measurement, when both   *)
(* come from an unassigned member, and although a level that has not        *)
(* changed is never reported.                                               *)
DarknessTracksSensor == m_isDark <=> m_currentBrightness < Light!BRIGHTNESS_DIM

TypeOK ==
  /\ Light!TypeOK
  /\ currentTargetData \in TargetData \cup UninitTargetData
  /\ m_currentState \in Presence!SensorCurrentState
  /\ Photo!TypeOK
  /\ entry \in {"presenceSensor", "adc", "photoresistor", "lightController", "delay"}
  /\ tickCount \in 0 .. SLOW_TASK_COUNTER - 1
  /\ cyclePasses \in Nat
  /\ requested \in BOOLEAN

(* The seconds counted by the controller and the passes of the dispatcher   *)
(* never drift apart: n seconds are counted once n - 1 times                *)
(* SLOW_TASK_COUNTER passes have begun, and before n + 1 times as many.  A  *)
(* cycle so lasts up to one second less than lightEnabledTimeS, and never   *)
(* longer.                                                                  *)
CountdownTracksPasses ==
  /\ TypeOK
  /\ m_lightEnabled =>
       LET counted == lightEnabledTimeS - m_enabledCounterS
       IN  /\ cyclePasses + SLOW_TASK_COUNTER >= counted * SLOW_TASK_COUNTER
           /\ cyclePasses < (counted + 1) * SLOW_TASK_COUNTER

(* Until a web request comes, the state the status page shows is the state  *)
(* of the pin, and the controller is armed, whenever it has no cycle running *)
(* and is not in the middle of an operation: whatever the unassigned counter *)
(* held when it was constructed.                                             *)
ConsistentUntilAsked ==
  ~requested => Light!ReportedStateIsLamp /\ Light!EnabledIsArmed
===============================================================================

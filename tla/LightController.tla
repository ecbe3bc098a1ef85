---------------------------- MODULE LightController ----------------------------
(***************************************************************************)
(* components/Application/LightController.cpp: the automatic light.        *)
(*                                                                         *)
(* Two tasks of equal priority run its code on the single core of the      *)
(* ESP32-C3, so either may be preempted between any two shared accesses:   *)
(*   - DispatcherTask calls Update() once per second and, from the Update  *)
(*     of the sensors, the two callbacks the constructor registered;       *)
(*   - the HTTP server calls EnableController() and DisableController().   *)
(* There is no lock.  m_overrideFlag and the output pin are written or     *)
(* read by both tasks, m_lightEnabled is read by the HTTP server; the      *)
(* other members belong to the dispatcher.  An operation is split into one *)
(* action per access to shared state; accesses to the dispatcher's own     *)
(* members are merged into the neighbouring step.                          *)
(***************************************************************************)
EXTENDS Naturals

CONSTANTS
  lightEnabledTimeS,   \* seconds of one lighting cycle (main.cpp passes 10)
  UninitCounter,       \* values m_enabledCounterS may hold before it is assigned
  Requests             \* what the web page sends, a subset of WebRequest

WebRequest == {"enable", "disable"}

ASSUME LightEnabledTimeAssumption == lightEnabledTimeS \in Nat \ {0}
ASSUME UninitCounterAssumption == UninitCounter \subseteq Nat /\ UninitCounter # {}
ASSUME RequestsAssumption == Requests \subseteq WebRequest

(* Photoresistor::BrightnessLevel, as the integers of the enumeration. *)
BrightnessLevel == 0..6
BRIGHTNESS_DIM == 2

VARIABLES
  m_isDark,
  m_lightEnabled,      \* what GetLightState() tells the status page
  m_overrideFlag,
  m_enabledCounterS,
  m_movementLatch,
  gpio,                \* level of the output pin, TRUE for lit
  dispatcher,          \* where DispatcherTask stands inside this class
  httpd                \* where the HTTP server stands inside this class

dispatcherVars ==
  <<m_isDark, m_lightEnabled, m_enabledCounterS, m_movementLatch, dispatcher>>
vars == <<dispatcherVars, m_overrideFlag, gpio, httpd>>

TypeOK ==
  /\ m_isDark \in BOOLEAN
  /\ m_lightEnabled \in BOOLEAN
  /\ m_overrideFlag \in BOOLEAN
  /\ m_enabledCounterS \in Nat
  /\ m_movementLatch \in BOOLEAN
  /\ gpio \in BOOLEAN
  /\ dispatcher \in {"idle", "enabling", "drivingHigh", "drivingLow"}
  /\ httpd \in {"idle", "drivingLow"}

(* The constructor leaves m_enabledCounterS unassigned and takes the        *)
(* darkness from a Photoresistor that has not measured yet.                 *)
Init ==
  /\ m_isDark \in BOOLEAN
  /\ m_lightEnabled = FALSE
  /\ m_overrideFlag = FALSE
  /\ m_enabledCounterS \in UninitCounter
  /\ m_movementLatch = FALSE
  /\ gpio = FALSE
  /\ dispatcher = "idle"
  /\ httpd = "idle"

-------------------------------------------------------------------------------
(* Dispatcher: the presence callback and SetLightState(true).               *)

(* Faulty variant: the latch is not tested. *)
TriggersWithoutLatch(movementDetected) == m_isDark /\ movementDetected

Triggers(movementDetected) == m_isDark /\ movementDetected /\ ~m_movementLatch

(* Faulty variant: SetLightState does not test m_overrideFlag. *)
PresenceCallbackIgnoringOverride(movementDetected) ==
  /\ dispatcher = "idle"
  /\ dispatcher' = IF Triggers(movementDetected) THEN "enabling" ELSE "idle"
  /\ UNCHANGED <<m_isDark, m_lightEnabled, m_enabledCounterS, m_movementLatch>>
  /\ UNCHANGED <<m_overrideFlag, gpio, httpd>>

(* The callback up to the test of m_overrideFlag in SetLightState(true).    *)
(* An overridden SetLightState returns, and the callback sets the latch     *)
(* all the same.                                                            *)
PresenceCallback(movementDetected) ==
  /\ dispatcher = "idle"
  /\ \/ /\ ~Triggers(movementDetected)
        /\ UNCHANGED <<m_movementLatch, dispatcher>>
     \/ /\ Triggers(movementDetected)
        /\ m_overrideFlag
        /\ m_movementLatch' = TRUE
        /\ UNCHANGED dispatcher
     \/ /\ Triggers(movementDetected)
        /\ ~m_overrideFlag
        /\ dispatcher' = "enabling"
        /\ UNCHANGED m_movementLatch
  /\ UNCHANGED <<m_isDark, m_lightEnabled, m_enabledCounterS>>
  /\ UNCHANGED <<m_overrideFlag, gpio, httpd>>

StartCountdown ==
  /\ dispatcher = "enabling"
  /\ m_lightEnabled' = TRUE
  /\ m_enabledCounterS' = lightEnabledTimeS
  /\ dispatcher' = "drivingHigh"
  /\ UNCHANGED <<m_isDark, m_movementLatch, m_overrideFlag, gpio, httpd>>

(* m_gpio->Set(true), and the latch once SetLightState has returned. *)
DriveHigh ==
  /\ dispatcher = "drivingHigh"
  /\ gpio' = TRUE
  /\ m_movementLatch' = TRUE
  /\ dispatcher' = "idle"
  /\ UNCHANGED <<m_isDark, m_lightEnabled, m_enabledCounterS, m_overrideFlag, httpd>>

(* Dispatcher: the brightness callback, SetDarknessState(brightness). *)
BrightnessCallback(brightness) ==
  /\ dispatcher = "idle"
  /\ m_isDark' = (brightness < BRIGHTNESS_DIM)
  /\ UNCHANGED <<m_lightEnabled, m_enabledCounterS, m_movementLatch, dispatcher>>
  /\ UNCHANGED <<m_overrideFlag, gpio, httpd>>

(* Faulty variant: Update() decrements without testing the counter. *)
UpdateWithoutZeroTest ==
  /\ dispatcher = "idle"
  /\ m_enabledCounterS' = m_enabledCounterS - 1
  /\ IF m_enabledCounterS = 1
       THEN m_lightEnabled' = FALSE /\ dispatcher' = "drivingLow"
       ELSE UNCHANGED <<m_lightEnabled, dispatcher>>
  /\ UNCHANGED <<m_isDark, m_movementLatch, m_overrideFlag, gpio, httpd>>

(* Dispatcher: Update(), up to m_gpio->Set(false) when the countdown ends.  *)
Update ==
  /\ dispatcher = "idle"
  /\ \/ /\ m_enabledCounterS = 0
        /\ UNCHANGED <<m_enabledCounterS, m_lightEnabled, dispatcher>>
     \/ /\ m_enabledCounterS > 1
        /\ m_enabledCounterS' = m_enabledCounterS - 1
        /\ UNCHANGED <<m_lightEnabled, dispatcher>>
     \/ /\ m_enabledCounterS = 1
        /\ m_enabledCounterS' = 0
        /\ m_lightEnabled' = FALSE
        /\ dispatcher' = "drivingLow"
  /\ UNCHANGED <<m_isDark, m_movementLatch, m_overrideFlag, gpio, httpd>>

(* Faulty variant: the latch is not released when the countdown ends. *)
DriveLowKeepingLatch ==
  /\ dispatcher = "drivingLow"
  /\ gpio' = FALSE
  /\ dispatcher' = "idle"
  /\ UNCHANGED <<m_isDark, m_lightEnabled, m_enabledCounterS, m_movementLatch>>
  /\ UNCHANGED <<m_overrideFlag, httpd>>

DriveLow ==
  /\ dispatcher = "drivingLow"
  /\ gpio' = FALSE
  /\ m_movementLatch' = FALSE
  /\ dispatcher' = "idle"
  /\ UNCHANGED <<m_isDark, m_lightEnabled, m_enabledCounterS, m_overrideFlag, httpd>>

-------------------------------------------------------------------------------
(* HTTP server. *)

(* Faulty variant: disabling also stops the countdown, from the wrong task. *)
DisableControllerStoppingCountdown ==
  /\ "disable" \in Requests
  /\ httpd = "idle"
  /\ m_overrideFlag' = TRUE
  /\ m_enabledCounterS' = 0
  /\ httpd' = "drivingLow"
  /\ UNCHANGED <<m_isDark, m_lightEnabled, m_movementLatch, dispatcher, gpio>>

DisableController ==
  /\ "disable" \in Requests
  /\ httpd = "idle"
  /\ m_overrideFlag' = TRUE
  /\ httpd' = "drivingLow"
  /\ UNCHANGED <<dispatcherVars, gpio>>

DisableDrivesLow ==
  /\ httpd = "drivingLow"
  /\ gpio' = FALSE
  /\ httpd' = "idle"
  /\ UNCHANGED <<dispatcherVars, m_overrideFlag>>

EnableController ==
  /\ "enable" \in Requests
  /\ httpd = "idle"
  /\ m_overrideFlag' = FALSE
  /\ UNCHANGED <<dispatcherVars, gpio, httpd>>

-------------------------------------------------------------------------------
DispatcherStep ==
  \/ \E movementDetected \in BOOLEAN : PresenceCallback(movementDetected)
  \/ StartCountdown
  \/ DriveHigh
  \/ \E brightness \in BrightnessLevel : BrightnessCallback(brightness)
  \/ Update
  \/ DriveLow

HttpdStep == DisableController \/ DisableDrivesLow \/ EnableController

Next == DispatcherStep \/ HttpdStep

Spec == Init /\ [][Next]_vars

(* A task that is inside an operation finishes it, and the dispatcher calls *)
(* Update() once per slow pass for ever (DispatcherTask::TaskHandle).  No   *)
(* request and no sensor change has to come.                                *)
Fairness ==
  /\ WF_vars(StartCountdown)
  /\ WF_vars(DriveHigh)
  /\ WF_vars(DriveLow)
  /\ WF_vars(DisableDrivesLow)
  /\ SF_vars(Update)

FairSpec == Spec /\ Fairness

-------------------------------------------------------------------------------
(* Properties. *)

(* The lamp never burns unattended: whenever the pin is high, a countdown   *)
(* that will put it out is running, or Update() is about to drive the pin   *)
(* low.  Disable requests that interleave with the dispatcher must not      *)
(* separate the pin from the countdown.                                     *)
LampNeverUnattended ==
  gpio => \/ m_lightEnabled /\ m_enabledCounterS > 0
          \/ dispatcher = "drivingLow"

(* The latch covers the whole cycle: from the moment the pin was driven     *)
(* until the countdown is over, a further movement report finds the latch   *)
(* set, so it cannot start the countdown again.                             *)
LatchCoversCycle ==
  /\ m_lightEnabled => m_movementLatch \/ dispatcher = "drivingHigh"
  /\ dispatcher \in {"enabling", "drivingHigh"} => ~m_movementLatch

(* A controller that stays disabled is dark for good after some time, even  *)
(* when the disable request slipped between the dispatcher's test of        *)
(* m_overrideFlag and its write to the pin.                                 *)
DisabledGoesDark == <>[]m_overrideFlag => <>[]~gpio

(* The controller implements the abstract lighting cycle: the countdown     *)
(* counts for the cycle only while m_lightEnabled says one is running.      *)
Cycle == INSTANCE LightCycle WITH
  Duration <- lightEnabledTimeS,
  remaining <- IF m_lightEnabled THEN m_enabledCounterS ELSE 0,
  lamp <- gpio

CycleRefined == Cycle!FairSpec

(* Without web requests, the state the status page shows is the state of    *)
(* the pin whenever the dispatcher is between two calls.                    *)
ReportedStateIsLamp == dispatcher = "idle" => (m_lightEnabled <=> gpio)

(* An enabled controller that has no cycle running is armed: the next       *)
(* movement in the dark lights the lamp.                                    *)
EnabledIsArmed ==
  dispatcher = "idle" /\ ~m_overrideFlag /\ m_enabledCounterS = 0
    => ~m_movementLatch

(* Once the disable request has been carried out, the lamp is out until the *)
(* controller is enabled again.                                             *)
DisabledIsDark == m_overrideFlag /\ httpd = "idle" => ~gpio
===============================================================================

------------------------------- MODULE SensorTasks -------------------------------
(***************************************************************************)
(* The sensors as main.cpp sets them up: main registers five tasks with    *)
(* the dispatcher while it is running, and the dispatcher calls the        *)
(* converter, the photoresistor and the climate sensor.  What the presence *)
(* sensor and the light controller do is in LightSystem; here the one only *)
(* waits for the radar and the other is called.                            *)
(***************************************************************************)
EXTENDS ClimateSensor

CONSTANTS
  SLOW_TASK_COUNTER,                               \* of DispatcherTask
  RawValues, UninitRawValues, UninitBrightness     \* of Photoresistor

ASSUME RawValuesAssumption == RawValues \subseteq 0 .. 4095
ASSUME UninitAssumption == UninitRawValues \cup UninitBrightness \subseteq Nat
ASSUME SlowTaskCounterAssumption == SLOW_TASK_COUNTER \in Nat \ {0}

VARIABLES
  m_entries, growing, pass, tickCount, called, complete,
  m_currentRawValue, m_currentResistance, m_currentBrightness

(* Faulty variant: the photoresistor is called before the converter. *)
TasksPhotoresistorFirst ==
  <<[task |-> "presenceSensor",  freq |-> "100MS"],
    [task |-> "photoresistor",   freq |-> "1S"],
    [task |-> "adc",             freq |-> "100MS"],
    [task |-> "climateSensor",   freq |-> "1S"],
    [task |-> "lightController", freq |-> "1S"]>>

(* app_init. *)
Tasks ==
  <<[task |-> "presenceSensor",  freq |-> "100MS"],
    [task |-> "adc",             freq |-> "100MS"],
    [task |-> "photoresistor",   freq |-> "1S"],
    [task |-> "climateSensor",   freq |-> "1S"],
    [task |-> "lightController", freq |-> "1S"]>>

Waiting == {"presenceSensor"}

Dispatcher == INSTANCE DispatcherTask
Photo == INSTANCE Photoresistor

dispatcherVars == <<m_entries, growing, pass, tickCount, called, complete>>
photoVars == <<m_currentRawValue, m_currentResistance, m_currentBrightness>>
vars == <<dispatcherVars, photoVars, climateVars>>

Init == Dispatcher!Init /\ Photo!Init /\ ClimateInit

-------------------------------------------------------------------------------
Main ==
  /\ Dispatcher!RegisterTask \/ Dispatcher!FinishGrowing
  /\ UNCHANGED <<photoVars, climateVars>>

UpdateAdc ==
  /\ Dispatcher!Call("adc")
  /\ Photo!AdcUpdate
  /\ UNCHANGED climateVars

UpdatePhotoresistor ==
  /\ Dispatcher!Call("photoresistor")
  /\ Photo!Update
  /\ UNCHANGED climateVars

UpdateClimateSensor ==
  /\ Dispatcher!Call("climateSensor")
  /\ ClimateSensorUpdate
  /\ UNCHANGED photoVars

UpdateOther ==
  /\ Dispatcher!Call("presenceSensor") \/ Dispatcher!Call("lightController")
  /\ UNCHANGED <<photoVars, climateVars>>

Loop ==
  /\ \/ Dispatcher!BeginPass \/ Dispatcher!Return
     \/ Dispatcher!Skip \/ Dispatcher!EndPass
  /\ UNCHANGED <<photoVars, climateVars>>

DispatcherTask ==
  UpdateAdc \/ UpdatePhotoresistor \/ UpdateClimateSensor \/ UpdateOther \/ Loop

(* The values of memory that is not assigned are as at any start. *)
Restart ==
  /\ Dispatcher!Panic
  /\ m_currentRawValue' \in UninitRawValues
  /\ m_currentResistance' = 0
  /\ m_currentBrightness' \in UninitBrightness
  /\ countSeconds' = READ_SENSOR_PERIOD_S
  /\ m_humidity' = Uninit /\ m_temperature' = Uninit
  /\ critical' = 0
  /\ source' = NoSource

Next == Main \/ DispatcherTask \/ Restart

Spec == Init /\ [][Next]_vars

(* The dispatcher's delays and the radar's time-outs end, and it has the    *)
(* highest priority; main goes on whenever the dispatcher is blocked, which *)
(* it is for most of the time.                                              *)
FairSpec == Spec /\ WF_vars(DispatcherTask) /\ SF_vars(Main)

-------------------------------------------------------------------------------
(* Properties. *)

(* One type invariant per component. *)
TypeOK == Dispatcher!TypeOK /\ Photo!TypeOK /\ ClimateTypeOK

(* Once the photoresistor has been called in a pass, the level the light      *)
(* controller was told and the page shows is that of the reading the         *)
(* converter holds: the order of registration has the one read before the    *)
(* other evaluates, also in a pass that races with the registration.         *)
LevelIsOfThisPass ==
  (\E i \in DOMAIN called : called[i] = "photoresistor") =>
    m_currentBrightness =
      Photo!BrightnessOf(Photo!CalculateResistance(Photo!CurrentVoltageMv(m_currentRawValue)))

(* See DispatcherTask: a pass after the registration calls every task. *)
PassIsComplete == TypeOK /\ Dispatcher!PassIsComplete

(* Every registered task is called again and again, however the             *)
(* registration and the passes that were under way have interleaved, unless *)
(* the race restarts the chip at every start.                               *)
EveryTaskIsServed ==
  <>[][~Restart]_vars =>
    \A n \in DOMAIN Tasks : []<>(called # <<>> /\ called[Len(called)] = Tasks[n].task)
===============================================================================

----------------------------- MODULE PresenceSensor -----------------------------
(***************************************************************************)
(* components/Platform/PresenceSensor.cpp: turns the radar's latest target *)
(* report into presence and movement, and tells its listener of a change.  *)
(*                                                                         *)
(* The radar driver is used through Update() and GetTargetData() only: a   *)
(* call reads at most one frame, and a frame that is absent or is rejected *)
(* leaves the previous target data in place.                               *)
(***************************************************************************)
EXTENDS Naturals

CONSTANTS
  TargetData,         \* target reports the radar may send
  UninitTargetData,   \* what the driver may hold before its first report
  UninitState         \* what m_currentState may hold before the first Update

TargetStatusType ==
  {"NoTarget", "CampaignTarget", "StationaryTarget", "CampaignStationaryTarget"}

SensorCurrentState == [presenceDetected : BOOLEAN, movementDetected : BOOLEAN]

m_config ==
  [minPresenceDistanceCm |-> 0,    minMovementDistanceCm |-> 0,
   maxPresenceDistanceCm |-> 1000, maxMovementDistanceCm |-> 1000]

VARIABLES
  currentTargetData,  \* of the radar driver
  m_currentState

vars == <<currentTargetData, m_currentState>>

Init ==
  /\ currentTargetData \in UninitTargetData
  /\ m_currentState \in UninitState

Presence(data) ==
  /\ data.targetStatus \in {"StationaryTarget", "CampaignStationaryTarget"}
  /\ data.distanceToStationaryTargetCm \in
       m_config.minPresenceDistanceCm .. m_config.maxPresenceDistanceCm

Movement(data) ==
  /\ data.targetStatus \in {"CampaignTarget", "CampaignStationaryTarget"}
  /\ data.movementTargetDistanceCm \in
       m_config.minMovementDistanceCm .. m_config.maxMovementDistanceCm

(* XiaoHumanPresenceSensor::Update: the newest accepted report, or none. *)
ReadTarget == currentTargetData' \in TargetData \cup {currentTargetData}

(* PresenceSensor::Update() up to the test of previousState. *)
Measure ==
  /\ ReadTarget
  /\ m_currentState' = [presenceDetected |-> Presence(currentTargetData'),
                        movementDetected |-> Movement(currentTargetData')]

(* The listener is called if this holds of the step. *)
StateChanged == m_currentState' # m_currentState
===============================================================================

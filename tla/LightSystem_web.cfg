SPECIFICATION FairSpec
CONSTANTS
  lightEnabledTimeS = 3
  UninitCounter <- MCUninitCounter
  Requests = {"enable", "disable"}
  TargetData <- MCTargetData
  UninitTargetData <- MCUninitTargetData
  UninitState <- MCUninitState
  RawValues <- MCRawValues
  UninitRawValues <- MCUninitRawValues
  UninitBrightness <- MCUninitBrightness
  SLOW_TASK_COUNTER = 3
INVARIANTS
  DarknessTracksSensor
  CountdownTracksPasses
  ConsistentUntilAsked
PROPERTY ControllerImplemented

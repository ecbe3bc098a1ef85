\* The registration; all readings and transmissions.
SPECIFICATION FairSpec
CONSTANTS
  SLOW_TASK_COUNTER = 2
  RawValues <- MCRawValues
  UninitRawValues <- MCUninitRawValues
  UninitBrightness = {99}
  Transmissions <- MCTransmissions
  Uninit = Uninit
INVARIANTS
  LevelIsOfThisPass
  PassIsComplete
  ReadingIsSound
PROPERTY EveryTaskIsServed

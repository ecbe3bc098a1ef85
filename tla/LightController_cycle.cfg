\* The controller under every web request, interleaved with the dispatcher.
SPECIFICATION FairSpec
CONSTANTS
  lightEnabledTimeS = 3
  UninitCounter <- MCUninitCounter
  Requests = {"enable", "disable"}
INVARIANTS
  TypeOK
  LampNeverUnattended
  LatchCoversCycle
PROPERTIES
  DisabledGoesDark
  CycleRefined

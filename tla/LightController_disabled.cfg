\* A disable request interleaved with the presence callback.
SPECIFICATION Spec
CONSTANTS
  lightEnabledTimeS = 3
  UninitCounter <- MCUninitCounter
  Requests = {"enable", "disable"}
INVARIANT DisabledIsDark

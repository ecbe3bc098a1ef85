\* Movement while disabled, then an enable request.
SPECIFICATION Spec
CONSTANTS
  lightEnabledTimeS = 3
  UninitCounter <- MCUninitCounter
  Requests = {"enable", "disable"}
INVARIANT EnabledIsArmed

\* The address 0.0.0.0 may be asked for.
SPECIFICATION FairSpec
CONSTANTS
  Addresses = {a1}
  StaticAddr = a1
  EmptyAddr = EmptyAddr
  ZeroAddr = ZeroAddr
  NoAddr = NoAddr
  Requests = {ZeroAddr}
  WIFI_MAXIMUM_RETRY = 2
PROPERTY StartupCompletes

\* Two retries, two addresses and requests that are no address.
SPECIFICATION FairSpec
CONSTANTS
  Addresses = {a1, a2}
  StaticAddr = a1
  EmptyAddr = EmptyAddr
  ZeroAddr = ZeroAddr
  NoAddr = NoAddr
  Requests = {a1, a2, EmptyAddr}
  WIFI_MAXIMUM_RETRY = 2
INVARIANTS
  HandlerFindsGroup
  GivenUpStaysDown
  AddressKept
PROPERTY StartupCompletes

\* One module carrying traffic, or two set up and taken down.
SPECIFICATION FairSpec
CONSTANTS
  ENC28J60_BUF_RX_END = 15
  ENC28J60_RSV_SIZE = 4
  PacketLen <- MCPacketLen
  MaxFaults = 1
  MaxFrames = 2
  MaxTraffic = 6
  MaxModules = 2
  ClockMhz = {6, 8}
  Revisions = {0, 6}
INVARIANTS
  RxInStep
  SemaphoreMeansReady
  MacFollowsLink
  ObjectsAccounted
PROPERTIES
  StackInOrder
  PacketsAreRead
  LinkComesUp
CHECK_DEADLOCK FALSE

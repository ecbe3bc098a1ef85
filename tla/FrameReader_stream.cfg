\* One loss shorter than a frame, room for two frames.  A radar that has not
\* heard the second command stays silent, and nothing more happens.
SPECIFICATION FairSpec
CONSTANTS
  Frames <- MCFrames
  MaxBurst = 22
  BufferSize = 46
INVARIANTS
  DataFromOneFrame
  ReadFits
  SetupHeard
PROPERTIES
  IntactFrameAccepted
  Resynchronises
CHECK_DEADLOCK FALSE

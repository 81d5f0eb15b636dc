CONSTANTS
  QUEUE_MAX = 3
  MaxArrivals = 2
  Frames <- MCFrames
  None = None
SPECIFICATION Spec
INVARIANT WellFormedDatagramAccepted
CHECK_DEADLOCK FALSE

\* Ring order and header validation over every frame kind.
CONSTANTS
  QUEUE_MAX = 3
  MaxArrivals = 4
  Frames <- MCFrames
  None = None
SPECIFICATION FairSpec
INVARIANT TypeOK RxDeliversOnlyValid
PROPERTY RingImplementsFifo
\* The driver receives MaxArrivals frames, the helper drains them and stops.
CHECK_DEADLOCK FALSE

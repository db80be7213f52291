CONSTANTS
  NumPackets = 5
  Delays = {0, 1, 2}
  InCap = 3
  OutCap = 2
  MaxTime = 3
  None = None

SPECIFICATION Spec
CHECK_DEADLOCK FALSE
INVARIANT TypeOK
PROPERTY ImplementsTimingQueue

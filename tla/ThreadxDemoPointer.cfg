SPECIFICATION FairSpec
CONSTANTS
  Blocks = {b1, b2, b3}
  QueueCap = 2
  UlongHoldsPointer = FALSE
  MaxBlinks = 2
  MaxReadings = 5
  None = None
  Wild = Wild
INVARIANT ReceivesPointers
CHECK_DEADLOCK FALSE

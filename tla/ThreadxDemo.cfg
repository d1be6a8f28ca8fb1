SPECIFICATION FairSpec
CONSTANTS
  Blocks = {b1, b2, b3}
  QueueCap = 2
  UlongHoldsPointer = TRUE
  MaxBlinks = 2
  MaxReadings = 5
  None = None
  Wild = Wild
INVARIANTS
  BlinksAccounted
  BlocksAccounted
  ReadingsInOrder
PROPERTIES
  CatchesUp
CHECK_DEADLOCK FALSE

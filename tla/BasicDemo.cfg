SPECIFICATION FairSpec
CONSTANTS
  RingSize = 3
  LineCap = 1
  MaxBytes = 4
  QueueSize = 1
  MaxPresses = 2
INVARIANTS
  PressesAccounted
PROPERTIES
  ImplementsFifo
  PrintsAll
CHECK_DEADLOCK FALSE

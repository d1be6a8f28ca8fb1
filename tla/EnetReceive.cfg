SPECIFICATION FairSpec
CONSTANTS
  N = 4
  Spare = 2
  MaxFrames = 4
  MaxBds = 3
INVARIANTS
  OneOwner
  DeliversWhole
PROPERTIES
  KeepsReceiving
CHECK_DEADLOCK FALSE

SPECIFICATION FairSpec
CONSTANTS
  N = 4
  MaxPackets = 4
  MaxBds = 3
INVARIANTS
  TypeOK
  WholeFrames
  AllInWalk
PROPERTIES
  ImplementsService
  AllReturned
CHECK_DEADLOCK FALSE

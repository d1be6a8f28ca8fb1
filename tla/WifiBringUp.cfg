SPECIFICATION FairSpec
CONSTANTS
  NServers = 4
  MaxChanges = 1
INVARIANTS
  DeletesInOrder
  AllOrNothing
  SyncsOnNetwork
PROPERTIES
  ConnectReturns
CHECK_DEADLOCK FALSE

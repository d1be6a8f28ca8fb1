SPECIFICATION Spec
CONSTANTS
  NServers = 4
  MaxChanges = 1
INVARIANT
  TriesServersOnly
CHECK_DEADLOCK FALSE

SPECIFICATION FairSpec
CONSTANTS
  Client = {c1, c2}
  PoolSize = 3
  UdpQueue = 2
  TxQueue = 1
  MaxDatagrams = 3
  MaxSegments = 3
  MaxConnections = 2
INVARIANTS
  PacketsAccounted
  RepliesMatch
  EchoesAll
PROPERTIES
  ListensAgain
CHECK_DEADLOCK FALSE

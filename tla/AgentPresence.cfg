CONSTANTS
  c1 = c1
  c2 = c2
  k1 = k1
  Conns = {c1, c2}
  NoConn = NoConn
  Controls = {k1}
  OfflineAfter = 3
  MaxInbox = 2
SPECIFICATION FairSpec
CHECK_DEADLOCK FALSE
INVARIANTS
  TypeOK
  ConnectedIsRecent
PROPERTIES
  StableAgentStaysOnline
  DeadAgentDisconnects
  StatusConverges
  ExpiredWasLost

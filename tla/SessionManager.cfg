CONSTANTS
  a1 = a1
  c1 = c1
  c2 = c2
  k1 = k1
  k2 = k2
  Agents = {a1}
  Conns = {c1, c2}
  Owner <- OneOwner
  Calls = {k1, k2}
  NoConn = NoConn
  NoCall = NoCall
  RegisterOK = RegisterOK
  Capacity = 1
SPECIFICATION OrderedSpec
CHECK_DEADLOCK FALSE
INVARIANTS
  NoPanic
  NoPendingLeak
  NeverCancelled
  SessionHasHandler
  SupersededIsClosed
PROPERTIES
  OnlyOwnSessionLeaves
  OnlyLateRepliesDropped
  ImplementsRemoteCall
  EveryCallReturns
  DeadSessionLeaves

CONSTANTS
  r1 = r1
  r2 = r2
  h1 = h1
  h2 = h2
  Reqs = {r1, r2}
  Handlers = {h1, h2}
  NoReq = NoReq
  Skew = 2
  MaxStall = 2
  Horizon = 7
SPECIFICATION Spec
CHECK_DEADLOCK FALSE
INVARIANTS
  AdmittedOnce
  CachedWasAdmitted
PROPERTIES
  RepeatedSoon

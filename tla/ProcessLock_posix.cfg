CONSTANTS
  p1 = p1
  p2 = p2
  p3 = p3
  Procs = {p1, p2}
  NoProc = NoProc
  RemovesOpen = TRUE
SPECIFICATION Spec
CHECK_DEADLOCK FALSE
INVARIANTS
  MutualExclusion

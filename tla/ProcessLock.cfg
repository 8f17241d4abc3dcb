CONSTANTS
  p1 = p1
  p2 = p2
  p3 = p3
  Procs = {p1, p2, p3}
  NoProc = NoProc
  RemovesOpen = FALSE
SPECIFICATION FairSpec
CHECK_DEADLOCK FALSE
INVARIANTS
  MutualExclusion
  HolderKeepsFile
PROPERTIES
  LoneStartIsNotRefused
  RefusedForCause

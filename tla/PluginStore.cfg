CONSTANTS
  n1 = n1
  v1 = v1
  v2 = v2
  b1 = b1
  b2 = b2
  r1 = r1
  r2 = r2
  Names = {n1}
  Versions = {v1, v2}
  Contents = {b1, b2}
  Requests = {r1, r2}
  NoRecord = NoRecord
SPECIFICATION Spec
CHECK_DEADLOCK FALSE
INVARIANTS
  RecordsWellFormed
  AnsweredIsSaved
PROPERTIES
  VersionsSurvive

CONSTANTS
  g1 = g1
  a1 = a1
  a2 = a2
  c1 = c1
  c2 = c2
  Groups = {g1}
  Agents = {a1}
  Requests = {c1}
  NoGroup = NoGroup
  NoAgent = NoAgent
SPECIFICATION Spec
CHECK_DEADLOCK FALSE
INVARIANTS
  SuperexecWorks

CONSTANTS
  g1 = g1
  a1 = a1
  a2 = a2
  c1 = c1
  c2 = c2
  Groups = {g1}
  Agents = {a1, a2}
  Requests = {c1, c2}
  NoGroup = NoGroup
  NoAgent = NoAgent
SPECIFICATION Spec
SYMMETRY Symmetry
CHECK_DEADLOCK FALSE
INVARIANTS
  MembersHaveGroup
  GroupsAreSaved
  RunsWhereAddressed
  ShellRunsScripts
  ExitZeroIsDone

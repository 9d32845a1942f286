CONSTANTS
  a1 = a1
  a2 = a2
  t1 = t1
  t2 = t2
  ann = ann
  r1 = r1
  r2 = r2
  c1 = c1
  c2 = c2
  None = None
  Agent <- MCAgent
  Person <- MCPerson
  Task <- MCTask
  Replica <- MCOneReplica
  Client <- MCOneClient
  MaxFailures = 2
  MaxRequests = 2
  MaxCrashes = 0
CHECK_DEADLOCK FALSE
SYMMETRY Renaming
SPECIFICATION Spec
INVARIANTS
  PointerFollowsAssignee
  RetiredAgentIsInert

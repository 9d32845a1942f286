CONSTANTS
  t1 = t1
  t2 = t2
  r1 = r1
  c1 = c1
  c2 = c2
  None = None
  Agent <- MCAgent
  Person = {}
  Task <- MCTask
  Replica <- MCReplica
  Client <- MCClient
  MaxFailures = 1
  MaxRequests = 3
  MaxCrashes = 0
  Levels = 3
  MaxAgents = 4
  Shapes <- MCShapes
CHECK_DEADLOCK FALSE
SYMMETRY Clients
SPECIFICATION ChartSpec
INVARIANTS
  ChartIsSound
  BranchesGoWhole

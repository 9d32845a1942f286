CONSTANTS
  a1 = a1
  a2 = a2
  t1 = t1
  t2 = t2
  ann = ann
  r1 = r1
  r2 = r2
  c1 = c1
  c2 = c2
  None = None
  Agent <- MCOneAgent
  Person <- MCPerson
  Task <- MCTask
  Replica <- MCReplica
  Client <- MCOneClient
  MaxFailures = 2
  MaxRequests = 1
  MaxCrashes = 1
CHECK_DEADLOCK FALSE
SPECIFICATION FairSpec
INVARIANTS
  IndInv
  OneStepPerAgent
  AssignmentsAreSound
PROPERTIES
  StepsAreSpaced
  AgentIsServed

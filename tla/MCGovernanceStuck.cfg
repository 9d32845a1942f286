CONSTANTS
  ann = ann
  bob = bob
  org = org
  q1 = q1
  q2 = q2
  h1 = h1
  h2 = h2
  r1 = r1
  r2 = r2
  None = None
  Person <- MCPerson
  Managed <- MCManaged
  Workspace = org
  Request <- MCRequest
  Handler <- MCHandler
  Replica <- MCReplica
  MaxRequests = 1
  MaxCrashes = 0
CHECK_DEADLOCK FALSE
SPECIFICATION FairSpec
PROPERTIES
  DueDeletionsRun

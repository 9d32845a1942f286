CONSTANTS
  m1 = m1
  m2 = m2
  r1 = r1
  r2 = r2
  None = None
  Message <- MCMessage
  Replica <- MCReplica
  MaxAttempts = 3
  BatchLimit = 2
  MaxCrashes = 1
CHECK_DEADLOCK FALSE
SPECIFICATION FairSpec
INVARIANTS
  IndInv
  RepeatsAreExcused
  OutcomeIsTruthful
PROPERTIES
  QueueDrains

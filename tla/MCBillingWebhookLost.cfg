CONSTANTS
  s1 = s1
  s2 = s2
  pro = pro
  h1 = h1
  h2 = h2
  None = None
  Subscription <- MCSubscription
  Plan <- MCPlan
  Handler <- MCHandler
  MaxEvents = 2
  MaxFailures = 1
SYMMETRY Renaming
CHECK_DEADLOCK FALSE
SPECIFICATION Spec
INVARIANTS
  RecordedIsApplied

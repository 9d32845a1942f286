CONSTANTS
  d1 = d1
  d2 = d2
  p1 = p1
  o1 = o1
  o2 = o2
  h1 = h1
  h2 = h2
  c1 = c1
  c2 = c2
  Loose = Loose
  None = None
  Doc <- MCDoc
  Project <- MCProject
  Org <- MCOrg
  OrgOf <- MCOrgOf
  Handler <- MCHandler
  Cleaner <- MCCleaner
  Ticker <- MCTicker
  MaxFailures = 1
SPECIFICATION FairSpec
INVARIANTS
  IndInv
  OrphansAreLeaks
  RowsAreIntact
PROPERTIES
  ImplementsBucket
  StaleRowsGo

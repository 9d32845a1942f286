CONSTANTS
  p1 = p1
  p2 = p2
  h1 = h1
  h2 = h2
  Proposal <- MCProposal
  Handler <- MCHandler
SYMMETRY Renaming
SPECIFICATION PageSpec
INVARIANTS
  PageInv
  AuditedWasApplied
  CardsTellTheTruth
PROPERTIES
  ImplementsAtMostOnce

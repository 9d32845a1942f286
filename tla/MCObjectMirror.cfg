CONSTANTS
  k1 = k1
  k2 = k2
  k3 = k3
  NoKey = NoKey
  Key <- MCKey
  MaxOutages = 1
SPECIFICATION FairMirrorSpec
INVARIANTS
  MirrorInv
PROPERTIES
  OnlyDeletedLeaveBackup
  DeletionsReachBackup
  FilesAreBackedUp

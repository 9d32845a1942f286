CONSTANTS
  ann = ann
  bob = bob
  q1 = q1
  q2 = q2
  k1 = k1
  k2 = k2
  i1 = i1
  i2 = i2
  Address <- MCAddress
  Request <- MCRequest
  Link <- MCLink
  Invite <- MCInvite
  Busy <- MCBusy
  Nobody = Nobody
  SeatLimit = 1
  MaxEra = 2
  MaxSessions = 1
SYMMETRY Renaming
CHECK_DEADLOCK FALSE
SPECIFICATION Spec
INVARIANTS
  OneTimeAccess
  SessionsFollowCredentials

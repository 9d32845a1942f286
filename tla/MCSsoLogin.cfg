SPECIFICATION Spec
CONSTANTS
  a = a
  b = b
  Issuer = {a, b}
  First = a
  Unnamed = {b}
  Form <- MCForm
  Person = {p}
  Flow = {f, g}
  Request = {q1, q2}
  None = None
  MaxEvents = 3
  MaxSessions = 1
SYMMETRY Symmetry
CHECK_DEADLOCK FALSE
INVARIANTS
  SignOn
  RefusalsAreExcused

SPECIFICATION Spec
CONSTANTS
  a = a
  b = b
  x = x
  y = y
  p = p
  q = q
  Claims = {1, 2, 3}
  Namespaces = {a, b}
  Namespace <- MCNamespace
  Subject <- MCSubject
  Object <- MCObject
  From <- MCFrom
  To <- MCTo
  Absorbed = y
  Surviving = x
  Max = 1
  Detectors = {d1, d2}
  Curators = {u1, u2}
  Requests <- MCRequests
  ConflictIds = {1, 2, 3}
  MaxIdentityEvents = 1
  Early = {1, 2}
  None = None
SYMMETRY
  Symmetric
INVARIANTS
  NoViolationIsMissed
  AllFoundIsRecorded
PROPERTIES
  ResolutionsStand
CHECK_DEADLOCK FALSE

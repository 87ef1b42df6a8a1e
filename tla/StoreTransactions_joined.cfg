SPECIFICATION Spec
CONSTANTS
  t1 = t1
  t2 = t2
  t3 = t3
  single = single
  Calls = {t1, t2}
  Plain = {}
  Statements = 2
  Clients = {"pglite"}
  Connections = {c1}
  None = None
  MaxFaults = 1
INVARIANTS
  AllOrNothing
CHECK_DEADLOCK FALSE

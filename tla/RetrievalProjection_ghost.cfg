SPECIFICATION Spec
CONSTANTS
  c1 = c1
  c2 = c2
  e1 = e1
  e2 = e2
  Claims = {c1, c2}
  Entities = {e1, e2}
  EntitySet = {e1, e2}
  EventIds = {1, 2, 3}
  Subject <- MCSubject
  Resolver <- canonicalEntityResolver
  Maintainers = {worker, operator}
  MaxFaults = 0
  None = None
  NoEvent = None
  Cycle = Cycle
INVARIANTS
  NoResurrection

SPECIFICATION FairSpec
CONSTANTS
  t1 = t1
  t2 = t2
  t3 = t3
  single = single
  Calls = {t1, t2, t3, single}
  Plain = {single}
  Statements = 2
  Clients = {"pool", "sqlite"}
  Connections = {c1, c2}
  None = None
  MaxFaults = 2
INVARIANTS
  OwnersAreAtomic
  NothingLeftOpen
PROPERTIES
  EveryCallEnds
  ImplementsAtomicTransactions
CHECK_DEADLOCK FALSE

SPECIFICATION Spec
CONSTANTS
  a = a
  b = b
  c = c
  Entities = {a, b, c}
  Similar <- Chain
  EventIds = {1, 2, 3, 4, 5, 6, 7}
  MaxSkew = 0
  Callers = {one}
  None = None
SYMMETRY ChainSymmetry
INVARIANTS
  MergesWereApproved
  ResolversAgree
  MergesFormAForest
  ReviewedOnce
PROPERTIES
  StepsMoveOneCluster
CHECK_DEADLOCK FALSE

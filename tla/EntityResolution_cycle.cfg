SPECIFICATION Spec
CONSTANTS
  a = a
  b = b
  c = c
  Entities = {a, b}
  Similar <- OnePair
  EventIds = {1, 2, 3, 4}
  MaxSkew = 0
  Callers = {one, two}
  None = None
SYMMETRY CallerSymmetry
INVARIANTS
  NoMergeCycle
CHECK_DEADLOCK FALSE

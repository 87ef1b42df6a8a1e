SPECIFICATION Spec
CONSTANTS
  lexical = lexical
  vector = vector
  graph = graph
  other = other
  Searches = {lexical, vector, graph, other}
  After <- MCAfter
  Historical = {other}
  Sampled = {lexical, graph, other}
  Modes = {"disabled", "shadow", "canary", "enabled"}
  MaxConsecutiveErrors = 2
  MaxResets = 1
INVARIANTS
  CountersAddUp
  RollbackMatchesHistory
  ProjectionAnswersAreAdmitted
PROPERTIES
  RollbackHoldsAndDrains

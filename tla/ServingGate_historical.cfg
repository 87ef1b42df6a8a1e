SPECIFICATION Spec
CONSTANTS
  lexical = lexical
  vector = vector
  graph = graph
  other = other
  Searches = {lexical, vector, graph, other}
  After <- MCAfter
  Historical = {lexical, vector, graph}
  Sampled = {}
  Modes = {"enabled"}
  MaxConsecutiveErrors = 3
  MaxResets = 0
INVARIANTS
  RollbackIsAboutSupportedSearches

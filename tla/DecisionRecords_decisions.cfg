SPECIFICATION MCSpec
CONSTANTS
  c1 = c1
  c2 = c2
  w1 = w1
  w2 = w2
  w3 = w3
  r1 = r1
  a1 = a1
  d1 = d1
  d2 = d2
  k1 = k1
  m1 = m1
  m2 = m2
  None = None
  Claims = {c1, c2}
  Recorded = {c1}
  Validity <- MCValidity
  Writers = {w1, w2, w3}
  Readers = {r1, a1}
  Stores = {"postgres", "sqlite"}
  MaxTime = 2
  Deciders = {d1, d2}
  Curators = {k1}
  Auditors = {a1}
  Managers = {m1, m2}
  Casts <- MCCasts
  Requests <- MCRequests
  Asked <- MCAsked
  Legacy <- MCLegacy
  Drafts <- MCDrafts
CONSTRAINT MCBound
INVARIANTS
  VersionsAreKept
  AnswersAreTrue
  AnswersStand
  ReplayIsComplete
  AuditsAreComplete
CHECK_DEADLOCK FALSE

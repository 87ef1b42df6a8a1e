SPECIFICATION FairSpec
CONSTANTS
  alice = alice
  Callers = {alice}
  Workers = {w1, w2}
  Requests <- MCRequests
  OperatorJobs <- MCOperatorJobs
  MaxByHand = 1
  Drafts <- MCDrafts
  KeyOf <- MCKeyOf
  Normalized <- MCNormalized
  Blobs = {"note", "memo", "report"}
  MaxFaults = 1
INVARIANTS
  ReferencesHold
  OverlapsAreMarked
  AnswersAreComplete
  IndexComplete
PROPERTIES
  ImplementsJobDelivery
  EveryJobIsRun
CHECK_DEADLOCK FALSE

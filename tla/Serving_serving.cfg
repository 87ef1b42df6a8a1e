CONSTANTS
  None = None
  Claims <- MCClaims
  Order <- MCOrder
  Asserted <- MCAsserted
  Changing <- MCChanging
  Subject <- MCSubject
  Object <- MCObject
  Record <- MCRecord
  Words = 2
  Tokens <- MCTokens
  Similarity <- MCSimilarity
  Searchers <- MCSearchers
  LexicalLimit = 2
  VectorLimit = 2
  GraphLimit = 3
  Hops = 2
  Budget <- MCBudget
  RrfK = 60
  MaxChanges = 2
  Requests <- MCRequests
  AccessTokens <- MCAccessTokens
  Route <- MCRoute
  Bearer <- MCBearer
  Required <- MCRequired
  Scopes <- MCScopes
  Principal <- MCPrincipal
  Expiry <- MCExpiry
  RateMax = 1
  Window = 2
  TTL = 2
  MaxTime = 2
  Casts <- MCCasts
  Operation <- MCOperation
  Source <- MCSource
SPECIFICATION FairSpec
INVARIANTS
  HitsAreSound
  
  
  AnswersAreForTheCaller
  RateIsKept
  AcceptedTokensWereValid
  AnswersAreAudited
PROPERTIES
  OneAnswer
  TimeoutsEndRequests
CHECK_DEADLOCK FALSE

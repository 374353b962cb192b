SPECIFICATION FairSpec
CONSTANTS
  Resolver <- MCResolver
  Endpoint <- MCEndpoint
  Owner <- MCOwner
  Home <- MCHome
  Url <- MCUrl
  Keyed = {"r1", "r2", "r3"}
  Configs <- MCConfigs
  First <- MCFirst
  Query = {"q1", "q2"}
  MaxDepth = 3
  MaxNodes = 3
  MaxInflight = 1
  MaxCalls = 4
  MaxChanges = 1
  None = "none"
INVARIANTS  BuiltChainsAccepted
PROPERTY QueriesDecided
CHECK_DEADLOCK FALSE

SPECIFICATION FairSpec
CONSTANTS
  Queries = {q1}
  Peers = {p1}
  QuestionOf <- SameQuestion
  PeerTx <- PeerIds
  Responses = {r1}
  NumUpstreams = 2
  NumIds = 1
  MaxInflight = 1
  MaxVerifying = 1
  MaxRestarts = 0
  MaxPurges = 1
  PromptTrace = TRUE
  LongRetention = TRUE
  QuietPurge = FALSE
INVARIANTS TypeOK EventUsedOnce 
PROPERTY EveryQueryAnswered
CHECK_DEADLOCK FALSE

SPECIFICATION Spec
CONSTANTS
  Queries = {q1, q2, q3}
  Peers = {}
  QuestionOf <- SameQuestion
  PeerTx <- PeerIds
  Responses = {r1}
  NumUpstreams = 1
  NumIds = 2
  MaxInflight = 2
  MaxVerifying = 1
  MaxRestarts = 1
  MaxPurges = 0
  PromptTrace = TRUE
  LongRetention = TRUE
  QuietPurge = FALSE
INVARIANTS TxExclusive OwnEvidence
SYMMETRY Symmetry
CHECK_DEADLOCK FALSE

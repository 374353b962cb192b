SPECIFICATION Spec
CONSTANTS
  Events <- FaultyEvents
  Conns = {c1, c2}
  Digests = {}
  NoDigest = NoDigest
  NoParent = "none"
  MaxEvents = 3
  BatchSize = 2
  QueueCapacity = 1
  MaxLate = 1
  MaxCrashes = 1
  MayAge <- MayAgeFaulty
INVARIANTS    SpoolInOrder
 
CHECK_DEADLOCK FALSE

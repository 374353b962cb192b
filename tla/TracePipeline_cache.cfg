SPECIFICATION FairSpec
CONSTANTS
  Events <- CacheEvents
  Conns = {c1}
  Digests = {d1, d2}
  NoDigest = NoDigest
  NoParent = "none"
  MaxEvents = 2
  BatchSize = 2
  QueueCapacity = 1
  MaxLate = 0
  MaxCrashes = 1
  MayAge <- MayAgeCache
INVARIANTS TypeOK UploadStable
PROPERTY SpoolDrains
CHECK_DEADLOCK FALSE

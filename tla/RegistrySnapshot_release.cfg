SPECIFICATION FairSpec
CONSTANTS
  Servers = {1, 2}
  Self = 1
  Choices <- FixedEndpoints
  Builds = {b1}
  MaxHeight = 1
  MaxChanges = 2
  MaxReorgs = 0
  MaxEdits = 1
  MayRollback = FALSE
INVARIANTS TypeOK ReleasedOneSnapshot
PROPERTY ValidFileSynced
CHECK_DEADLOCK FALSE

SPECIFICATION Spec
CONSTANTS
  Servers = {1, 2}
  Self = 1
  Choices <- FixedEndpoints
  Builds = {}
  MaxHeight = 2
  MaxChanges = 2
  MaxReorgs = 1
  MaxEdits = 2
  MayRollback = TRUE
INVARIANTS LookupSound OneSnapshot RevokedNotListed
PROPERTY CheckpointKept
CHECK_DEADLOCK FALSE

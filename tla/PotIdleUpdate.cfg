\* An update that changes nothing.
SPECIFICATION TrieSpec
CONSTANTS
  Depth = 3
  Value = {v1}
  KeepPassed = FALSE
  Persistent = TRUE
  IdleUpdates = TRUE
  PackedDeletes = FALSE
  MaxNodes = 8
INVARIANTS
  NothingLost
CHECK_DEADLOCK FALSE

\* Walks without updates that drop entries.
SPECIFICATION TrieSpec
CONSTANTS
  Depth = 3
  Value = {v1}
  KeepPassed = FALSE
  Persistent = TRUE
  IdleUpdates = FALSE
  PackedDeletes = FALSE
  MaxNodes = 8
INVARIANTS
  IterateComplete
CHECK_DEADLOCK FALSE

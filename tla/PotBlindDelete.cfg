\* A deletion in a trie that was loaded.
SPECIFICATION TrieSpec
CONSTANTS
  Depth = 3
  Value = {v1}
  KeepPassed = FALSE
  Persistent = TRUE
  IdleUpdates = FALSE
  PackedDeletes = TRUE
  MaxNodes = 8
INVARIANTS
  NothingLost
CHECK_DEADLOCK FALSE

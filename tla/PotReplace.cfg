\* Two values, so that entries are replaced, in a trie whose nodes keep the
\* forks that are out of reach.
SPECIFICATION TrieSpec
CONSTANTS
  Depth = 2
  Value = {v1, v2}
  KeepPassed = TRUE
  Persistent = TRUE
  IdleUpdates = TRUE
  PackedDeletes = TRUE
  MaxNodes = 5
INVARIANTS
  NodesSound
  TrieIsMap
CHECK_DEADLOCK FALSE

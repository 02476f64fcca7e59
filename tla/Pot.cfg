\* Any updates of a trie that is saved and loaded again at any time, also those
\* that drop entries of others (idle updates and blind deletions).
SPECIFICATION TrieSpec
SYMMETRY Symmetry
CONSTANTS
  Depth = 3
  Value = {v1, v2}
  KeepPassed = FALSE
  Persistent = TRUE
  IdleUpdates = TRUE
  PackedDeletes = TRUE
  MaxNodes = 3
INVARIANTS
  NodesSound
  TrieIsMap
  IterateOrdered
CHECK_DEADLOCK FALSE

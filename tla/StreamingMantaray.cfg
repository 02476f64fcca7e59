\* Four paths; everything below the root is evicted.
SPECIFICATION FairSpec
CONSTANTS
  Path <- Branches
  Value = {v1}
  Concurrency = 2
  EvictDepth = 0
  MaxQueue = 2
  Hasty = FALSE
INVARIANTS
  TreeSound
  SaveComplete
  ReadsSeeWrites
PROPERTIES
  EveryCallEnds
  MapSpec
CHECK_DEADLOCK FALSE

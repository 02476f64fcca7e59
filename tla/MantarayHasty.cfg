\* Callers that go on after a failed save, with uploads of it under way.
SPECIFICATION Spec
CONSTANTS
  Path <- Branch
  Value = {v1, v2}
  Concurrency = 2
  EvictDepth = 0
  MaxQueue = 2
  Hasty = TRUE
INVARIANTS
  SaveComplete
CHECK_DEADLOCK FALSE

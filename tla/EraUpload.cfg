\* Two commands over two eras, with checkpoints, extension and crashes.
CONSTANTS
  Eras = 2
  PerEra = 2
  Account = {a1, a2}
  Concurrency = 2
  MaxRuns = 2
SPECIFICATION FairSpec
INVARIANTS
  SavesSound
  EndsSound
PROPERTY RunEnds
CHECK_DEADLOCK FALSE

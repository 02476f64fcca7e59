\* Two commands of every kind over two eras, and crashes between any two steps.
CONSTANTS
  Eras = 2
  PerEra = 2
  Account = {a1}
  Concurrency = 2
  Fanout = 2
  MaxRuns = 2
SPECIFICATION FairSpec
INVARIANTS
  DatabaseSound
  AnnouncedSound
PROPERTY RunEnds
CHECK_DEADLOCK FALSE

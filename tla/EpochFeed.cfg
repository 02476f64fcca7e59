\* Eight seconds, five updates, a reader.
SPECIFICATION FeedSpec
CONSTANTS
  Reader = {r1}
  MaxLevel = 3
  MaxTime = 7
  MaxUpdates = 5
  Flaky = FALSE
INVARIANTS
  ChunksSound
  ReadersFresh
CHECK_DEADLOCK FALSE

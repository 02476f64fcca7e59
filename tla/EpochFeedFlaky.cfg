\* A Bee that may fail to answer for a chunk it has.
SPECIFICATION FeedSpec
CONSTANTS
  Reader = {r1}
  MaxLevel = 3
  MaxTime = 7
  MaxUpdates = 5
  Flaky = TRUE
INVARIANTS
  AncestorHintsSafe
CHECK_DEADLOCK FALSE

\* A Bee that acknowledges every chunk.
SPECIFICATION FairSpec
CONSTANTS
  Payload = {p1, p2}
  Faults = {}
  MaxWsAttempts = 2
  MaxFrames = 3
  MaxDrops = 2
INVARIANTS
  CacheSound
  AcksAligned
PROPERTIES
  StreamSpec
  EveryFrameAcked
CHECK_DEADLOCK FALSE

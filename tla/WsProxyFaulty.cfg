\* A Bee that may drop a chunk without a word or refuse it.
SPECIFICATION Spec
CONSTANTS
  Payload = {p1, p2}
  Faults = {"silent", "reject"}
  MaxWsAttempts = 2
  MaxFrames = 3
  MaxDrops = 1
INVARIANTS
  OneAckPerFrame
  NoZombieSession
CHECK_DEADLOCK FALSE

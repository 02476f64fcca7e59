\* A client that leaves at any time, the handshake with Bee included.
SPECIFICATION FairSpec
CONSTANTS
  Payload = {p1}
  Faults = {}
  MaxWsAttempts = 2
  MaxFrames = 1
  MaxDrops = 1
PROPERTIES
  NoOrphanUpstream
CHECK_DEADLOCK FALSE

\* A server that may skip and refuse chunks or never answer, and a socket that
\* may break.
SPECIFICATION FairSpec
CONSTANTS
  Call = {c1, c2, c3}
  MaxInFlight = 2
INVARIANTS
  CallsTracked
  ResolvedStored
PROPERTIES
  EveryCallSettles
CHECK_DEADLOCK FALSE

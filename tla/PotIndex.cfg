\* Updates and saves that overlap in every way.
SPECIFICATION FairSpec
CONSTANTS
  Update = {u1, u2, u3}
  Save = {s1, s2}
INVARIANTS
  NoUpdateLost
  SaveIsFresh
PROPERTIES
  OneAtATime
  EveryUpdateEnds
CHECK_DEADLOCK FALSE

\* Two commands beside a server that may be started and stopped at any moment.
CONSTANTS
  Eras = 2
  PerEra = 2
  Cuts = {7}
  MaxRuns = 2
  HasTxs = {1}
SPECIFICATION FairSpec
INVARIANTS
  TypeOK
  FilesSound
  AnswersTrue
PROPERTY CommandEnds
CHECK_DEADLOCK FALSE

\* Tries that extend others by the same era, with two accounts.
CONSTANTS
  Eras = 1
  PerEra = 2
  Account = {a1, a2}
  Concurrency = 2
  MaxRuns = 2
SPECIFICATION Spec
INVARIANT PutsKept
CHECK_DEADLOCK FALSE

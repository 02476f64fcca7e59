\* A manifest that extends one of another era.
CONSTANTS
  Eras = 2
  PerEra = 1
  Account = {a1}
  Concurrency = 1
  MaxRuns = 2
SPECIFICATION Spec
INVARIANT ManifestMetaCovers
CHECK_DEADLOCK FALSE

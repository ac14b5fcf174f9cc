SPECIFICATION Spec
CONSTANTS
  Keys = {k0, k1, k2}
  EmptyKey = k0
  L1Size = 1
  L2Size = 2
  Policies = {"fifo", "lfu", "lru"}
  DefaultTtl = 2
  Ttls = {1}
  Loaders = {l1}
  Loadable = {k1}
  MaxChanges = 1
  MaxUses = 1
  MaxTime = 2
  None = None
CHECK_DEADLOCK FALSE
INVARIANTS CacheConsistent StaleBounded OnlyRacingLoadServesStale
PROPERTY OnlyEmptyKeyOverflows

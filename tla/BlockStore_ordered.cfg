SPECIFICATION OrderlySpec
CONSTANTS
  Writers = {miner, p2p}
  Stores = {"memory"}
  k = k
  k_index = k_index
  other = other
  v1 = v1
  v2 = v2
  Keys = {k, k_index, other}
  IndexKey <- SharedNames
  Values = {v1, v2}
  Blocks = {1, 2, 3}
  Nil = Nil
  MaxSets = 4
  MaxReverts = 2
  MaxCrashes = 0
SYMMETRY Symmetry
INVARIANTS
  IndexIsExact
  RevertRestoresFork
  GetReturnsLatest
PROPERTY ImplementsVersionedState
CHECK_DEADLOCK FALSE

SPECIFICATION Spec
CONSTANTS
  Writers = {miner}
  Stores = {"memory"}
  k = k
  k_index = k_index
  other = other
  v1 = v1
  v2 = v2
  Keys = {k, other}
  IndexKey <- NoNames
  Values = {v1, v2}
  Blocks = {1, 2, 3}
  Nil = Nil
  MaxSets = 3
  MaxReverts = 1
  MaxCrashes = 0
SYMMETRY Symmetry
INVARIANTS
  RevertRestoresFork
CHECK_DEADLOCK FALSE

SPECIFICATION Spec
CONSTANTS
  Writers = {miner, p2p}
  Stores = {"memory", "storage"}
  k = k
  k_index = k_index
  other = other
  v1 = v1
  v2 = v2
  Keys = {k, k_index}
  IndexKey <- SharedNames
  Values = {v1, v2}
  Blocks = {1, 2, 3}
  Nil = Nil
  MaxSets = 3
  MaxReverts = 1
  MaxCrashes = 1
SYMMETRY Symmetry
INVARIANTS
  TypeOK
  EveryIndexedBlockHasValue
  PositionKeepsBlock
CHECK_DEADLOCK FALSE

SPECIFICATION Spec
CONSTANTS
  MaxPosts = 5
  MaxRounds = 4
  MaxFaults = 1
INVARIANTS
  MinedOnceInOrder
  LostOnlyByLapse
  NothingForgotten
PROPERTIES
  ImplementsTransactionPool
CHECK_DEADLOCK FALSE

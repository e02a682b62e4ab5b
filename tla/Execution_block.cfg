SPECIFICATION FairSpec
CONSTANTS
  Keys = {k1}
  Values = {v1, v2}
  Nil = Nil
  Accounts = {alice, miner}
  Winner = miner
  Funds = 3
  Word = 8
  GasLimits = {2, 11}
  Costs = {1, 2}
  MaxTxs = 2
  MaxDepth = 3
INVARIANTS
  TransactionsAreAtomic
  ReadsAreCurrent
  GasAccounting
PROPERTIES
  FeesConserveTokens
  TransactionsEnd
CHECK_DEADLOCK FALSE

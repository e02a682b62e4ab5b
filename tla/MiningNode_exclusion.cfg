SPECIFICATION Spec
CONSTANTS
  PeerNumbers = {0, 1, 2}
  MaxRounds = 3
  MaxLogs = 1
  MaxFaults = 1
CONSTRAINT NoLapse
INVARIANTS
  StopExcludesMiner
  LinearHistory
  OneMiningLoop
CHECK_DEADLOCK FALSE

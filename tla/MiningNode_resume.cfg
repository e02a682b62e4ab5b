SPECIFICATION Spec
CONSTANTS
  PeerNumbers = {0, 1}
  MaxRounds = 2
  MaxLogs = 1
  MaxFaults = 1
INVARIANTS
  MiningResumes
CHECK_DEADLOCK FALSE

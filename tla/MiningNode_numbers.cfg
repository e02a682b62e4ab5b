SPECIFICATION Spec
CONSTANTS
  PeerNumbers = {0, 1}
  MaxRounds = 2
  MaxLogs = 1
  MaxFaults = 0
INVARIANT BlockNumberIdentifiesBlock
CHECK_DEADLOCK FALSE

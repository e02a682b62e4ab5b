SPECIFICATION FairSpec
CONSTANTS
  PeerNumbers = {1}
  MaxRounds = 2
  MaxLogs = 1
  MaxFaults = 1
PROPERTIES
  RoundEnds
  StoppedMinerMinesAgain
  ValidBlockIsInserted
CHECK_DEADLOCK FALSE

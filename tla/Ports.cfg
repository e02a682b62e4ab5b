SPECIFICATION Spec
CONSTANTS
  Callers = {c1, c2}
  BlockNumbers = {1, 2}
  StoreKeys = {k}
  StoreValues = {v, big}
  LargeValues = {big}
  MaxCalls = 2
  MaxPrograms = 2
  Base = 2
  Numerator = 2
  HashValues <- Hashes
  Target = 2
  MaxNonce = 4
  LineSizes = {2}
  MaxLogs = 3
  Header = 2
  Sizes = {2}
  MaxFrames = 3
  MaxEpochs = 2
  MaxCasts = 2
INVARIANTS
  AnsweredPutIsStored
  GetReturnsWhatWasPut
  AnswerIsFirstAccepted
  AnswerTakenUnlessMerged
  NothingSkipped
  OnceAndInOrder
PROPERTIES
  ServerComesBack
  ClosedProgramEnds
  MessagesArrive
  BroadcastsGoOut
CHECK_DEADLOCK FALSE

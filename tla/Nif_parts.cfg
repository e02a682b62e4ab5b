SPECIFICATION Spec
CONSTANTS
  Threads = {a, m, j}
  Managed = {m}
  Jobs = {j}
  Addrs = {x, y}
  MaxArcs = 4
  MaxSaved = 2
  ResourceTypes = {"small", "large"}
  Size <- SizeOf
  Align <- AlignOf
  Raws = {4, 5, 7}
  MaxRefs = 4
  Buffers = {b1, b2, b3}
  Sizes = {1, 2}
  Usize = 4
  MaxSteps = 4
  Wide = 4
  Byte = 2
  MaxName = 2
  MaxList = 2
INVARIANTS
  OnlyLateLoadsAreStale
  JobAnswersOnce
  NoDanglingReference
  ArcReadsWhatWasWritten
  BinariesAreSound
  RoundTrip
  DecodeIsExact
CHECK_DEADLOCK FALSE

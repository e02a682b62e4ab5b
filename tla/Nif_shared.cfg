SPECIFICATION EnvSpec
CONSTANTS
  Threads = {a, b}
  Managed = {}
  Jobs = {}
  Addrs = {x, y}
  MaxArcs = 3
  MaxSaved = 1
INVARIANT LoadedTermIsAlive
CHECK_DEADLOCK FALSE

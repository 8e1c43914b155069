SPECIFICATION Spec
CONSTANTS
  NumDbs = 1
  k1 = k1
  k2 = k2
  a = a
  b = b
  Keys = {k1}
  Clients = {c1, c2}
  Elems = {a}
  IntMax = 0
  NoExp = NoExp
  MsPerSec = 2
  Cmds <- TimeoutCmds
  WatchSets <- NoWatch
  MaxQueue = 1
  MaxNow = 3
  MaxTimeout = 4
  MaxElems = 1
  NoClient = NoClient
SYMMETRY ClientSymmetry
INVARIANTS
  TypeOK
  TimeoutNotLost
PROPERTIES
  PoisonStops
CHECK_DEADLOCK FALSE

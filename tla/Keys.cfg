SPECIFICATION Spec
CONSTANTS
  NumDbs = 2
  k1 = k1
  k2 = k2
  a = a
  b = b
  Keys = {k1, k2}
  Clients = {c1}
  Elems = {a}
  IntMax = 1
  NoExp = NoExp
  MsPerSec = 1
  Cmds <- KeyCmds
  WatchSets <- NoWatch
  MaxQueue = 0
  MaxNow = 2
  MaxTimeout = 4
  MaxElems = 1
  NoClient = NoClient
INVARIANTS
  ExpiredIsAbsent
  NoOrphanExpiration
CHECK_DEADLOCK FALSE

SPECIFICATION Spec
CONSTANTS
  NumDbs = 1
  k1 = k1
  k2 = k2
  a = a
  b = b
  Keys = {k1, k2}
  Clients = {c1, c2}
  Elems = {a}
  IntMax = 1
  NoExp = NoExp
  MsPerSec = 1
  Cmds <- RenameCmds
  WatchSets <- Watch1
  MaxQueue = 0
  MaxNow = 2
  MaxTimeout = 4
  MaxElems = 1
  NoClient = NoClient
INVARIANT
  WatchSound
CHECK_DEADLOCK FALSE

SPECIFICATION FairSpec
CONSTANTS
  NumDbs = 1
  k1 = k1
  k2 = k2
  a = a
  b = b
  Keys = {k1, k2}
  Clients = {c1, c2, c3}
  Elems = {a}
  IntMax = 0
  NoExp = NoExp
  MsPerSec = 1
  Cmds <- BlockCmds
  WatchSets <- NoWatch
  MaxQueue = 0
  MaxNow = 0
  MaxTimeout = 4
  MaxElems = 2
  NoClient = NoClient

INVARIANTS
  NoLostWakeup
PROPERTIES
  BlockedServed
CHECK_DEADLOCK FALSE

SPECIFICATION Spec
CONSTANTS
  NumDbs = 2
  k1 = k1
  k2 = k2
  a = a
  b = b
  Keys = {k1}
  Clients = {c1, c2}
  Elems = {a}
  IntMax = 0
  NoExp = NoExp
  MsPerSec = 1
  Cmds <- WatchCmds
  WatchSets <- Watch1
  MaxQueue = 1
  MaxNow = 1
  MaxTimeout = 4
  MaxElems = 1
  NoClient = NoClient
SYMMETRY ClientSymmetry
INVARIANTS
  WatchSound
PROPERTIES
  ExecOnlyIfUnmodified
  ExecIsolated
CHECK_DEADLOCK FALSE

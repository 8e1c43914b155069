SPECIFICATION Spec
CONSTANTS
  NumDbs = 1
  k1 = k1
  k2 = k2
  a = a
  b = b
  Keys = {k1, k2}
  Clients = {c1}
  Elems = {a, b}
  IntMax = 1
  NoExp = NoExp
  MsPerSec = 1
  Cmds <- CollectionCmds
  WatchSets <- Watch2
  MaxQueue = 0
  MaxNow = 0
  MaxTimeout = 4
  MaxElems = 3
  NoClient = NoClient
INVARIANTS
  WatchSound
  NoEmptyStored
  FailureChangesNothing
  MoveConserves
  TrimKeepsRange
CHECK_DEADLOCK FALSE

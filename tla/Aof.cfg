SPECIFICATION Spec
CONSTANTS
  NumDbs = 2
  Clients = {c1, c2}
  Cmds <- AllCmds
  Early = TRUE
  MaxBatch = 1
  MaxQueue = 1
  MaxLog = 4
  MaxItems = 1
SYMMETRY ClientSymmetry
INVARIANTS
  TypeOK
PROPERTIES
  LoadRestores
  LogAppendOnly
  EveryChangeLogged
CHECK_DEADLOCK FALSE

\* One client, every command of Strings and SortedSets, on two keys of every type.
SPECIFICATION Spec
CONSTANTS
    NumDbs = 1
    k1 = k1
    k2 = k2
    Keys = {k1, k2}
    Clients = {c1}
    Elems = {1, 2}
    IntMax = 1
    NoExp = NoExp
    USize = 64
    Inf = 8
    NaN = 9
    Width = 2
    MaxScore = 1
    MaxLen = 2
    Cmds <- AllCmds
INVARIANTS
    Mirrored
    ReadsAgree
    RemovalMatchesRange
    AggregateSound
    ChangeTold
    WritesAddressed
    ListsKept
\* A poisoned mutex stops every command.
CHECK_DEADLOCK FALSE

SPECIFICATION Spec
CONSTANTS
    MaxWorkers = 2
    old = old
    x = x
    y = y
    None = None
    MaxTasks = 2
    MaxBatch = 2
    MaxCrashes = 1
    Paths <- MCPaths
    MaxLinks = 2
    Chunks = {old, x, y}
    TmpOf <- MCTmpOf
    Requests <- MCRequests
    InitTree <- MCInitTree
    DirectOps = {"copy", "touch"}
    HostMayFail = TRUE
INVARIANTS
    TypeOK
    WritesAreAtomic
    AsIfSerial
PROPERTIES
    OnlyAllowedTouched
CHECK_DEADLOCK FALSE

SPECIFICATION Spec
CONSTANTS
    MaxWorkers = 2
    None = None
    MaxTasks = 1
    MaxBatch = 2
    MaxCrashes = 1
    MaxForeign = 1
    MaxStatements = 2
    Files <- MCFiles
    Sqls <- MCSqls
    Requests <- MCRequests
    InitDb <- MCInitDb
    Foreign <- MCForeign
    Statements <- MCStatements
    DirectOps = {"vacuum"}
    HostMayFail = TRUE
INVARIANTS
    WholeSqlRuns
CHECK_DEADLOCK FALSE

SPECIFICATION LiveSpec
CONSTANTS
    MaxWorkers = 2
    None = None
    MaxTasks = 2
    MaxBatch = 2
    MaxCrashes = 1
    MaxForeign = 1
    MaxStatements = 2
    Files <- MCFiles
    Sqls <- MCSqls
    Requests <- MCRequests
    InitDb <- MCInitDb
    Foreign <- MCForeign
    Statements <- MCStatements
    DirectOps = {"vacuum"}
    HostMayFail = TRUE
INVARIANTS
    TypeOK
    ReportedIffCommitted
    QueriesInOrder
PROPERTIES
    ImplementsAtomicDatabase
    ReadOnlyChangesNothing
    EveryEffectAnswered
CHECK_DEADLOCK FALSE

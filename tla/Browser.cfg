SPECIFICATION LiveSpec
CONSTANTS
    MaxWorkers = 1
    None = None
    Text = Text
    Empty = Empty
    MaxTasks = 2
    MaxBatch = 2
    MaxCrashes = 0
    MaxSlot = 1
    MaxVersion = 3
    MaxReloads = 1
    Config <- MCConfig
    Requests <- MCRequests
    Pages <- MCPages
    Size <- MCSize
INVARIANTS
    TypeOK
    NoTabLeak
    StoredPagesAllowed
    NoLostUpdate
    PagesAreAnswered
PROPERTIES
    EveryEffectAnswered
CHECK_DEADLOCK FALSE

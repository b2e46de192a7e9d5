SPECIFICATION LiveSpec
CONSTANTS
    MaxWorkers = 2
    None = None
    MaxTasks = 2
    MaxBatch = 2
    MaxCrashes = 1
    MaxSources = 1
    PrivateHosts <- MCPrivateHosts
    Replies <- MCReplies
    Submissions <- MCSubmissions
    Steps <- MCSteps
    Unlucky <- MCUnlucky
INVARIANTS
    TypeOK
    CorrelationReaches
    WorkflowsAreWhole
    IdsDistinct
    RequestsFollowSteps
    RequestsOnceInOrder
    CompletedWithReply
PROPERTIES
    EveryEffectAnswered
CHECK_DEADLOCK FALSE

SPECIFICATION FairSpec
CONSTANTS
    w1 = w1
    w2 = w2
    k1 = k1
    embed = embed
    backup = backup
    NoKey = NoKey
    NoWorker = NoWorker
    Workers <- MCWorkers
    Keys <- MCKeys
    Types <- MCTypes
    Handles <- MCHandles
    Lease <- MCLease
    Backoff <- MCBackoff
    MaxJobs = 2
    MaxAttempts = 2
    Priorities = {0}
    Delays = {0}
    AgeCap = 0
    MaxRetries = 1
INVARIANTS
    OneLeasedRunner
    PoisonBounded
PROPERTIES
    LedgerSpec
    JobsSettle
CHECK_DEADLOCK TRUE

SPECIFICATION MCSpec
PROPERTIES
    MigratedWhole
    VaultCatchesUp
    Upgraded
    VerdictIsSound
    LinesAreLeft
CHECK_DEADLOCK FALSE
CONSTANTS
    w1 = w1
    Workers <- OneWorker
    NPages = 1
    MaxChain = 2
    Debounce = 2
    MaxWait = 3
    MaxAttempts = 2
    Backoff <- MCBackoff
    p1 = p1
    p2 = p2
    p3 = p3
    Process <- MCProcess
    Target <- MCTarget
    Locking = {p2, p3}
    Edited = {p1}
    Allowed = {p2, p3}
    FirstVersion = 0
    HasData = FALSE
    MaxFailures = 1
    Memory = {1}
    Thread = {1, 2}
    AgeBound = 1
    MinTurns = 2
    MissPercent = 40
    MaxLines = 3
    MaxBreaks = 1

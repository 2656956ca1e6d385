SPECIFICATION MCSpec
INVARIANTS
    AloneCovered
    PagesAreTrue
    HintsEarned
    RefreshIsFull
CHECK_DEADLOCK FALSE
CONSTANTS
    w1 = w1
    w2 = w2
    Workers <- TwoWorkers
    NPages = 1
    MaxChain = 2
    Debounce = 1
    MaxWait = 1
    MaxAttempts = 2
    Backoff <- AtOnce
    Memories = {"m1", "m2"}
    Says <- OwnStatement
    Withheld = {}
    HistoryLimit = 1
    MaxMoves = 6
    Notes = {"m", "n"}
    Titles = {"X", "Y"}
    MaxSaves = 3

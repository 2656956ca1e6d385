SPECIFICATION Spec
PROPERTY RefusedOnlyWhenBusy
CHECK_DEADLOCK FALSE
CONSTANTS
    w1 = w1
    w2 = w2
    Workers <- OneWorker
    NPages = 1
    MaxChain = 4
    Debounce = 1
    MaxWait = 1
    MaxAttempts = 1
    Backoff <- MCBackoff

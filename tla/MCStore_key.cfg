SPECIFICATION MCSpec
CONSTANTS
    NoText = NoText
    Contents = {a, b}
    MaxRows = 2
    MaxVersion = 5
    Sessions = {s1, s2}
    MaxTurns = 3
    MinTurns = 2
    MaxFaults = 1
    LedgerMayFail = FALSE
    Candidates = {"9090", "test9090", "7070", "held"}
    Topic <- TopicOf
    Alike <- Similar
    Confident <- Certain
    Limit = 2
    MaxBatches = 2
    Keep = 1
    KeepSafety = 1
    MaxContents = 2
    MaxSnapshots = 3
    MaxDay = 2
    MaxTroubles = 1
    Texts = {"alone", "short", "long"}
    Fragments <- PartsOf
    MaxEntries = 1
    Ttl = 1
    MaxClock = 3
    MaxTokens = 2
    Parts = {"reconcile"}
INVARIANT CandidatesHaveAPass
CHECK_DEADLOCK FALSE

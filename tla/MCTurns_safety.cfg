SPECIFICATION MCSpec
CONSTANTS
    Sessions = {"s", "t"}
    MaxTurns = 3
    Askers = {"s", "t"}
    MaxRows = 1
    Origins = {"tool", "auto", "window"}
    PromptWorker = FALSE
    Memories = {"a", "b"}
    Pinned = {"a"}
    Hot = {"b"}
    DedupTurns = 2
    RepeatTurns = 5
    HotGap = 1
    QueueMax = 2
    MaxCalls = 6
    MaxWrites = 2
    MaxAsks = 3
INVARIANTS
    LeftoversCovered
    HitIsCurrent
PROPERTIES
    LeftoversGo
    EarlierTurnsKept
    GapKept
    AsksEnd
CHECK_DEADLOCK FALSE

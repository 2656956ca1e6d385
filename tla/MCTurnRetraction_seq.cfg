SPECIFICATION Spec
INVARIANT OnlyUndoneRetracted
CHECK_DEADLOCK FALSE
CONSTANTS
    s1 = s1
    s2 = s2
    Sessions = {s1}
    MaxTurns = 3
    MaxRows = 2
    Origins = {"window"}
    PromptWorker = TRUE

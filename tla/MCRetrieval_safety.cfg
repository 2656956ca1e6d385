SPECIFICATION MCSpec
CONSTANTS
    Memories = {"a", "b", "c"}
    Texts = {1, 2}
    Narrow = {"c"}
    PinnedLimit = 1
    MaxWrites = 2
    MaxTexts = 2
    MaxPuts = 2
    MaxRowid = 2
    People = {"u", "v"}
    Bot = "bot"
    Owners = {"u"}
    MaxTurns = 3
    OldRows <- EarlierRows
    Embeddable = {"a", "b"}
    MemoryRows = {"a", "b", "c"}
    Profile <- OtherForC
    RowTexts <- SomeTexts
    Grams <- LongAndShort
    SeenCap = 2
    MaxSays = 3
    Parts = {"recall", "vectors", "scopes", "entities", "ranking"}
INVARIANTS
    AnswerIsReadable
    ScopeIsKept
    SyncedOfItsAuthor
    EntitiesAreTrue
    RankedInFull
PROPERTIES
    PinnedKept
    OwnPutSeen
CHECK_DEADLOCK FALSE

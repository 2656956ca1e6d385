SPECIFICATION MCSpec
CONSTANTS
    m1 = m1
    w1 = w1
    w2 = w2
    k1 = k1
    k2 = k2
    k3 = k3
    NoModel = NoModel
    Memories = {m1}
    Models <- ThreeModels
    Configured <- TwoModels
    Workers <- TwoWorkers
    MaxVersion = 3
    BatchSize = 1
    t1 = t1
    t2 = t2
    Texts <- TwoTexts
    Class <- OneClass
    Near <- OnePair
    NoRow = NoRow
    LegacyWrites = 3
    Providers = {"p"}
    Sessions = {"", "s", "t"}
    Slug <- OwnName
    Salient = {1}
    Pins = {pin}
    pin = pin
    BufferMax = 2
    SameMoment = FALSE
    MaxTurns = 2
    MaxWrites = 3
INVARIANT OvertakenByAJob
CHECK_DEADLOCK FALSE
SYMMETRY Alike

SPECIFICATION FairSpec
CONSTANTS
    Patterns <- MCPatterns
    Asked <- MCAsked
    p1 = p1
    p2 = p2
    NoPattern = NoPattern
    Threshold = 2
    PromotedWeight = 2
    BootCap = 1
    WeightBound = 3
    FaultBound = 1
    Requests = {1, 2}
    NoRequest = NoRequest
    Manual <- MCManual
    m1 = m1
    Limit = 1
    MaxRetry = 2
    MaxIter = 2
    ProbeAlarm = 1
    ProbeBound = 2
    MaxPerDay = 1
    TapBound = 1
    DayBound = 1
    RestartBound = 1
    Loads <- MCChatted
PROPERTIES
    OpenSettles

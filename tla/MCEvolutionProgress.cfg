SPECIFICATION FairSpec
CONSTANTS
    Callers <- MCCallers
    ChatCallers <- MCChatCallers
    Skills = {s1}
    LocalSkills = {s1}
    RemoteSkills = {s1}
    Ids <- MCIds
    NoTask = NoTask
    GateFaults = TRUE
    Crashes = FALSE
    Caps = {}
    NoCap = NoCap
    NoRecord = NoRecord
    CapBump = 2
    EnvEnabled = TRUE
    EnvCap = 1
    SaveFaults = FALSE
    IterBound = 1
    rest = rest
    goals = goals
    s1 = s1
    s2 = s2
    r1 = r1
    r2 = r2
PROPERTIES
    ApprovedFinishes
    CyclesEnd

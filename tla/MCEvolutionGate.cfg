SPECIFICATION Spec
CONSTANTS
    Callers <- MCCallers
    ChatCallers <- MCChatCallers
    Skills = {s1}
    LocalSkills = {}
    RemoteSkills = {s1}
    Ids <- MCIds
    NoTask = NoTask
    GateFaults = TRUE
    Crashes = TRUE
    Caps = {}
    NoCap = NoCap
    NoRecord = NoRecord
    CapBump = 2
    EnvEnabled = TRUE
    EnvCap = 1
    SaveFaults = TRUE
    IterBound = 1
    rest = rest
    goals = goals
    s1 = s1
    s2 = s2
    r1 = r1
    r2 = r2
INVARIANTS
    PendingUndecided
PROPERTIES
    ImplementsGate

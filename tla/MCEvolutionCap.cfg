SPECIFICATION Spec
CONSTANTS
    Callers <- MCCallers
    ChatCallers = {}
    Skills <- MCSkills
    LocalSkills = {s1}
    RemoteSkills = {s1}
    Ids = {r1}
    NoTask = NoTask
    GateFaults = FALSE
    Crashes = TRUE
    Caps <- MCEvolutionCaps
    NoCap = NoCap
    NoRecord = NoRecord
    CapBump = 1
    EnvEnabled = TRUE
    EnvCap = 1
    SaveFaults = FALSE
    IterBound = 4
    rest = rest
    goals = goals
    s1 = s1
    s2 = s2
    r1 = r1
    r2 = r2
INVARIANTS
    TypeOK
    CapOvershootBounded
    HaltBoundsCycles

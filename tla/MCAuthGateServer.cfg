SPECIFICATION FairSpec
CONSTANTS
    Tasks <- MCTasks
    first = first
    second = second
    Host = "server"
    MaxRunning = 1
    MaxSteps = 3
    MaxCalls = 2
    MaxDenies = 2
    MaxTaps = 1
    NoTap = NoTap
    SendFaults = TRUE
INVARIANTS
    StopBoundsCalls
PROPERTIES
    TasksEnd

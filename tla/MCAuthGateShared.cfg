SPECIFICATION Spec
CONSTANTS
    Tasks <- MCTasks
    first = first
    second = second
    Host = "inproc"
    MaxRunning = 2
    MaxSteps = 2
    MaxCalls = 1
    MaxDenies = 2
    MaxTaps = 1
    NoTap = NoTap
    SendFaults = TRUE
INVARIANTS
    RunsOnlyAuthorised
    TapIsAnswer

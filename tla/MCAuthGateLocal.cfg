SPECIFICATION Spec
CONSTANTS
    Tasks <- MCTasks
    first = first
    second = second
    Host = "inproc"
    MaxRunning = 1
    MaxSteps = 4
    MaxCalls = 1
    MaxDenies = 3
    MaxTaps = 1
    NoTap = NoTap
    SendFaults = TRUE
INVARIANTS
    TypeOK
    GrantScoped
    ThreeDenialsStop
    StopBoundsCalls

SPECIFICATION FairSpec
CONSTANTS
    Turns <- MCTurns
    Clients <- MCClients
    Callers <- MCCallers
    Models <- MCModels
    Scenes <- MCScenes
    a = a
    b = b
    n = n
    c1 = c1
    c2 = c2
    c3 = c3
    NoModel = NoModel
    Torn = Torn
    NoCaller = NoCaller
    Nemotron <- MCNemotron
    Hears <- MCHears
    Stt = b
    Disk = a
    FaultBound = 1
    Split = 4
    ErrorText = 0
CHECK_DEADLOCK FALSE
INVARIANTS
    ServingTypeOK
    PlainChatIsKept
    ErasedStaysErased
    HandledOnce
    SwapServes
    ImagesAreStt
    IdleMeansQuiet
PROPERTIES
    ImplementsConversation
    EngineKept
    RequestsEnd
    UpdatesHandled
    EngineResumes

\* Two requests, three attempts to create the proxy.
SPECIFICATION FairDataSpec
CONSTANTS
    r1 = r1
    r2 = r2
    Requests = {r1, r2}
    LoopMax = 3
    MaxAttempts = 3
CHECK_DEADLOCK FALSE
INVARIANTS
    RunsWithProxy
    BothDirections
    DrainedExit
    RecordedIsSent
    RecordsSurvive
    PanicCutsNothing
PROPERTIES
    StartupEnds
    SignalEnds
    ImplementsProxyMain

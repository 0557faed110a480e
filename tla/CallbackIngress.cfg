SPECIFICATION FairSpec
CONSTANTS
    HardBytes = 2
    HardCommands = 2
    Coalescing = TRUE
    MaxUnits = 3
    MaxErrors = 1
    MaxFrontiers = 2
INVARIANTS
    QueueIsSound
    ExitSurvives
    ClosedIsQuiescent
PROPERTIES
    ImplementsStream
    CloseReturns
CHECK_DEADLOCK FALSE

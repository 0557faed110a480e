SPECIFICATION Spec
CONSTANTS
    Grids = {small, large}
    FirstGrid = small
    MaxCalls = 2
    MaxResizes = 3
INVARIANTS
    CallsUseTheConsole
    InSyncIsTrue
    RecordedOnce
PROPERTIES
    ReasonIsTrue
    ConsoleSettles
CHECK_DEADLOCK FALSE

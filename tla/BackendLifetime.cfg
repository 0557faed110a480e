SPECIFICATION FairSpec
CONSTANTS
    host = host
    other = other
    reader = reader
    waiter = waiter
    none = none
    Products <- MCProducts
    Workers <- MCWorkers
    NoThread = none
    backend = backend
    MaxFrames = 3
    MaxDepth = 2
INVARIANTS
    CallbacksQuiescent
    ImplOutlivesUsers
    OneBirth
    UnloadIsQuiet
CHECK_DEADLOCK FALSE
PROPERTIES
    DestroyedIsDeleted

SPECIFICATION Spec
CONSTANTS
    host = host
    other = other
    reader = reader
    waiter = waiter
    none = none
    Products <- OneProduct
    Workers <- MCWorkers
    NoThread = none
    backend = backend
    MaxFrames = 3
    MaxDepth = 2
INVARIANTS
    RetainedWhileInUse
CHECK_DEADLOCK FALSE

SPECIFICATION DeliveriesSpec
CONSTANTS
    MaxRequests = 4
    MaxTimeoutChanges = 3
    PendingLimit = 4
    PayloadLimit = 12
    MacroLimit = 8
    ExpansionLimit = 6
    NotificationLimit = 3
    Outputs <- MCOutputs
INVARIANTS
    ChunksDoNotMatter
    HostIsCaughtUp
PROPERTIES
    OneActionable
    DeliveredInOrder
    HoldsEnd
CHECK_DEADLOCK FALSE

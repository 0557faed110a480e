SPECIFICATION FairSpec
CONSTANTS
    StreamLength = 3
    HighWater = 2
    DeliveryChunk = 1
    ReadChunk = 3
    MaxPauses = 1
PROPERTIES
    ImplementsStream
    WorkersFinish
    ResumedOutputArrives
CHECK_DEADLOCK FALSE

SPECIFICATION FairSpec
CONSTANTS
    MaxReadChunk = 3
    High = 3
    Hard = 8
    PtyCapacity = 3
    MaxWritten = 10
INVARIANTS RunningOutputFits BackpressureTracksQueues
PROPERTIES OutputIsProcessed
CHECK_DEADLOCK FALSE

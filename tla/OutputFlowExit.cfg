SPECIFICATION Spec
CONSTANTS
    MaxReadChunk = 1
    High = 4
    Hard = 16
    PtyCapacity = 2
    MaxWritten = 20
INVARIANTS ExitDrainFits
CHECK_DEADLOCK FALSE

SPECIFICATION RingSpec
CONSTANTS
    Capacities = {1, 4, 6}
    Share = 2
    Overhead = 1
    MaxSequence = 14
INVARIANTS
    ReadsAreTrue
PROPERTIES
    ImplementsLog
CHECK_DEADLOCK FALSE

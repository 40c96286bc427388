CONSTANTS
    MaxCalls = 2
    MaxAttempts = 2
SPECIFICATION Spec
INVARIANT NothingStays
PROPERTIES RunSpec RunEnds
CHECK_DEADLOCK FALSE

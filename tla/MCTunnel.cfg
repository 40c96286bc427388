CONSTANTS
    MaxAttempts = 3
    MaxStarts = 2
SPECIFICATION TunnelSpec
INVARIANT NoStray
PROPERTY CallsEnd
CHECK_DEADLOCK FALSE

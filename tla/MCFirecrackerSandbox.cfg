SPECIFICATION FairSpec
CONSTANTS
    Callers = {c1, c2}
    Ids = {i1, i2, i3, i4}
    MaxLive = 1
    MaxFaults = 1
    None = None
INVARIANTS NothingLeft InUseStands
PROPERTIES BackendSpec CallsEnd

SPECIFICATION Spec
CONSTANTS
    Clients = {c1, c2, c3}
    Prewarm = prewarm
    Instances = {i1, i2, i3, i4}
    WarmSize = 1
    MaxConcurrent = 1
    MaxFaults = 2
    PrewarmFirst = FALSE
    NoInstance = noinstance
SYMMETRY Symmetry
INVARIANTS TypeOK SoleOwner SlotAccounting WarmBound NothingStranded QuietCloseIsClean
PROPERTIES LeaseSpec

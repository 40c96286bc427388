SPECIFICATION Spec
CONSTANTS
    Clients = {c1, c2, c3}
    Prewarm = prewarm
    Instances = {i1, i2, i3, i4}
    WarmSize = 1
    MaxConcurrent = 1
    MaxFaults = 1
    PrewarmFirst = FALSE
    NoInstance = noinstance
INVARIANT CountsOnlyCallers

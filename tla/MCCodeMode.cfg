SPECIFICATION FairSpec
CONSTANTS
    Clients = {c1, c2}
    Prewarm = prewarm
    Instances = {i1, i2, i3}
    WarmSize = 1
    MaxConcurrent = 1
    MaxFaults = 1
    PrewarmFirst = FALSE
    NoInstance = noinstance
    FailureThreshold = 2
    Cooldown = 1
INVARIANTS RunsOnlyIfAllowed NothingKept
PROPERTY CallsEnd

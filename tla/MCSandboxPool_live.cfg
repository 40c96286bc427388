SPECIFICATION FairSpec
CONSTANTS
    Clients = {c1, c2}
    Prewarm = prewarm
    Instances = {i1, i2, i3, i4}
    WarmSize = 2
    MaxConcurrent = 1
    MaxFaults = 0
    PrewarmFirst = TRUE
    NoInstance = noinstance
INVARIANTS NoLostWakeup WarmReplenished
PROPERTIES AcquireResolves CloseCompletes WarmPoolRegrows

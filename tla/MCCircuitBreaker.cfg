SPECIFICATION FairSpec
CONSTANTS
    Calls = {c1, c2, c3, c4}
    FailureThreshold = 3
    Cooldown = 2
INVARIANTS StateMatchesCount
PROPERTIES Recovers OutageTrips

SPECIFICATION Spec
CONSTANTS
    Callers = {c1, c2}
    Scopes = {s1, s2}
    Ids = {i1}
    Items = {m1, m2}
    NoItem = NoItem
    Lost = Lost
    InOrder = TRUE
    MaxFaults = 1
    WorkingKeys = {k1, k2}
    Values = {v1}
    NoValue = NoValue
    Size <- SizeOf
    Quota = 1
    Inputs <- Conversations
    Budgets = {0, 1, 2, 3}
    PreserveLastN = 2
    Threshold = 550
    HasRetry = TRUE
INVARIANTS LongTermIsDurable KeepsAllThatFits NumbersSurvive
SYMMETRY Interchangeable
CHECK_DEADLOCK FALSE

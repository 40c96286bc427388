CONSTANTS
    Callers = {c1, c2}
    Ids = {i1, i2}
    Tools = {t1, t2}
    Skills = {s1, s2}
    None = None
    Untouched = Untouched
    MaxCalls = 3
SPECIFICATION Spec
SYMMETRY Symmetry
INVARIANTS QuietAgrees Findable HandlersKnown
CHECK_DEADLOCK FALSE

SPECIFICATION Spec
CONSTANTS
    c1 = c1  c2 = c2  c3 = c3  n1 = n1  n2 = n2  t1 = t1  t2 = t2
    Callers = {c1, c2, c3}
    Names = {n1}
    Contents = {t1, t2}
    MaxVersion = 2
    NoContent = NoContent
    Lost = Lost
    InOrder = TRUE
    MaxFaults = 2
INVARIANTS Durable CacheAgrees
PROPERTY NeverOverwritten
SYMMETRY Interchangeable

CONSTANTS
    Tasks = {c1, c2}
    MaxConnects = 3
SPECIFICATION ClientSpec
SYMMETRY Symmetry
INVARIANTS NothingEscapes Consistent
CHECK_DEADLOCK FALSE

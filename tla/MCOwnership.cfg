CONSTANTS
    NULL = NULL
    Block = {b1, b2, b3, b4}
    Tensor = {t1}
    Object = {o1, o2, o3, o4}
    Parameter = {p1, p2}
    GrowsAt = {1}
    Careless = TRUE
SYMMETRY Symmetry
SPECIFICATION Spec
INVARIANTS
    NoInvalidFree
    MapViewsAreValid
    InvalidViewsAreExplained
CHECK_DEADLOCK FALSE

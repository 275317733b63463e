CONSTANTS
    NULL = NULL
    Block = {b1, b2, b3}
    Tensor = {t1, t2}
    Object = {o1, o2, o3}
    Parameter = {p1}
    GrowsAt = {3}
    Careless = FALSE
SPECIFICATION FairSpec
INVARIANTS
    NoLeak
PROPERTIES
    EverythingIsFreed
CHECK_DEADLOCK FALSE

CONSTANTS
    t1 = t1
    t2 = t2
    h1 = h1
    h2 = h2
    v1 = v1
    v2 = v2
    Workers = {t1, t2}
    Arcs = {1, 2, 3}
    Tensors = {1, 2, 3}
    Holders = {h1, h2}
    Slots = {s1}
    Values = {v1, v2}
    Devices = {cpu, gpu}
    CPU = cpu
    NULL = NULL
    Threads = {t1, t2}
    MaxCalls = 4
    MaxDepth = 3
    Callers = {t1, t2}
    Addresses = {1, 2, 3, 4}
    Arrays = {"x", "y"}
    Blocks = {b1, b2, b3}
    MaxArrays = 2
    Users = {t1, t2}
    MaxNested = 3
SYMMETRY Symmetry
CHECK_DEADLOCK FALSE
SPECIFICATION ThreadsSpec
INVARIANTS
    HandlesAreSafe
    ErrorsAreOwn
    WrappersAreKnown
    ChecksAreRestored

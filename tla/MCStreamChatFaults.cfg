CONSTANTS
    Streams = {s1, s2}
    Cancels = {c1}
    NModels = 1
    None = None
    Faults = {"redis", "db", "disconnect", "ttl"}
SPECIFICATION Spec
SYMMETRY Symmetry
INVARIANTS TypeOK CancelReachesAll
CHECK_DEADLOCK FALSE

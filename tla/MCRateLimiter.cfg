CONSTANTS
    Requests = {q1, q2, q3}
    Limit = 2
    Window = 2
    Second = 3
    Skew = 1
    MaxTime = 10
SPECIFICATION Spec
SYMMETRY Symmetry
INVARIANTS TypeOK SetIsBounded LimitPerWindow
PROPERTIES RefusedAtLimit RetryAfterIsRight
CHECK_DEADLOCK FALSE

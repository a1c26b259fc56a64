CONSTANTS
    Streams = {s1}
    Cancels = {c1}
    NModels = 1
    None = None
    Faults = {}
SPECIFICATION Spec
INVARIANT DoneIsStored
CHECK_DEADLOCK FALSE

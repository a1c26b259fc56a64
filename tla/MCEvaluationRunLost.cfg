CONSTANTS
    Tasks = {t1}
    Rows = {r1, r2}
    None = None
    Faults = {}
SPECIFICATION FairSpec
PROPERTY QueuedRunIsExecuted
CHECK_DEADLOCK FALSE

CONSTANTS
    Runs = {1, 2, 3, 4, 5, 6}
    None = None
    MaxRetries = 5
    CeleryMaxRetries = 3
    MaxBatches = 0
    MaxCopies = 1
    Worlds <- CalmWorlds
SPECIFICATION Spec
CHECK_DEADLOCK FALSE
INVARIANTS
    NoAbandonedJob

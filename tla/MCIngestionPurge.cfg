CONSTANTS
    Runs = {1, 2}
    None = None
    MaxRetries = 1
    CeleryMaxRetries = 3
    MaxBatches = 2
    MaxCopies = 1
    Worlds <- CalmWorlds
SPECIFICATION Spec
CHECK_DEADLOCK FALSE
INVARIANTS
    PurgedWhenFailed

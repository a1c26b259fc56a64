CONSTANTS
    Runs = {1, 2, 3}
    None = None
    MaxRetries = 2
    CeleryMaxRetries = 3
    MaxBatches = 2
    MaxCopies = 2
    Worlds <- AllWorlds
SPECIFICATION FairSpec
CHECK_DEADLOCK FALSE
INVARIANTS
    TypeOK
    LockHolds
    WriterOwnsStartedJob
    VectorsOfOneRun
    CompletedHasChunks
    RetryAccounted
    EmbeddedIsSearchable
    CompletedIsEmbedded
    OneRunAtATime
    NoAbandonedJob
PROPERTIES
    TerminalIsFinal
    ClientView
    EveryJobEnds

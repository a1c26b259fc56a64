CONSTANTS
    Streams = {s1}
    Cancels = {c1, c2}
    NModels = 2
    None = None
    Faults = {"db"}
SPECIFICATION FairSpec
INVARIANTS PromptCancel
PROPERTIES CancelIsHeeded ClientProtocol EveryStreamEnds RegistryForgets
CHECK_DEADLOCK FALSE

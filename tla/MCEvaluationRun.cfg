CONSTANTS
    Tasks = {t1, t2}
    Rows = {r1, r2}
    None = None
    Faults = {"db", "crash", "broker", "redeliver"}
SPECIFICATION Spec
SYMMETRY Symmetry
INVARIANTS TypeOK CompletedPageIsWhole CompletedHasResults
PROPERTY ClientView
CHECK_DEADLOCK FALSE

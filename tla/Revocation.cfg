CONSTANTS
    MaxRotations = 3
    Faults = {"crash", "error", "rename"}
    MaxAppends = 3
    MaxRotates = 3
    Procs = {p1, p2}
    NoProc = NoProc
SPECIFICATION Spec
INVARIANT HistoryMatchesLog
PROPERTY LogTells

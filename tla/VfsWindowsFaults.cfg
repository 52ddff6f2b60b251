CONSTANTS
    Conns = {c1, c2, c3}
    MaxVersion = 1
    LockErrnos = {"ERROR_NOT_ENOUGH_MEMORY", "ERROR_INVALID_HANDLE"}
    UnlockFails = FALSE
    HotJournals = TRUE
SPECIFICATION Spec
SYMMETRY Symmetry
INVARIANTS OneWriter

CONSTANTS
    Conns = {c1, c2}
    MaxVersion = 1
    LockErrnos = {}
    UnlockFails = FALSE
    HotJournals = TRUE
SPECIFICATION Spec
INVARIANT NoneCoexists

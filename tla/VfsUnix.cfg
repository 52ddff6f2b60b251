CONSTANTS
    Conns = {c1, c2, c3}
    MaxVersion = 1
    LockErrnos = {}
    UnlockFails = FALSE
SPECIFICATION FairSpec
INVARIANTS LocksAgree ReadStability
PROPERTIES Implements WriterProgress

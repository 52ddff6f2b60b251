CONSTANTS
    Conns = {c1, c2, c3}
    MaxVersion = 1
    LockErrnos = {}
    UnlockFails = FALSE
    HotJournals = FALSE
SPECIFICATION FairSpec
INVARIANTS ReadStability ReacquireSucceeds
PROPERTIES Implements WriterProgress

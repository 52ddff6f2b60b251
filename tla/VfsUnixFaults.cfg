CONSTANTS
    Conns = {c1, c2, c3}
    MaxVersion = 1
    LockErrnos = {"EPERM", "EIO"}
    UnlockFails = TRUE
SPECIFICATION Spec
SYMMETRY Symmetry
INVARIANTS TypeOK LevelBacked

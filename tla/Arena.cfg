SPECIFICATION Spec
CONSTANTS
    Word = 12
    MemSize = 12
    Base = 2
    Size = 5
    PtrLen = 2
    MaxLength = 10
    MaxNew = 3
    MaxBound = 1
INVARIANTS
    TypeOK
    ArgumentsApart
    FreedOnce

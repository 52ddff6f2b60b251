CONSTANTS
    Functions = {f, g}
    MaxDepth = 3
    MaxWrites = 3
    CommitErrors = {"BUSY", "IOERR"}
SPECIFICATION Spec
SYMMETRY Symmetry
CONSTRAINT UntilPanic
INVARIANTS AsMeant Settled
 

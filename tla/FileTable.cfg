CONSTANTS
    PFiles = {p1, p2, p3}
    Names = {n1}
    MaxFiles = 2
    MaxSize = 2
SPECIFICATION Spec
SYMMETRY Symmetry
VIEW View
INVARIANTS OwnSlot TableTight
PROPERTY Implements

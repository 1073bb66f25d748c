SPECIFICATION Spec
CONSTANTS
    Total = 12
    Align = 2
    Ids = {e1, e2, e3}
    Sizes = {0, 1, 2, 3, 6}
    MaxRefs = 2
INVARIANTS
    TypeOK
    NoOverlap
    AllocComplete
    Accounted
PROPERTY
    MemorySpec

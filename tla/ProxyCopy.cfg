SPECIFICATION FairSpec
CONSTANTS
    MaxBytes = 3
    Window = 1
INVARIANTS
    EofIsTrue
PROPERTIES
    ImplementsPipes
    CopyEnds
CHECK_DEADLOCK FALSE

SPECIFICATION Spec
CONSTANTS
    NONE = NONE
    Len_ <- MCLen
    Files <- CarryFiles
    Sets <- CarrySets
    MaxWrites = 1
    MaxRIFF = 110
    MaxFour = 180
    MaxID = 7
INVARIANT CarriedKept
CHECK_DEADLOCK FALSE

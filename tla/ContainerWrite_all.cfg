SPECIFICATION Spec
CONSTANTS
    NONE = NONE
    Len_ <- MCLen
    Files <- MCFiles
    Sets <- MCSets
    MaxWrites = 2
    MaxRIFF = 110
    MaxFour = 180
    MaxID = 7
INVARIANTS
    ReadsBack
    RestKept
    WellFormed
CHECK_DEADLOCK FALSE

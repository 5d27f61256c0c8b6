\* Three writes of a file with trailers.
SPECIFICATION Spec
CONSTANTS
    NONE = NONE
    Files <- MCFiles
    IPTCs <- MCIPTCs
    Growths <- MCGrowths
    MaxSignatures = 3
    MaxCandidates = 1
    MaxOffset = 24
    MaxWrites = 3
INVARIANTS
    AudioKept
    CopiesUpdated
CHECK_DEADLOCK FALSE

\* Directories, values, MakerNote and thumbnail anywhere in the file, and
\* documents of up to eight pages; every round limit is large enough.
CONSTANTS
    Files <- AnyFile
    Initial = 6
    MaxPasses = 7
    MaxDepth = 3
    Trigger = 14
    MinSaving = 4
    MergeGap = 1
SPECIFICATION Spec
\* Read ends.
CHECK_DEADLOCK FALSE
INVARIANTS AsWholeFile
PROPERTY Ends

\* The linked document in any order of its chunks, with overlapping chunks of
\* other software, among more GUIDs and larger documents than the reader takes.
CONSTANTS
    None = None
    Guids <- ManyGuids
    Linked = "g"
    Length <- ManyLength
    ChunkSize = 2
    Strays <- Overlapping
    FileSizes = {5, 23}
    Overhead = 4
    MaxTotal = 5
    MaxGuids = 2
    Headroom = 1
    LargeBlock = 4
SPECIFICATION Spec
\* The reader stops at the end of the file.
CHECK_DEADLOCK FALSE
INVARIANT Merged
INVARIANT WithinLimits
INVARIANT NotMoreThanFile
INVARIANT NothingLostSilently

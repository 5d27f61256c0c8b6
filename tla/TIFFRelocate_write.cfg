\* Blocks that overlap in every way, tails and trailers, SubIFDs that lead to
\* each other in every way, and files at each limit.
CONSTANTS
    Sources <- AnyFile
    Budget = 22
    BlocksMax = 20
    ArrayMax = 2
    ChainMax = 2
    Cost = 2
    MaxDepth = 2
    MaxOffset = 24
    ShortMax = 12
SPECIFICATION Spec
\* A write ends.
CHECK_DEADLOCK FALSE
INVARIANTS Relocated
PROPERTY Written

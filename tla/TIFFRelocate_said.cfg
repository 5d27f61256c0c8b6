\* Elements of type SHORT whose blocks move behind larger IFDs.
CONSTANTS
    Sources <- Narrow
    Budget = 22
    BlocksMax = 20
    ArrayMax = 2
    ChainMax = 2
    Cost = 2
    MaxDepth = 2
    MaxOffset = 24
    ShortMax = 12
SPECIFICATION Spec
\* A write ends.
CHECK_DEADLOCK FALSE
INVARIANT AllLead

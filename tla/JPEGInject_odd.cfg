\* Metadata behind a segment with marker byte 0.
CONSTANTS
    None = None
    Sources <- OddOnce
    Calls <- SomeCalls
    MaxDrops = 2
    MaxRoom = 4
SPECIFICATION Spec
\* After the last call the writer stops.
CHECK_DEADLOCK FALSE
INVARIANT Replaced

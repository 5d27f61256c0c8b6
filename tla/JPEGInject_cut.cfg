\* A resource cut at the end of a segment.
CONSTANTS
    None = None
    Sources <- CutOnce
    Calls <- SomeCalls
    MaxDrops = 2
    MaxRoom = 4
SPECIFICATION Spec
\* After the last call the writer stops.
CHECK_DEADLOCK FALSE
INVARIANT SiblingsKept

\* Every file of up to three segments before the image data, written once, and
\* longer ones written twice in a row with the recycled plan.
CONSTANTS
    None = None
    Sources <- AllFiles
    Calls <- KeepCalls
    MaxDrops = 2
    MaxRoom = 4
SPECIFICATION Spec
\* After the last call the writer stops.
CHECK_DEADLOCK FALSE
INVARIANTS RestCopied ReadsBack OrderKept ResourcesKept
PROPERTY Idempotent

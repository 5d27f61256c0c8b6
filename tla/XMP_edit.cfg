\* Two edits of a packet, between a read and a write or around one.
SPECIFICATION Spec
CONSTANTS
    NONE = NONE
    Docs <- MCDocs
    Edits <- MCEdits
    Removals <- MCRemovals
    KeyBudget = 5
    Limits = {2, 10}
    MaxEdits = 2
    MaxWrites = 2
INVARIANTS
    RestKept
    OnlyEdits
    Packaged
CHECK_DEADLOCK FALSE

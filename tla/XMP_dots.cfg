\* A property has the name that a struct and its field spell.
SPECIFICATION Spec
CONSTANTS
    NONE = NONE
    Docs <- MCShared
    Edits <- MCEdits
    Removals <- MCRemovals
    KeyBudget = 5
    Limits = {}
    MaxEdits = 0
    MaxWrites = 1
INVARIANT AllKept
CHECK_DEADLOCK FALSE

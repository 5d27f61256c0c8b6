CONSTANTS
    Files = {"a"}
    Links = {"l"}
    TmpNames = {"t1"}
    Calls = {"c1"}
    Folder <- MCFolder
    Targets <- MCAnyTarget
    Path <- MCThroughLink
    MaxCrashes = 0
    MaxRelinks = 1
SPECIFICATION Spec
INVARIANT LinkNeverReplaced
CHECK_DEADLOCK FALSE

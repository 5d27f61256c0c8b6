CONSTANTS
    Files = {"a", "b"}
    Links = {"l"}
    TmpNames = {"t1", "t2", "u1"}
    Calls = {"c1", "c2"}
    Folder <- MCFolder
    Targets <- MCAnyTarget
    Path <- MCPath
    MaxCrashes = 1
    MaxRelinks = 1
SPECIFICATION Spec
INVARIANTS TargetWhole PictureStays ModeKept
PROPERTIES OwnTempOnly LinkSurvives Replaces
CHECK_DEADLOCK FALSE

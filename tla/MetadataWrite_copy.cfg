CONSTANTS
    Scenes <- CopyScenes
    MaxCalls = 5
    None = None
    Class <- MCClass
    Original <- MCOriginal
SPECIFICATION Spec
INVARIANT PictureOwn
CHECK_DEADLOCK FALSE

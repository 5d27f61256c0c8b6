CONSTANTS
    Scenes <- TwoSizesScenes
    MaxCalls = 5
    None = None
    Class <- MCClass
    Original <- MCOriginal
SPECIFICATION Spec
PROPERTY SizeOwn
CHECK_DEADLOCK FALSE

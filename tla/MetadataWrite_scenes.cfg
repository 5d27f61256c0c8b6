\* Four worlds: JPEG files, a Metadata that goes from container to container, a
\* TIFF with two goroutines that write, and a large TIFF beside a small one.
CONSTANTS
    Scenes <- AllScenes
    MaxCalls = 5
    None = None
    Class <- MCClass
    Original <- MCOriginal
SPECIFICATION Spec
INVARIANT LinkHolds
PROPERTIES PixelsKept OnlyEdits Copies OpaqueKept Idempotent
CHECK_DEADLOCK FALSE

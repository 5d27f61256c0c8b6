\* Any shape of three directories, and chains of four with thumbnails: parsed,
\* edited, encoded and parsed again.
CONSTANTS
    None = None
    Sources <- AnyStream
    MaxIFDs = 9
    EntryFloor = 64
    Edits = {"none", "caption", "nogps", "exif"}
    PointerMax = 400
SPECIFICATION Spec
\* A stream that cannot be parsed, and the last step, end the life of a value.
CHECK_DEADLOCK FALSE
INVARIANTS WorkBounded ArenaShared RoundTrip
PROPERTY Terminates

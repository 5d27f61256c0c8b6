\* An IPTC is written while the XMP is kept.
CONSTANTS
    None = None
    Sources <- MixedOnce
    Calls <- KeepXMPCalls
    MaxDrops = 2
    MaxRoom = 4
SPECIFICATION Spec
\* After the last call the writer stops.
CHECK_DEADLOCK FALSE
INVARIANT DigestFollows

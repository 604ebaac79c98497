SPECIFICATION FairSpec
CONSTANTS
    NULL = NULL
    LenBase = 4
    MaxRequest = 6
    Streams <- MCStreams
    Replies = {2}
    Room = 3
    Dispatched = {1, 3, 7}
    May = {"fin", "rst"}
INVARIANTS
    TypeOK
    Synchronised
    Legible
    InBuffer
    OutWhole
PROPERTIES
    Delivered
CHECK_DEADLOCK FALSE

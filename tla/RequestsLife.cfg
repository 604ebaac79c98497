CONSTANTS
    TopicLens <- MCTopicLens
    PayloadLens <- MCPayloadLens
    Qos = {0, 1, 2, 3}
    Types = {0, 1, 2, 3, 4, 5, 6, 7, 8, 9, 10, 11, 12, 13, 14, 15}
    Table <- MCTable
    FilterSeqs <- MCFilterSeqs
    Strays <- MCStrays
    SizeMax = 1023
SPECIFICATION RequestsFairSpec
INVARIANTS
    FillsBuffer
    DecodeInBounds
    RoundTrip
    ReadsAll
    FreedOnce
    Released
    ReplyFits
PROPERTY Answered
CHECK_DEADLOCK FALSE

CONSTANTS
    PartSize = 2
    Length = 7
    Concurrency = 2
    MaxRetries = 1
    Limits = {0, 1, 2}
    Reader = reader
SPECIFICATION Spec
CHECK_DEADLOCK FALSE
INVARIANTS
    TypeOK
    PartsCover
    InOrder
    NoEarlyEnd
    OneHand
    RoomForChunks
    SlotsKept
    ClosedForGood
PROPERTIES
    ReaderAnswered
    WorkersEnd

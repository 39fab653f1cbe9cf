CONSTANTS
    NormalKeys = {"a"}
    SysKeys = {"sleep"}
    MediaKeys = {"mute"}
    FifoNum = 2
    PtrMod = 4
    FrameNum = 2
    MaxNotices = 3
    MaxMoves = 1
SPECIFICATION LiveSpec
INVARIANTS TypeOK ReleasedInTime
PROPERTIES ImplementsLossyQueue Drains

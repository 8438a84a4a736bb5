SPECIFICATION Spec
CONSTANTS
    High = 1
    Low = 1
    Streak = 2
    ChannelSize = 1
    BatchSize = 2
    MaxSeq = 3
    MaxDesync = 1
    CarryTail = FALSE
    MayRefuse = TRUE
    MaySuspend = TRUE
INVARIANTS
    TypeOK
    NoSilentLoss
    StreamInOrder
CHECK_DEADLOCK FALSE

SPECIFICATION FairSpec
CONSTANTS
    High = 1
    Low = 1
    Streak = 1
    ChannelSize = 2
    BatchSize = 2
    MaxSeq = 2
    MaxDesync = 1
    CarryTail = TRUE
    MayRefuse = TRUE
    MaySuspend = FALSE
INVARIANTS
    LedgerIsTrue
PROPERTIES
    SessionEnds
    
CHECK_DEADLOCK FALSE

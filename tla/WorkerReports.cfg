SPECIFICATION FairSpec
CONSTANTS
    Worker = {w1, w2}
    MaxPending = 1
    MaxReports = 2
    MaxFaults = 1
    MaxFlushes = 2
INVARIANTS
    TypeOK
    DeliveredOnce
    
PROPERTIES
    WaitingEnds
CHECK_DEADLOCK FALSE

SPECIFICATION FairSpec
CONSTANTS
    MaxAttempts = 2
    MaxFaults = 1
INVARIANTS
    TypeOK
    
    NoProcessLeaks
    CancelledIsNotKept
PROPERTIES
    GivenUpLaunchGoes
CHECK_DEADLOCK FALSE

SPECIFICATION FairSpec
CONSTANTS
    Session = {s1, s2}
    Retained = 1
    Channel = 1
    MaxEvents = 2
    MaxFaults = 2
    BreakInBind = FALSE
    PullFirst = FALSE
INVARIANTS
    TypeOK
    KeptUntilHandled
PROPERTIES
    NeverDowngraded
    
CHECK_DEADLOCK FALSE

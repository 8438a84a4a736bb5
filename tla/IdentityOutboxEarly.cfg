SPECIFICATION Spec
CONSTANTS
    Session = {s1, s2}
    Retained = 1
    Channel = 1
    MaxEvents = 2
    MaxFaults = 2
    BreakInBind = TRUE
    PullFirst = FALSE
INVARIANTS
    KeptUntilHandled
CHECK_DEADLOCK FALSE

SPECIFICATION FairSpec
CONSTANTS
    c1 = c1
    Client = {c1}
    Capacity = 2
    BatchRoom = 2
    MaxSeq = 4
    LinkBreaks = TRUE
INVARIANTS
    TypeOK
    ScreenHasNoHole
    GapIsOwed
PROPERTIES
    
    GateOpensAgain
CHECK_DEADLOCK FALSE

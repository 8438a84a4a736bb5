SPECIFICATION Spec
CONSTANTS
    MaxEvents = 5
    MaxFaults = 1
    DedupMemory = 4
    Skew = 2
INVARIANTS
    TypeOK
    
    
CHECK_DEADLOCK FALSE

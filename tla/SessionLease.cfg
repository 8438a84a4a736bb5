SPECIFICATION FairSpec
CONSTANTS
    Instance = {i1, i2}
    Session = {s1}
    Reaper = Reaper
    NoOne = NoOne
    NoSession = NoSession
    MaxCommands = 2
    MaxFaults = 1
INVARIANT TypeOK
INVARIANT DetachIsFinal
PROPERTY HolderIsSpared
PROPERTY OrphanIsReaped
PROPERTY BeliefComesTrue
CHECK_DEADLOCK FALSE

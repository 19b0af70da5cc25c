SPECIFICATION FairSpec
CHECK_DEADLOCK FALSE
CONSTANTS
    Pages = 2
    MaxVersion = 3
    MaxFaults = 3
INVARIANTS
    ReadyMeansCurrent
    ClosedIsQuiet
PROPERTIES
    ViewCatchesUp

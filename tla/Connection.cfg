SPECIFICATION FairSpec
CONSTANTS
    MaxDials = 2
    MaxAttempts = 2
    ReconnectEnabled = TRUE
    Probes = TRUE
CHECK_DEADLOCK FALSE
INVARIANTS
    ClosedIsFinal
    OneAttemptAtATime
PROPERTIES
    CloseTerminates
    DeadSessionNoticed

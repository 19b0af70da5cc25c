SPECIFICATION FairSpec
CONSTANTS
    Callers = {a, b, c}
    WhenReady = {b, c}
    NoDeadline = {c}
    Abortable = {b}
    Nobody = Nobody
PROPERTIES
    EndsForItsOwnReason
    EveryCallSettles
CHECK_DEADLOCK FALSE

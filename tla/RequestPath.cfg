SPECIFICATION PathSpec
CONSTANTS
    Callers = {c1, c2, c3}
    MaxConcurrency = 1
    MaxQueueSize = 1
    NativeAbort = TRUE
    Classes <- MCClasses
    c1 = c1
    c2 = c2
    c3 = c3
    MaxSessions = 2
    MaxAttempts = 2
INVARIANTS
    WritesAtMostOnce
    SlotsBelongToAttempts
    EndsOnceInItsSession
    WorkConserving
    WaitersHaveACause
PROPERTIES
    NoLateEffects
CHECK_DEADLOCK FALSE

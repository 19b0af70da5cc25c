SPECIFICATION FairSpec
CHECK_DEADLOCK FALSE
CONSTANTS
    a = a
    b = b
    Callers = {a, b}
    Managed = {a}
    Waits = {a, b}
    Route <- TwoRoutes
    MaxSession = 2
    MaxOps = 2
INVARIANTS
    GrantGoesToItsCaller
    LossSignalled
PROPERTIES
    EveryCallSettles

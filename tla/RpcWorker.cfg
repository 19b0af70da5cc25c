SPECIFICATION FairSpec
CONSTANTS
    MaxInvs = 2
    Budgeted = {2}
    MaxHandles = 1
    MaxHandlers = 1
    MaxQueue = 1
    MaxWrites = 1
    MaxLosses = 1
INVARIANTS
    InvocationEndsOnce
PROPERTIES
    CreditReturned
CHECK_DEADLOCK FALSE

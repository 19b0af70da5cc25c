SPECIFICATION FairSpec
CONSTANTS
    Requests = {r1, r2}
    Calls = {k1}
    NoRequest = NoRequest
    MaxId = 3
    MaxSession = 2
INVARIANTS
    ResponseToOwner
    AnswerFindsSlot
PROPERTIES
    TombstonesStay
    

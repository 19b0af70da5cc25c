SPECIFICATION FairSpec
CONSTANTS
    Patterns = {p, q}
    Handlers = {a, b}
    Bulks = {u}
    Nobody = Nobody
    Restorer = Restorer
    MaxSessions = 2
    MaxIds = 4
    Cases <- MCCases
INVARIANTS
    
    OneRegistration
    NothingStranded
PROPERTIES
    EveryCallSettles
CHECK_DEADLOCK FALSE

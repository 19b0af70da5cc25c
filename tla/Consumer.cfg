SPECIFICATION CFairSpec
CONSTANTS
    Tasks = {1, 2, 3}
    Concurrency = 1
    QueueCapacity = 1
    MaxItems = 2
    MaxLosses = 1
INVARIANTS
    RecordsOnceInOrder
    DrainedIsQuiet
PROPERTIES
    EveryItemConsumed
    WaitingLoopsEnd
CHECK_DEADLOCK FALSE

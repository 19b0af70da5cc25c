SPECIFICATION FairSpec
CONSTANTS
    MaxCalls = 2
    Buffers = {b1, b2}
    MaxFrames = 1
    MaxLosses = 1
INVARIANTS
    CancellationNamesItsCall
    FramesInOrder
PROPERTIES
    EveryCallSettles
CHECK_DEADLOCK FALSE

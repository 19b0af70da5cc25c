SPECIFICATION Spec
CONSTANTS
    Kinds = {"tcp", "ws", "browser"}
    HeaderUnits = 2
    MaxFrameSize = 1
    MaxMessages = 3
PROPERTIES
    ImplementsChannel
    LoopEnds
CHECK_DEADLOCK FALSE

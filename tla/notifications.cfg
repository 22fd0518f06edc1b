SPECIFICATION FairSpec
CONSTANTS
    x = x
    y = y
    dataSize = 11
    SizeSpace = 64
    Handles <- TwoHandles
    MappedSize <- Sizes
    Messages <- SomeMessages
    MaxMessages = 3
    MaxCalls = 3
CHECK_DEADLOCK FALSE
INVARIANTS
    RingHoldsUnread
    ChunksFit
    DeliveredAsSent
PROPERTIES
    SignalledIsDispatched
    DispatcherJoins

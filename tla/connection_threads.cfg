SPECIFICATION Spec
CONSTANTS
    t1 = t1
    t2 = t2
    p1 = p1
    p2 = p2
    Threads <- TwoThreads
    NoThread = NoThread
    Ports <- TwoPorts
    NoPort = NoPort
    IdSpace = 8
    InitialIds <- InitialIdValues
    MaxRequests = 1
    BufferLength = 1
    MaxPayload = 1
    SizeSpace = 64
    Faults <- OrderlyFaults
INVARIANTS
    SlotsExclusive
    BufferOwned
    OwnResult
    UnsentNotReceived
SYMMETRY Symmetry
CHECK_DEADLOCK FALSE

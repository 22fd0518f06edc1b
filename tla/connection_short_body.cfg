SPECIFICATION Spec
CONSTANTS
    t1 = t1
    t2 = t2
    p1 = p1
    p2 = p2
    Threads <- OneThread
    NoThread = NoThread
    Ports <- OnePort
    NoPort = NoPort
    IdSpace = 8
    InitialIds <- InitialIdValues
    MaxRequests = 1
    BufferLength = 1
    MaxPayload = 1
    SizeSpace = 64
    Faults <- ShortBodies
INVARIANTS
    BufferNotOverrun
CHECK_DEADLOCK FALSE

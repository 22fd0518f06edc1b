SPECIFICATION Spec
CONSTANTS
    t1 = t1
    t2 = t2
    p1 = p1
    p2 = p2
    Threads <- OneThread
    NoThread = NoThread
    Ports <- OnePort
    NoPort = NoPort
    IdSpace = 8
    InitialIds <- InitialIdValues
    MaxRequests = 2
    BufferLength = 2
    MaxPayload = 3
    SizeSpace = 64
    Faults <- LossyFaults
INVARIANTS
    OwnPayload
    BufferNotOverrun
PROPERTIES
    SettledOnce
    InStepUnlessPayloadCut
CHECK_DEADLOCK FALSE

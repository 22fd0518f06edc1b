SPECIFICATION FairSpec
CONSTANTS
    t1 = t1
    t2 = t2
    p1 = p1
    p2 = p2
    Threads <- TwoThreads
    Hosts <- TwoTargets
    Adapters <- HostAdapters
    Width = 4
    RouteName <- LongName
    LongestText = 2
    FrameCells = 8
    ResponseCells = 16
    EphemeralPorts <- TwoPorts
    Refusal = "REFUSED"
    MaxCalls = 1
CHECK_DEADLOCK FALSE
INVARIANTS
    RequestWellFormed
PROPERTIES
    AnsweredByTarget
    ExchangesEnd

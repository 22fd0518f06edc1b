SPECIFICATION FairSpec
CONSTANTS
    t1 = t1
    t2 = t2
    A = A
    B = B
    h1 = h1
    h2 = h2
    NoHost = NoHost
    Threads <- TwoThreads
    NetIds <- TwoNetIds
    Hosts <- TwoHosts
    MaxConns = 3
    MaxCalls = 2
    RefSpace = 8
CHECK_DEADLOCK FALSE
INVARIANTS
    RoutesLead
    OwnedOnce
    OneAttempt
PROPERTIES
    EveryCallReturns

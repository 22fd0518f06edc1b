SPECIFICATION FileSpec
CONSTANTS
    c1 = c1
    c2 = c2
    Clients <- TwoClients
    Paths <- Drive
    Payload <- Files
    DirsAtStart <- Dirs
    Handles = {2, 3, 4}
    Calls <- MixedCalls
    MaxDepth = 1
    MarkerName = "m"
    NameLength <- Lengths
    MaxCalls = 1
    MaxFaults = 1
CHECK_DEADLOCK FALSE
INVARIANTS
    NoStrayMarker
PROPERTIES
    RenameKeepsContent
    DirCreateMakes
    DirDeleteClears
    DirDeleteStaysInside
    ListComplete
    HandlesClosed

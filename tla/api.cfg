SPECIFICATION Spec
CONSTANTS
    c1 = c1
    c2 = c2
    Clients <- TwoClients
    NUM_PORTS_MAX = 2
    DEFAULT_TIMEOUT = 5
    MaxLong = 8
    Environments <- Machines
    Targets <- TwoTargets
    Symbols = {"x", "y"}
    NoSymbol = "free"
    Handles = {1}
    PlatformId <- Platforms
    DeviceTables <- Tables
    MaxDevices = 2
    Calls <- TheCalls
    MaxFaults = 1
CHECK_DEADLOCK FALSE
INVARIANTS
    OwnTimeout
    OwnSymbol
    HandlesReturned
    CachedSinceClear
    ListsOneConfiguration

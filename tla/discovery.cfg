SPECIFICATION FairSpec
CONSTANTS
    Width = 4
    Adapters <- HostAdapters
    Devices <- SomeDevices
    Noise <- Others
    Resolves <- Names
    Requests <- SomeCalls
    DefaultTime = 2
    BufferTags = 3
    CallerCount = 7
CHECK_DEADLOCK FALSE
INVARIANTS
    LoneDeviceOnce
    OwnInfo
PROPERTIES
    DiscoverReturns

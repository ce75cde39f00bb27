SPECIFICATION LogSpec
CONSTANTS
    a = a
    ia = ia
    d1 = d1
    NoDevice = NoDevice
    Points <- MCPoints
    Ids <- MCIds
    Devices <- MCDevices
    IdOf <- MCIdOf
    InstanceOf <- MCInstanceOf
    PollInterval <- MCPollInterval
    Enabled <- MCPoints
    DiscoverOnStart = FALSE
    DiscoverySupported = TRUE
    BackoffInitial = 2
    BackoffMax = 4
    Reresolve = 12
    Keepalive = 20
    HealthInterval = 6
    StopTimeout = 1
    MaxAwait = 3
    MaxClock = 8
INVARIANT NextAttemptAsLogged
CHECK_DEADLOCK FALSE

SPECIFICATION Spec
CONSTANTS
    a = a
    b = b
    c = c
    off = off
    n = n
    ia = ia
    ib = ib
    ic = ic
    inn = inn
    d1 = d1
    d2 = d2
    NoDevice = NoDevice
    Points <- MCPoints
    Ids <- MCIds
    Devices <- MCDevices
    IdOf <- MCIdOf
    InstanceOf <- MCInstanceOf
    PollInterval <- MCPollInterval
    Enabled <- MCEnabled
    DiscoverOnStart = TRUE
    DiscoverySupported = TRUE
    BackoffInitial = 1
    BackoffMax = 3
    Reresolve = 2
    Keepalive = 3
    HealthInterval = 2
    StopTimeout = 1
    MaxAwait = 1
    MaxClock = 3
INVARIANTS UnresolvedAreStale BackoffBounded BackoffHasCause
           HealthOkMeansReachable RetryNotOverdue
CHECK_DEADLOCK FALSE

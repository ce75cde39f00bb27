SPECIFICATION Spec
CONSTANTS
    a = a
    b = b
    c = c
    off = off
    n = n
    ia = ia
    ib = ib
    ic = ic
    inn = inn
    d1 = d1
    d2 = d2
    NoDevice = NoDevice
    Points <- SmallPoints
    Ids <- SmallIds
    Devices <- SmallDevices
    IdOf <- SmallIdOf
    InstanceOf <- SmallInstanceOf
    PollInterval <- SmallPollInterval
    Enabled <- SmallPoints
    DiscoverOnStart = FALSE
    DiscoverySupported = TRUE
    BackoffInitial = 1
    BackoffMax = 3
    Reresolve = 2
    Keepalive = 3
    HealthInterval = 2
    StopTimeout = 1
    MaxAwait = 1
    MaxClock = 3
PROPERTIES LifecycleRefined StopIsHonoured
CHECK_DEADLOCK FALSE

SPECIFICATION PartsSpec
CONSTANTS
    a1 = a1
    a2 = a2
    t1 = t1
    Endpoints <- TwoAddrs
    MaxTargets = 1
    MaxAttempts = 3
    Startup = 1
    Persist = TRUE
    BaseBackoff = 1
    MaxBackoff = 2
    DialTimeout = 2
    Tick = 1
    MaxFlight = 2
    Addrs <- TwoAddrs
    Threads <- OneThread
    MaxAge = 1
    MaxSize = 1
    MaxNow = 3
    MaxCount = 1
    Crashes = TRUE
CHECK_DEADLOCK FALSE
INVARIANTS
    AgeIsHonest
PROPERTIES
    RedialEventually
    RestartKeepsProven

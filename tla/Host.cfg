SPECIFICATION MCSpec
CONSTANTS
    Parts = {"reactor", "nat", "lan", "transfer"}
    f1 = f1
    f2 = f2
    NoFd = NoFd
    Fds <- TwoFds
    MaxConns = 2
    MaxPosts = 1
    MaxStarts = 2
    Timeout = 2
    Configs <- Backend
    Ports = {1, 2}
    ListenPort = 1
    MaxAttempts = 2
    MaxRouterFaults = 1
    MaxTroubles = 2
INVARIANTS ClosedExactlyOnce NothingLeftBehind
PROPERTIES OnlyCondemnedRemoved EstablishOrClose ChangeArrives LanPeersFound 
CHECK_DEADLOCK FALSE

SPECIFICATION PartsSpec
CONSTANTS
    Parts = {"links"}
    p1 = p1
    p2 = p2
    c1 = c1
    c2 = c2
    r0 = r0
    r1 = r1
    me = me
    None = None
    LocalId = me
    Peers <- TwoPeers
    Larger <- OneLarger
    Conns <- TwoConns
    Reactors <- TwoReactors
    Acceptor = r0
    MaxPeers = 1
    a = a
    b = b
    l1 = l1
    l2 = l2
    Small = a
    Large = b
    NoLink = NoLink
    Links <- TwoLinks
    DialsOf <- RepeatedDials
    MaxCrashes = 0
    Backends = {"epoll", "kqueue"}
    PipeCapacity = 3
    HighWater = 2
    MayClose = {"out", "in"}
    MaxFrames <- BothWays
CHECK_DEADLOCK FALSE
INVARIANT Converged

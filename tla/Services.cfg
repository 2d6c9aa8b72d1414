SPECIFICATION MCSpec
CONSTANTS
    Parts = {"transfer", "typed", "client", "tracker", "noise", "stun", "buffers", "exchange", "object", "text",
             "bencode", "torrentfile"}
    Nodes = {"a", "b"}
    Xfers = {1}
    From <- Sender
    To <- Receiver
    Id <- FirstId
    Sizes <- Directory
    Workers = {"w"}
    Disks = {"d1", "d2"}
    Chunk = 2
    Window = 2
    Interval = 3
    Ops <- AllOps
    MaxOps = 2
    Reactors = {r1, r2}
    Types = {"t", "long"}
    LengthOf <- NameLength
    TypeLenLimit = 2
    MaxHandlers = 2
    MaxMessages = 3
    Addrs = {a1}
    Sockets = {1}
    Fetches = {f1}
    MaxTorrents = 2
    MaxMishaps = 1
    kMaxConnections = 2
    kMaxPeers = 1
    kMaxFails = 2
    Trackers = {"udp", "http"}
    IsUdp <- Udp
    Intervals <- Said
    IntBits = 4
    MinInterval = 2
    MaxInterval = 6
    DefaultInterval = 4
    MaxAnnounces = 2
    Protocols = {"p", "q"}
    Data <- TwoMessages
    MaxFrameFaults = 2
    Worlds <- Reachable
    Homed = {1, 2, 3}
    MaxFailedDials = 1
INVARIANTS DeliveredWhole OnceIsOnce  AnswersAreOurs SecureChannel BuffersSound TrianglesClose
PROPERTIES JsonSound TorrentReadsBack
CHECK_DEADLOCK FALSE

SPECIFICATION Spec
CONSTANTS
    Parts = {"lookup"}
    IdBits = 4
    kBucketSize = 2
    TopMult <- TwiceAtTop
    kMaxFailCount = 2
    Claims <- PrivateContacts
    PublicIps = {"a1", "a2", "c1"}
    SubnetOf <- Subnets
    Verified = {}
    Selves = {1}
    RttSamples = {0}
    MaxTableCalls = 5
    kAlpha = 1
    kMaxResults = 5
    Routers <- BootstrapRouters
    Targets = {4}
    MaxNodesPerReply = 2
    MaxLookups = 1
    Senders = {}
    Hashes = {4}
    OurIps = {"p"}
    CompliantId <- CompliantIds
    kRotateInterval = 2
    kPeerTtl = 2
    kMaxPeersPerHash = 2
    kMaxPerWindow = 2
    kWindow = 2
    kBanDuration = 2
    kMaxTracked = 1
    kExternalIpVoteThreshold = 2
    kMaxSpiderNodes = 1
    kMaxSpiderVisited = 1
    Horizon = 3
    MaxServed = 4
    WireIds <- MCWireIds
    WireIps <- MCWireIps
    WirePorts = {258}
    Wants <- MCWants
    MaxListed = 2
    DataDirs = {"dir"}
    PeerAddrs = {}
    MaxIds = 2
CHECK_DEADLOCK FALSE
INVARIANT NothingLeftToTry

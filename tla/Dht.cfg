SPECIFICATION Spec
CONSTANTS
    Parts = {"table", "lookup", "node", "krpc", "client"}
    IdBits = 4
    kBucketSize = 1
    TopMult <- TwiceAtTop
    kMaxFailCount = 2
    Claims <- Contacts
    PublicIps = {"a1", "a2", "c1"}
    SubnetOf <- Subnets
    Verified <- VerifiedContacts
    Selves = {1, 6}
    RttSamples = {0}
    MaxTableCalls = 7
    kAlpha = 1
    kMaxResults = 3
    Routers <- BootstrapRouters
    Targets = {4}
    MaxNodesPerReply = 1
    MaxLookups = 2
    Senders <- ServedContacts
    Hashes = {4}
    OurIps = {"p", "q"}
    CompliantId <- CompliantIds
    kRotateInterval = 2
    kPeerTtl = 2
    kMaxPeersPerHash = 2
    kMaxPerWindow = 2
    kWindow = 2
    kBanDuration = 2
    kMaxTracked = 1
    kExternalIpVoteThreshold = 2
    kMaxSpiderNodes = 1
    kMaxSpiderVisited = 1
    Horizon = 3
    MaxServed = 4
    WireIds <- MCWireIds
    WireIps <- MCWireIps
    WirePorts = {258}
    Wants <- MCWants
    MaxListed = 2
    DataDirs = {"dir"}
    PeerAddrs = {}
    MaxIds = 2
CHECK_DEADLOCK FALSE
INVARIANTS TableSound TokensHonoured UnderstoodAsSaid NoLostWakeup
PROPERTY LookupEnds

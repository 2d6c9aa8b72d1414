SPECIFICATION Spec
CONSTANTS
    n1 = n1
    n2 = n2
    n3 = n3
    AllNodes = {n1, n2, n3}
    Setups <- Explored
    FanoutSize = 1
    GossipFactor = 1
    SeenLimit = 2
    MaxMessages = 2
CHECK_DEADLOCK FALSE
INVARIANTS
    
    AtMostOnce

SPECIFICATION PartsSpec
CONSTANTS
    a1 = a1
    a2 = a2
    Apps <- MCApps
    DiskCalls = {"compact", "save", "stop", "destroy"}
    Faults = {"open", "disk_full", "rename", "crash"}
    MaxVersion = 3
    MaxFaults = 2
    Nodes <- TwoNodes
    Topology <- Pair
    Keys = {k1}
    Values = {v1}
    Ahead <- Skewed
    Calls <- AllCalls
    Paced = TRUE
    MaxTime = 3
    MaxOps = 3
    MaxDrops = 1
INVARIANTS
    
    FileNeverTorn

    
    
CHECK_DEADLOCK FALSE

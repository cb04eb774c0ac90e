SPECIFICATION FairSpec
CONSTANTS
    NoKey = NoKey
    Absent = Absent
    Networks = {n1}
    Workers = {w1}
    NodeCounts <- WithNegative
    Secrets = {}
    Ordinals <- NoOrdinals
    IPs <- NoIPs
    MaxVersion = 1
    Activity = {"foreground", "delete"}
    FaultKinds = {"scale", "api", "crash"}
    MaxFaults = 2
PROPERTIES
    ReplicasConverge
    DeletionCompletes
    NothingLeftBehind

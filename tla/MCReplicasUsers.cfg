SPECIFICATION FairSpec
CONSTANTS
    NoKey = NoKey
    Absent = Absent
    Networks = {n1}
    Workers = {w1}
    NodeCounts <- WithNegative
    Secrets = {}
    Ordinals <- NoOrdinals
    IPs <- NoIPs
    MaxVersion = 2
    Activity = {"scale", "delete", "orphan"}
    FaultKinds = {}
    MaxFaults = 0
PROPERTIES
    ReplicasConverge

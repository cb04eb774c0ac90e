SPECIFICATION FairMeshSpec
CONSTANTS
    NoKey = NoKey
    Absent = Absent
    Networks = {n1}
    Workers = {w1}
    NodeCounts <- UpToTwo
    Secrets <- TwoSecrets
    Ordinals <- TwoOrdinals
    IPs <- TwoIPs
    MaxVersion = 1
    Orphans = {}
    Activity = {}
    FaultKinds = {"rpc", "secret"}
    MaxFaults = 1
    InitialNodes = 2
    InitialReady = 0
PROPERTIES
    LinksSurvive

SPECIFICATION FairMeshSpec
CONSTANTS
    NoKey = NoKey
    Absent = Absent
    Networks = {n1, n2}
    Workers = {w1}
    NodeCounts = {1, 2}
    Secrets <- TwoSecrets
    Ordinals <- TwoOrdinals
    IPs <- TwoIPs
    MaxVersion = 2
    Orphans = {n2}
    Activity = {"scale", "reuse"}
    FaultKinds = {}
    MaxFaults = 0
    InitialNodes = 2
    InitialReady = 1
PROPERTIES
    NoForeignPeers

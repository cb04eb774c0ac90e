SPECIFICATION FairMeshSpec
CONSTANTS
    NoKey = NoKey
    Absent = Absent
    Networks = {n1}
    Workers = {w1}
    NodeCounts = {2, 3}
    Secrets <- TwoSecrets
    Ordinals <- ThreeOrdinals
    IPs <- ThreeIPs
    MaxVersion = 3
    Orphans = {}
    Activity = {"scale"}
    FaultKinds = {}
    MaxFaults = 0
    InitialNodes = 2
    InitialReady = 2
PROPERTIES
    StatusFitsSpec
    MeshConverges

SPECIFICATION FairMeshSpec
CONSTANTS
    NoKey = NoKey
    Absent = Absent
    Networks = {n1}
    Workers = {w1}
    NodeCounts = {1, 2}
    Secrets <- TwoSecrets
    Ordinals <- TwoOrdinals
    IPs <- TwoIPs
    MaxVersion = 3
    Orphans = {}
    Activity = {"scale"}
    FaultKinds = {}
    MaxFaults = 0
    InitialNodes = 2
    InitialReady = 2
PROPERTIES
    MeshSurvivesScaling

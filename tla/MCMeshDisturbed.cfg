SPECIFICATION FairMeshSpec
CONSTANTS
    NoKey = NoKey
    Absent = Absent
    Networks = {n1}
    Workers = {w1}
    NodeCounts <- UpToTwo
    Secrets <- TwoSecrets
    Ordinals <- TwoOrdinals
    IPs <- ThreeIPs
    MaxVersion = 1
    Orphans = {}
    Activity = {"report", "reuse"}
    FaultKinds = {"podlost", "unready", "restart", "api", "crash"}
    MaxFaults = 1
    InitialNodes = 2
    InitialReady = 2
INVARIANTS
    TypeOK
PROPERTIES
    StatusConverges
    LinksSurvive
    PeersConverge
    SettledIsLeftAlone

SPECIFICATION Spec
CONSTANTS
    NoKey = NoKey
    Absent = Absent
    Networks = {n1}
    Workers = {w1, w2}
    NodeCounts <- UpToOne
    Secrets = {}
    Ordinals <- NoOrdinals
    IPs <- NoIPs
    MaxVersion = 2
    Activity = {"scale", "delete", "foreground"}
    FaultKinds = {"crash", "api"}
    MaxFaults = 1
INVARIANTS
    TypeOK
    NoLostWakeup
PROPERTIES
    SpecVersionMonotone
    ImplementsScheduler

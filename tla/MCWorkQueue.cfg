SPECIFICATION FairSpec
CONSTANTS
    Networks = {n1, n2, n3, n4}
    Workers = {w1, w2, w3}
    NoKey = NoKey
    MaxStuck = 2
INVARIANTS
    QueueTypeOK
    ExclusiveRecon
    NoKeyStranded
    NoRequestLost
PROPERTIES
    ImplementsScheduler
    RequestsAreTaken

SPECIFICATION FairSpec
CONSTANTS
    Workers = {w1, w2}
    Statuses = {s1, s2}
    MaxVersion = 3
CHECK_DEADLOCK FALSE
INVARIANTS
    WorkersReadFedCaches
    SeenWasPublished
PROPERTIES
    StartupCompletes
    SignalEnds

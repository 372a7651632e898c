SPECIFICATION FairSpec
CONSTANTS
    Instances = {a, b}
    MaxCreates = 3
    MaxFaults = 2
INVARIANTS
    TypeOK
    NoDuplicates
    ReadyMeansProvisioned
PROPERTIES
    CleanupEnds
CHECK_DEADLOCK FALSE

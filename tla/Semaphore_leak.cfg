SPECIFICATION Spec
CONSTANTS
    Instances = {a}
    MaxCreates = 1
    MaxFaults = 1
INVARIANTS
    CleanupRemovesBoth
CHECK_DEADLOCK FALSE

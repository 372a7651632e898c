SPECIFICATION ConfirmedSpec
CONSTANTS
    MaxTag = 2
    Good = {1}
    Threshold = 1
    MaxEdits = 0
    MaxFaults = 0
INVARIANTS
    ConfirmedTagRan

SPECIFICATION MCSpec
CONSTANTS
    MaxTag = 2
    Good = {1}
    Threshold = 1
    MaxEdits = 1
    MaxFaults = 1
INVARIANTS
    TypeOK
    
    BackupBeforeRollout
    RolloutHasDeadline
PROPERTIES
    RolloutEnds

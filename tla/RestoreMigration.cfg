SPECIFICATION FairSpec
CONSTANTS
    MaxKey = 2
    MaxEdits = 1
    MaxRestarts = 1
    MaxFaults = 1
INVARIANTS
    TypeOK
    
PROPERTIES
    
    
    RestoreNeverOverwrites
    LatchFollowsExit

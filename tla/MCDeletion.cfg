SPECIFICATION MCFairSpec
CONSTANTS
    Deadline = 1
    MaxEdits = 1
    MaxFaults = 1
INVARIANTS
    TypeOK
    StatusHonest
PROPERTIES
    BackupImplementsFinalizer
    SemaphoreImplementsFinalizer
    BackupEventuallyReleased
    EventuallyGone
CHECK_DEADLOCK FALSE

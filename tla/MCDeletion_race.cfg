SPECIFICATION MCSpec
CONSTANTS
    Deadline = 1
    MaxEdits = 0
    MaxFaults = 0
PROPERTIES
    CleanupBeforeRelease
CHECK_DEADLOCK FALSE

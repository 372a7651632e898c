SPECIFICATION MCFairSpec
CONSTANTS
    Toggled = {"ingress", "honcho"}
    Lagging = {"Ingress", "BackupCronJob"}
    Drifting = {"StatefulSet"}
    Failing = {"Ingress", "BackupCronJob", "Semaphore"}
    Reports = {{"StatefulSet"}}
    MaxEdits = 1
    MaxFaults = 1
INVARIANTS
    TypeOK
    ObservedMeansApplied
    PodAfterItsPolicies
PROPERTIES
    RemovedOnlyWhenOff
    Converges
    FailureReported

SPECIFICATION MCFairSpec
CONSTANTS
    Requests = {r1, r2}
    Contents = {{"skills", "envVars", "profiles"}, {"config", "workspaceFiles"}}
    Literal = {r1}
    Forcing = {r2}
    MaxEdits = 1
    MaxFaults = 1
INVARIANTS
    TypeOK
    GateHonoured
    StatusMatchesSpec
PROPERTIES
    OthersKept
    DecisionFinal
    EventuallyDecided
CHECK_DEADLOCK FALSE

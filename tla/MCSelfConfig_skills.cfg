SPECIFICATION MCSpec
CONSTANTS
    Requests = {r1}
    Contents = {{"skills", "envVars"}}
    Literal = {r1}
    Forcing = {}
    MaxEdits = 0
    MaxFaults = 0
INVARIANTS
    SkillsAppended
CHECK_DEADLOCK FALSE

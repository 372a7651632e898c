SPECIFICATION MCSpec
CONSTANTS
    Toggled = {"pdb"}
    Lagging = {}
    Drifting = {}
    Failing = {}
    Reports = {{"StatefulSet"}}
    MaxEdits = 1
    MaxFaults = 0
INVARIANTS
    FullyReconciled

SPECIFICATION Spec
CONSTANTS
    Texts <- MCTexts
    Creations <- MCCreations
    Changes <- MCChanges
    Defaults <- MCDefaults
    MaxEdits = 1
    MaxDefaultEdits = 2
INVARIANTS
    TypeOK
    OwnWritesAdmitted
    ExplicitWins
    ResyncAdmitted
    ClassMatchesVolume
    ObjectsAcceptable
    Reachable

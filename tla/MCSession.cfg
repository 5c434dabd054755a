SPECIFICATION Spec
CONSTANTS
    MaxText = 4
    UndoMax = 2
    OffKeys = {"command"}
INVARIANTS
    ModesAgree
PROPERTIES
    CommitKeepsText
    UndoTakesBackCommit

SPECIFICATION Spec
CONSTANTS
    Entry = {e1, e2}
    NoFile = NoFile
SYMMETRY Entries
INVARIANTS
    ClearIsFinal

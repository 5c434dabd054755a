SPECIFICATION Spec
CONSTANTS
    Actor = {tool, sync, importer}
    Window = {tool}
    Sync = sync
    Importer = importer
    Word = {w, x}
    ImportWord = {x}
    MaxTime = 1
    MaxFaults = 1
    MaxUses = 2
    None = None
INVARIANTS
    TypeOK
    LockedSeesAll
    StaleIsNoticed
CHECK_DEADLOCK FALSE

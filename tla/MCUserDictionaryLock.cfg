SPECIFICATION Spec
CONSTANTS
    Actor = {tool, sync, importer}
    Window = {tool}
    Sync = sync
    Importer = importer
    Word = {x}
    ImportWord = {x}
    MaxTime = 0
    MaxFaults = 0
    MaxUses = 4
    None = None
INVARIANT Exclusive
CHECK_DEADLOCK FALSE

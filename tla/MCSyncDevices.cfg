SPECIFICATION Spec
CONSTANTS
    Device = {1, 2}
    Process = {11, 12, 21}
    Home <- MCHome
    Word = {w1}
    Retention = 1
    MaxTime = 2
    MaxEdits = 3
    MaxFaults = 1
    None = None
INVARIANTS
    TypeOK
    
PROPERTIES
    UnremovedStays
    Converges
CHECK_DEADLOCK FALSE

SPECIFICATION FairSpec
CONSTANTS
    d = d
    m = m
    Runner = {d, m}
    Daemon = d
INVARIANTS
    TypeOK
    LockHasOwner
    MergesUnderLock
PROPERTIES
    ReloadKeepsLearning
    LockEnds
    RunningEnds

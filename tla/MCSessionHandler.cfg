SPECIFICATION FairSpec
CONSTANTS
    SessionID = {1, 2, 3}
    App = {a1}
    NoSession = NoSession
    InfinitePast = InfinitePast
    MaxSessionSize = 2
    CreateSessionInterval = 1
    CreateSessionTimeout = 1
    LastCommandTimeout = 2
    WatchDogInterval = 1
    ServerTimeout = 0
    MaxTime = 3
    MaxResets = 1
    MaxEngine = 1
INVARIANTS
    TypeOK
    EngineInUse
    EmptyTimeExact
    RecencyInv
PROPERTIES
    EvictsLeastRecent
    SurvivesSleep
    LockHoldsKeys
    DeadAppsReaped

SPECIFICATION FairSpec
CONSTANTS
    r1 = r1
    r2 = r2
    r3 = r3
    Request = {r1, r2, r3}
    Priority <- Priorities
    HighPriority = 10
    None = None
    BuiltIn = BuiltIn
INVARIANTS
    TypeOK
    TakesAlone
    Delivered
    FailedStaysOut
PROPERTIES
    NeverDowngraded
    WaitReturns
    LoopShrinks

SPECIFICATION FairSpec
CONSTANTS
    MaxKeys = 2
    MaxPlayBack = 3
    MaxFaults = 2
    Faults = {"crash", "timeout", "error", "broken", "evict", "early", "launch", "kill", "lock"}
    Versions = {"older protocol", "older", "same", "newer protocol"}
    Void = Void
INVARIANTS
    TypeOK
    TypedOnceInOrder
PROPERTIES
    EveryKeyAnswered

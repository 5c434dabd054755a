SPECIFICATION LruSpec
CONSTANTS
    Key = {k1, k2, k3, k4}
    Value = {v1, v2}
    MaxElements = 3
    MaxBlocks = 2
    SmallCache = 2
    FirstBlock = 1
    null = null
INVARIANTS
    ListsAgree
PROPERTIES
    ImplementsOrder

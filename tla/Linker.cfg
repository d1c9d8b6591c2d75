\* A request restarted twice, and two requests coalescing with its fetch.
SPECIFICATION LinkerSpec
CONSTANTS
    Groups <- LogGroups
    Tx <- LogTx
    Vxids <- MCVxids
    NoGroup = none
    Capacity = 2
    TTL = 1
    MaxParked = 1
    AgeLimit = 0
    MaxTime = 2
INVARIANTS
    LinkedEitherWay
    LinksMatchExports
    RestartsShareTrace
    MissesCounted
CHECK_DEADLOCK FALSE

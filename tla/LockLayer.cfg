CONSTANTS
    Clients = {c1, c2, c3}
    NoClient = NoClient
    Keys <- MCKeys
    shardCount = 2
    spread <- MCSpread
    Requests <- MCRequests
    MaxClears = 1
SPECIFICATION FairSpec
CHECK_DEADLOCK FALSE
INVARIANTS
    TypeOK
    NoCircularWait
    MutualExclusion
    UnlocksMatchLocks
    LockOrder
PROPERTIES
    LocksAreGranted

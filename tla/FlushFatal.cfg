\* One FLUSHDB while another client holds a lock.
CONSTANTS
    Clients = {c1, c2}
    NoClient = NoClient
    Keys <- MCKeys
    shardCount = 2
    spread <- MCSpread
    Requests <- MCSmallFlush
    MaxClears = 1
SPECIFICATION Spec
CHECK_DEADLOCK FALSE
INVARIANT NoFatalUnlock

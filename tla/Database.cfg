\* Two clients on strings and a list, a write to the file that may fail, the
\* process restarting at any moment.
CONSTANTS
    Clients = {c1, c2}
    NoClient = NoClient
    Keys <- MCKeys
    Values <- MCValues
    bytes <- MCBytes
    NotInt = NotInt
    shardCount = 2
    spread <- MCSpread
    CmdLines <- ConcurrentLines
    NoCmd = NoCmd
    NoReply = NoReply
    aofBufferSize = 1
    MaxLen = 1
    MaxClears = 0
    Failing <- FailingPush
    Restarts = TRUE
SPECIFICATION FairSpec
INVARIANTS
    RaceFree
    LogAgrees
PROPERTIES
    ImplementsDurableStore
    EveryCommandAnswered

\* One client that uses every command, and a write to the file that may fail.
CONSTANTS
    Clients = {c1}
    NoClient = NoClient
    Keys <- MCKeys
    Values <- MCValues
    bytes <- MCBytes
    NotInt = NotInt
    shardCount = 2
    spread <- MCSpread
    CmdLines <- AllLines
    NoCmd = NoCmd
    NoReply = NoReply
    aofBufferSize = 1
    MaxLen = 1
    MaxClears = 1
    Failing <- FailingPop
    Restarts = TRUE
    Indices <- MCIndices
SPECIFICATION Spec
INVARIANTS
    ListLaws
    KeyLaws
PROPERTIES
    Bootable
    ImplementsDurableStore

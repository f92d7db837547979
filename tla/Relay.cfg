CONSTANTS
    n1 = n1
    n2 = n2
    Nodes <- MCNodes
    Entry = {n1}
    DBs = {0, 1}
    Inputs <- MCInputs
    MaxTotal = 1
    MaxFrames = 4
    MaxRequests = 2
    MaxBreaks = 1
SPECIFICATION FairSpec
CHECK_DEADLOCK FALSE
INVARIANTS
    RelayInv
PROPERTY
    EveryRelayEnds

CONSTANTS
    Callers = {c1}
    Heart = h
    chanSize = 1
    Retries = 1
    MaxReqs = 5
    Beats = {2, 4}
    MaxConns = 2
    MaxFaults = 1
SPECIFICATION AnsweringSpec
CHECK_DEADLOCK FALSE
INVARIANTS
    ClientInv
PROPERTIES
    CompletedOnce
    EveryCallReturns

\* Two clients and a signal, at any moment.  The program ends.
CONSTANTS
    Conns = {k1, k2}
    NoConn = NoConn
SPECIFICATION FairSpec
CHECK_DEADLOCK FALSE
INVARIANTS
    ServerInv
PROPERTIES
    ShutsDownUnlessLate

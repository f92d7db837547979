CONSTANTS
    n1 = n1
    n2 = n2
    k1 = k1
    k2 = k2
    k3 = k3
    c1 = c1
    c2 = c2
    Nodes = {n1, n2}
    Keys = {k1, k2, k3}
    Members = {m1, m2}
    hashFunc <- MChashFunc
    Peers <- MCPeers
    Clients = {c1, c2}
    MultiClients = {c1}
    Coordinator <- MCCoordinator
    NoKey = NoKey
    Dests = {NoKey, k1, k3}
    Ops = {"sunion", "sinter", "sdiff", "del"}
    MaxSources = 2
    MaxWrites = 1
    MaxFaults = 1
SPECIFICATION Spec
SYMMETRY MCSymmetry
INVARIANTS
    ClusterInv
    ReadsInWindow
PROPERTY
    StoreReplaces

\* Sets, hashes and sorted sets of a few elements.
CONSTANTS
    Keys = {"a", "b", "c"}
    Members <- MCMembers
    NotInt = NotInt
    parse <- MCParse
    format <- MCFormat
    order <- MCOrder
    Long = {"x"}
    bits <- MCBits
    intsetMax = 2
    listpackMax = 2
    Header = Header
    Nil = Nil
    maxLevel = 2
    sixth = 3
    listpackMaxSize = 2
    Workloads <- MCWorkloads
    RankArgs <- MCRankArgs
    Bounds <- MCBounds
SPECIFICATION Spec
INVARIANTS
    EncodingsSound
    EditsExact
    SetAlgebra
    RangesAndRanks
    ErrorsChangeNothing
    Restores

\* All three scans, one at a time, with one Clear.
CONSTANTS
    Keys <- MCKeys
    shardCount = 3
    spread <- MCSpread
    Names <- MCNames
    Globs <- MCGlobs
    ScanGlobs <- MCScanGlobs
    Modes = {"KEYS", "Keys", "DictScan"}
    Counts = {0, 1, 2}
    MaxClears = 1
SPECIFICATION FairSpec
INVARIANTS
    ScanExact
    GlobExact
PROPERTIES
    ScanEnds

SPECIFICATION Spec
CONSTANTS
    Names = {"a", "b", "c"}
    Hash <- MCHash
    Len2 <- MCLen2
    Root = 1
    CycleDepth = 4
    InitTrees <- MCInitTrees
    Paths <- MCPaths
    InitSpace = {1}
    ChunkBlocks = 1
    MaxSpace = 2
    MaxNumbers = 8
    MaxRuns = 2
    DeleteDepth = 3
INVARIANTS
    NamesPaired
    SpaceAccounted
    CachesTrue
    AckedHeld
PROPERTY
    OthersUntouched
CHECK_DEADLOCK FALSE

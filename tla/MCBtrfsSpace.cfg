SPECIFICATION Spec
CONSTANTS
    LeafCap = 6
    PtrCap = 4
    Files <- MCFiles
    Size <- MCSize
    DataLen <- MCDataLen
    FirstFiles <- MCFirstFiles
    FirstGroups <- MCFirstGroups
    DevSize = 69
    ReservedForSuper = 2
    SbAt <- MCSbAt
    SZ_64K = 2
    ChunkSize = 4
    FreeSpaceTrees = {TRUE, FALSE}
    MaxRounds = 30
    MaxTxns = 4
INVARIANTS
    TreesSound
    ContentsKept
    SpaceExact
    MapTrue
    OnlyFull
PROPERTY CopyOnWrite
CHECK_DEADLOCK FALSE

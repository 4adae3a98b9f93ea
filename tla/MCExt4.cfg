SPECIFICATION Spec
CONSTANTS
    BlockSize = 2
    blocks_per_group = 12
    blocks_count = 18
    inodes_per_group = 3
    first_ino = 3
    bitmaps <- MCbitmaps
    desc_blocks = 1
    MAX_INLINE_EXTENTS = 1
    MaxRuns = 2
    MAX_EXTENT_LEN = 2
    record_len <- MCrecord_len
    usable = 12
    MAX_DELETE_DEPTH = 1
    Volumes <- MCVolumes
    Names = {"a", "b", "L"}
    Parents <- MCParents
    Sizes = {0, 5}
    Chunks = {1, 5, 7}
    MaxCells = 8
    Slots = {s1, s2}
    MaxOps = 2
    MayFailUninit = FALSE
    MayFailUndo = FALSE
SYMMETRY SlotSymmetry
INVARIANTS NeverShared DataBeforeRecord TreeKept Accounted
CHECK_DEADLOCK FALSE

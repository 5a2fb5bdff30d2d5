CONSTANTS
    Parts = {"cache", "extents", "btree", "catalog", "names"}
    Paths <- ShortPaths
    Density = 2
    BlockSize = 2
    LoadSize = 9
    Files <- SmallFiles
    IDs = {1, 2, 3}
    Rests = {0, 1, 2}
    IDBits = 3
    Trees <- SmallTrees
    Devices = {1, 2}
    Offsets = {0, 1, 2}
    CacheSize = 4
    MinBlockSize = 2
    MaxBlockSize = 4
    MaxTime = 2
SPECIFICATION MCSpec
CHECK_DEADLOCK FALSE
INVARIANTS ReadsFile FindsNamed  
PROPERTIES ImplementsDevice ImplementsLookup

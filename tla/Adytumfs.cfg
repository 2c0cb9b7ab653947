SPECIFICATION MCSpec
CONSTANTS
    Blocks = {1, 2, 3, 4}
    Inodes = {2, 3}
    INODES_PER_BLOCK = 4
    DIRECT_EXTENTS = 2
    FILE_PAGES = 1
    Names = {"a", "b"}
    Values = {1}
    MaxGeneration = 3
    MaxMounts = 2
INVARIANTS
    VolumeSound
    OwnBytesOnly
PROPERTIES
    SyncLands
    CrashAtomic
CHECK_DEADLOCK FALSE

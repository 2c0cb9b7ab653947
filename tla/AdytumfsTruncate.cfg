SPECIFICATION FullSpec
CONSTANTS
    Blocks = {1, 2}
    Inodes = {2, 3}
    INODES_PER_BLOCK = 4
    DIRECT_EXTENTS = 2
    FILE_PAGES = 1
    Names = {"a", "b"}
    Values = {1}
    MaxGeneration = 3
    MaxMounts = 2
INVARIANT Recoverable
CHECK_DEADLOCK FALSE

SPECIFICATION Spec
CONSTANTS
    p1 = p1  p2 = p2  p3 = p3
    Pixmaps = {p1, p2, p3}
    Kinds <- PoolKinds
    Luck <- AllLuck
    Solids = {p2}
    Accesses = {p1, p2, p3}
    Copies <- FewPairs
    Composites <- FewPairs
    Outcomes = {"packed", "fail"}
    Pools = {1, 2, 3, 4, 5}
    POOL_SIZE = 8
    PAGE_SIZE = 2
    MERGED_MAX = 16
    MergeLimit = 2
    CompactLimit = 2
    COOLING_LIMIT_MIN = 3
    COOLING_LIMIT_MAX = 6
    FREEZE_CHUNK = 3
    MaxBatch = 2
    MaxJobs = 1
    MaxAccess = 2
    exa_refrigerator = TRUE
    exa_erase_pixmaps = FALSE
INVARIANT AccessStays
CHECK_DEADLOCK FALSE

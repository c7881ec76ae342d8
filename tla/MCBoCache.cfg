SPECIFICATION Spec
CONSTANTS
    None = None
    Bos = {b1, b2, b3}
    Handles = {h1, h2, h3}
    Names = {n1}
    Sizes = {1, 2}
    BucketSizes = {1, 2}
    KeepSize = 1
    KeepBytes = 1
    KeepTime = 1
    MapTime = 1
    FewTime = 3
    Few = 2
    MaxRefs = 1
    Calls = {"new", "from_name", "unref", "map", "close"}
    MapMayFail = FALSE
SYMMETRY Symm
INVARIANTS TypeOK BalancesExact CountsExact MappingStays
CHECK_DEADLOCK FALSE

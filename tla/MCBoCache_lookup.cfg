SPECIFICATION Spec
CONSTANTS
    None = None
    Bos = {b1, b2}
    Handles = {h1, h2}
    Names = {n1}
    Sizes = {1, 2, 3}
    BucketSizes = {1, 2}
    KeepSize = 1
    KeepBytes = 1
    KeepTime = 0
    MapTime = 0
    FewTime = 2
    Few = 2
    MaxRefs = 2
    Calls = {"new", "wrap", "from_handle", "from_dmabuf", "ref", "unref", "map", "get_name", "forbid_caching", "close"}
    MapMayFail = TRUE
SYMMETRY Symm
INVARIANTS RecyclingSafe NoDanglingEntry NoEvilTwins
CHECK_DEADLOCK FALSE

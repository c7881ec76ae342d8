SPECIFICATION Spec
CONSTANTS
    None = None
    Bos = {b1, b2}
    Handles = {h1, h2}
    Names = {}
    Sizes = {1}
    BucketSizes = {1, 2}
    KeepSize = 1
    KeepBytes = 1
    KeepTime = 0
    MapTime = 0
    FewTime = 2
    Few = 2
    MaxRefs = 1
    Calls = {"new", "unref", "from_handle"}
    MapMayFail = FALSE
SYMMETRY Symm
INVARIANTS RefsExact
CHECK_DEADLOCK FALSE

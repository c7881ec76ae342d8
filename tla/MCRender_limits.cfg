CONSTANTS
    A = A
    B = B
    D = D
    Pixmaps = {A, B, D}
    Large = {A}
    Alpha = {A, B, D}
    NoPixmap = NoPixmap
    Scanout = {}
    A8 = {}
    Requests <- RequestsLimits
    MaxRequests = 4
    MaxFences = 13
    MaxPixmaps = 2
    SubmitMayFail = TRUE
SPECIFICATION FairSpec
INVARIANT FencesActive CountsExact
PROPERTY Served BatchDrained
CHECK_DEADLOCK FALSE

CONSTANTS
    A = A
    B = B
    D = D
    Pixmaps = {A, B, D}
    Large = {A, D}
    Alpha = {A, B}
    NoPixmap = NoPixmap
    Scanout = {D}
    A8 = {}
    Requests <- RequestsMixed
    MaxRequests = 4
    MaxFences = 13
    MaxPixmaps = 8
    SubmitMayFail = FALSE
SPECIFICATION Spec
INVARIANT Settled Exclusive NoNestedFlush GpuNeverStuck ScreenShows
PROPERTY ImplementsCanvas

CONSTANTS
    A = A
    B = B
    D = D
    Pixmaps = {A, B, D}
    Large = {A}
    Alpha = {A, B}
    NoPixmap = NoPixmap
    Scanout = {}
    A8 = {}
    Requests <- Requests2D
    MaxRequests = 4
    MaxFences = 13
    MaxPixmaps = 8
    SubmitMayFail = FALSE
SPECIFICATION Spec
INVARIANT TypeOK AlphaIsZero
PROPERTY ImplementsCanvas

SPECIFICATION FairSpec
CONSTANTS
    Clients = {c1, c2}
    c1 = c1
    c2 = c2
    Drawables = {d1}
    Events = {e1, e2}
    Buffers = {b1, b2, b3, b4}
    None = None
    Wrap = 64
    MaxOffset = 1
    Targets <- MCTargets
    Equations <- MCEquations
    Refusable = {"swap"}
    FirstFrame = 1
    MaxFrame = 3
    MaxRequests = 3
INVARIANTS TypeOK Tracked AnswersRight
PROPERTIES AllAnswered
CHECK_DEADLOCK FALSE

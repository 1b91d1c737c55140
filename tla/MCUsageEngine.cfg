SPECIFICATION Spec
CONSTANTS
    h1 = h1
    h2 = h2
    c1 = c1
    c2 = c2
    None = None
    Handlers = {h1, h2}
    Customers = {c1, c2}
    Hours = {0, 1, 2, 3, 4, 5}
    Window = 2
    TTL = 3
    MaxNow = 4
    MaxEvents = 3
SYMMETRY Symmetry
CHECK_DEADLOCK FALSE
INVARIANTS
    AcceptedCounted
    ExpiresUnlessCut

SPECIFICATION Spec
CONSTANTS
    Clients = {a, b}
    Requests = {r1, r2}
    PerIP = TRUE
    Shared = all
    Rate = 2
    Cost = 3
    Burst = 2
    IdleLimit = 1
    NBuckets = 4
    MaxTime = 3
SYMMETRY Symmetry
INVARIANTS
    WindowBound
PROPERTIES
    NoEarlyDenial
    DenialEarned
CHECK_DEADLOCK FALSE

SPECIFICATION FairSpec
CONSTANTS
    Attempts = {a1, a2}
    Conns = {c1, c2}
    Nodes = {n1}
    Exits <- MCExits
    Names <- MCNames
    None = None
INVARIANTS
    CleanTunnel
    RightExit
PROPERTIES
    OldExitsDrain
CHECK_DEADLOCK FALSE

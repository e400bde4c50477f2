SPECIFICATION FairSpec
CONSTANTS
    Handlers = {h}
    Workers = {w}
    Main = m
    Targets = {t1, t2}
    MaxResets = 2
    None = None
INVARIANTS
    SupersededAreStopped
PROPERTIES
    CallsReturn
    KeepsProbing
CHECK_DEADLOCK FALSE

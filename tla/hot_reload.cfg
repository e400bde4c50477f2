SPECIFICATION FairSpec
CONSTANTS
    Editors = {e}
    Replacers = {e}
    Reloaders = {w}
    Edits = {x, o}
    MaxCrashes = 0
    Watcher = w
    Subscriber = s
    Operator = {o}
    Capacity = 1
INVARIANTS
    LaterWriteNoticed
    OnlySavedRuns
PROPERTIES
    ComesToRest
CHECK_DEADLOCK FALSE

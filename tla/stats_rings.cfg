SPECIFICATION StatsSpec
CONSTANTS
    Requests = {r1, r2}
    Slots = 2
    LogCap = 2
    LogAccess = TRUE
    Unrecorded = TRUE
    MaxTime = 3
    MaxTotal = 5
INVARIANTS
    LogsNewestFirst
    NoGhosts
CHECK_DEADLOCK FALSE

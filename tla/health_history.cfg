SPECIFICATION HistorySpec
CONSTANTS
    N = 2
    HealthEnabled = TRUE
    Fails = 3
    Passes = 2
    MaxCount = 4
INVARIANT DeadIffThreshold
PROPERTY RevivalNeedsPasses
PROPERTY RemovalNeedsNoSuccess

SPECIFICATION FairSpec
CONSTANTS
    r1 = r1
    r2 = r2
    N = 2
    HealthEnabled = TRUE
    Fails = 1
    Passes = 2
    MaxCount = 2
    Weight <- SkewedWeights
    Requests = {r1}
    Uploads = {}
    Impatient = {}
    ClientHash <- TwoClients
    Timed = TRUE
    Retry = 1
    LB = "weighted"
    Backup = {2}
    Internal = {}
    Conditions = {"up", "sick", "down", "silent"}
    RRPeriod = 2
INVARIANT CursorBalance
INVARIANT CursorBound
PROPERTY NodeRecovers
 
PROPERTY SteadyNodeIsFound
PROPERTY BackupsRest

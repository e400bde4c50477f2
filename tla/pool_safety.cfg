SPECIFICATION FairSpec
CONSTANTS
    r1 = r1
    r2 = r2
    N = 2
    HealthEnabled = TRUE
    Fails = 1
    Passes = 2
    MaxCount = 2
    Weight <- SkewedWeights
    Requests = {r1, r2}
    Uploads = {r2}
    Impatient = {r1}
    ClientHash <- TwoClients
    Timed = FALSE
    Retry = 1
    LB = "least_conn"
    Backup = {}
    Internal = {2}
    Conditions = {"up", "down", "silent"}
    RRPeriod = 2
INVARIANT ConnsMatch
INVARIANT FreshAttempt
PROPERTY ImplementsFailover
PROPERTY RequestsAnswered

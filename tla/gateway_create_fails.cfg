SPECIFICATION Spec
CONSTANTS
    w1 = w1  w2 = w2  t1 = t1  t2 = t2  h1 = h1  h2 = h2
    k1 = k1  r1 = r1  r2 = r2
    Workers <- MCWorkers
    Transfers <- MCTransfers
    MaxRetries <- MCNoRetry
    BroadcastThrottle = 9
    NoJob = NoJob
    UpdateMayFail = {}
    Handlers <- MCHandlers
    Keys <- MCOneKey
    RawKeys <- MCRawKeys
    Unescape <- MCUnescapeSame
    MaxPuts = 2
    MaxBatch = 2
    MaxRestarts = 0
    CreateMayFail = TRUE
    ReadMayFail = FALSE
    MayTerminate = FALSE
    MayCrash = FALSE
    SlowHandler = FALSE
    None = None
SYMMETRY MCSymmetry
INVARIANTS
    AckedIsRecorded

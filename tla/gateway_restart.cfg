SPECIFICATION Spec
CONSTANTS
    w1 = w1  w2 = w2  t1 = t1  t2 = t2  h1 = h1  h2 = h2
    k1 = k1  r1 = r1  r2 = r2
    Workers <- MCOneWorker
    Transfers <- MCTransfers
    MaxRetries <- MCNoRetry
    BroadcastThrottle <- MCNoEvents
    NoJob = NoJob
    UpdateMayFail <- MCTransfers
    Handlers <- MCHandlers
    Keys <- MCOneKey
    RawKeys <- MCOneRawKey
    Unescape <- MCUnescapeOne
    MaxPuts = 1
    MaxBatch = 2
    MaxRestarts = 1
    CreateMayFail = TRUE
    ReadMayFail = FALSE
    MayTerminate = TRUE
    MayCrash = TRUE
    SlowHandler = FALSE
    None = None
SYMMETRY MCSymmetry
INVARIANTS
    OneActivePerKey
PROPERTIES
    MirrorsSource

SPECIFICATION FairSpec
CONSTANTS
    w1 = w1  w2 = w2  t1 = t1  t2 = t2  h1 = h1  h2 = h2
    k1 = k1  r1 = r1  r2 = r2
    Workers <- MCOneWorker
    Transfers <- MCTransfers
    MaxRetries <- MCRetryOnce
    BroadcastThrottle <- MCNoEvents
    NoJob = NoJob
    UpdateMayFail = {}
    Handlers <- MCHandlers
    Keys <- MCOneKey
    RawKeys <- MCOneRawKey
    Unescape <- MCUnescapeOne
    MaxPuts = 1
    MaxBatch = 1
    MaxRestarts = 0
    CreateMayFail = FALSE
    ReadMayFail = TRUE
    MayTerminate = FALSE
    MayCrash = FALSE
    SlowHandler = TRUE
    None = None
PROPERTIES
    AckedEventFinishes

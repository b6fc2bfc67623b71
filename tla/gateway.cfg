SPECIFICATION Spec
CONSTANTS
    w1 = w1  w2 = w2  t1 = t1  t2 = t2  h1 = h1  h2 = h2
    k1 = k1  r1 = r1  r2 = r2
    Workers <- MCWorkers
    Transfers <- MCTransfers
    MaxRetries <- MCNoRetry
    BroadcastThrottle <- MCNoEvents
    NoJob = NoJob
    UpdateMayFail = {}
    Handlers <- MCHandlers
    Keys <- MCOneKey
    RawKeys <- MCOneRawKey
    Unescape <- MCUnescapeOne
    MaxPuts = 2
    MaxBatch = 1
    MaxRestarts = 0
    CreateMayFail = FALSE
    ReadMayFail = FALSE
    MayTerminate = FALSE
    MayCrash = FALSE
    SlowHandler = FALSE
    None = None
SYMMETRY MCSymmetry
INVARIANTS
    GatewayTypeOK
    ActiveRowIsCarried
    AckedIsRecorded
PROPERTIES
    MirrorsSource

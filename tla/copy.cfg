SPECIFICATION CopySpec
CONSTANTS
    w1 = w1  w2 = w2  t1 = t1  t2 = t2
    e1 = e1  bad = bad  u1 = u1  s1 = s1  s2 = s2
    Workers <- MCWorkers
    Transfers <- MCTransfers
    MaxRetries <- MCMaxRetries
    BroadcastThrottle <- MCNoEvents
    NoJob = NoJob
    UpdateMayFail = {}
    Endpoints <- MCEndpoints
    AccessKeys <- MCAccessKeys
    Others <- MCOthers
    Malformed <- MCMalformed
    ConfOf <- MCConfOf
    Absent = Absent
    Width = 16
    Second = 10
    MinDelay = 50
    MaxDelay = 400
    Bases <- MCBases
    MaxAttempt = 18
INVARIANTS
    OneClientPerKey
    ClientFitsJob
    BackoffIsCappedExponential
PROPERTIES
    EveryTransferFinishes
    StopCompletes

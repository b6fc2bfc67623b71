SPECIFICATION PoolSpec
CONSTANTS
    w1 = w1  w2 = w2  t1 = t1  t2 = t2
    Workers <- MCWorkers
    Transfers <- MCTransfers
    MaxRetries <- MCMaxRetries
    BroadcastThrottle = 1
    NoJob = NoJob
    UpdateMayFail <- MCLossy
SYMMETRY MCSymmetry
INVARIANTS
    PoolTypeOK
    OneOwner
    NoLostWakeup
    ActiveIsOwned
    RowCoherent
    RetryBudget
    EventsFollowRow
PROPERTIES
    TerminalIsFinal

SPECIFICATION SessSpec
CONSTANTS
    c1 = c1  c2 = c2  k1 = k1  k2 = k2  f1 = f1
    RawConfigs <- MCRawConfigs
    Clients <- MCClients
    Tokens <- MCTokens
    Forged <- MCForged
    NoToken = NoToken
    NoExpiry = NoExpiry
    TTL = 2
    Lag = 1
    MaxTime = 4
    MaxStarts = 2
SYMMETRY MCSymmetry
INVARIANTS
    SessTypeOK
    MutationsAreConfirmed
PROPERTIES
    DeadStaysDead
    IdleSessionEnds
    ActiveSessionIsKept

SPECIFICATION AdmSpec
CONSTANTS
    g1 = g1  a1 = a1  a2 = a2  t1 = t1  n1 = n1  c1 = c1  s1 = s1  r1 = r1  h1 = h1  h2 = h2
    GroupIds <- MCGroupIds
    AppIds <- MCOneApp
    TransferIds <- MCTransferIds
    Names <- MCNames
    NoName = NoName
    Sides <- MCSides
    Confs <- MCConfs
    Secrets <- MCSecrets
    NoSecret = NoSecret
    Requests <- MCRequests
    Keep = Keep
    Absent = Absent
    Hooks <- MCHooks
    Routes <- MCRoutes
    TTL = 2
    Lag = 1
    MaxTime = 5
SYMMETRY MCSymmetry
INVARIANTS
    AdmissionTypeOK
PROPERTIES
    StaleAtMostTTL

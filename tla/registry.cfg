SPECIFICATION RegSpec
CONSTANTS
    g1 = g1  g2 = g2  a1 = a1  a2 = a2  t1 = t1  n1 = n1  c1 = c1  s1 = s1  r1 = r1  r2 = r2
    GroupIds <- MCGroupIds
    AppIds <- MCAppIds
    TransferIds <- MCTransferIds
    Names <- MCNames
    NoName = NoName
    Sides <- MCSides
    Confs <- MCConfs
    Secrets <- MCSecrets
    NoSecret = NoSecret
    Requests <- MCRequests
    Keep = Keep
    Absent = Absent
SYMMETRY MCSymmetry
INVARIANTS
    RegistryTypeOK
    NoOrphans
PROPERTIES
    DeletedStaysDeleted

SPECIFICATION StoreSpec
CONSTANTS
    r1 = r1  r2 = r2  r3 = r3
    Requests <- MCRequests
    ChanCap = 2
    BatchMax = 2
    DBMayFail = TRUE
    MaxStarts = 3
    StmtMayFail = TRUE
INVARIANTS
    StoreTypeOK
    WritesMeetTheirColumns
    RepeatableUnlessInterrupted
PROPERTIES
    NobodyWaitsForEver
    WritesAreSerial

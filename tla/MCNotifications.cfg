SPECIFICATION FairSpec
CONSTANTS
    None = None
    MaxTransfers = 2
    MaxBytes = 3
    MaxLogs = 2
INVARIANTS ClientIsTold BytesCounted
PROPERTIES DisplayCatchesUp
CHECK_DEADLOCK FALSE

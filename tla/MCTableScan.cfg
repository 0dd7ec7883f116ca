CONSTANTS
    Databases <- SmallDatabases
    OneTimeReadWeiboNum = 3
    Scans = 3
SPECIFICATION ScanFairSpec
INVARIANTS
    TypeOK
    ScansReadTheSameRows
    FirstBatchNeverRead
PROPERTY ScansEnd
CHECK_DEADLOCK FALSE

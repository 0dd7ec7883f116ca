CONSTANTS
    Databases <- OneTable
    OneTimeReadWeiboNum = 3
    Scans = 3
SPECIFICATION ScanFairSpec
INVARIANT EveryMessageRead
CHECK_DEADLOCK FALSE

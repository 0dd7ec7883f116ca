CONSTANTS
    MaxHour = 1
    MaxSize = 2
    MaxOwn = 2
    MaxDetection = 3
SPECIFICATION FairSpec
INVARIANTS
    WholeHours
    
PROPERTY EveryHourFound
CHECK_DEADLOCK FALSE

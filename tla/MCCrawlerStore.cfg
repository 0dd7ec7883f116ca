CONSTANTS
    Message <- ThreeMessages
    Hour = {1, 2}
    User = {"u"}
    HourOf <- HourOfThree
    UserOf <- UserOfThree
    ThreadCount = 2
    MaxFault = 2
SPECIFICATION FairSpec
INVARIANTS
    ReportedIsStored
    RelationsComplete
PROPERTIES
    PoisonIsFinal
    QueriesEnd
CHECK_DEADLOCK FALSE

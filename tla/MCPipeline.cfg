CONSTANTS
    MaxHour = 1
    MaxRound = 2
    MaxTopics = 2
    MaxRestarts = 1
    MaxFaults = 2
SPECIFICATION Spec
INVARIANTS
    GivenTwiceOnlyAfterRace
    TopicsOfFilledTables
    OnlyTopicsAreClustered
    WholeHoursPass
    AbortIsFinal
PROPERTIES
    LostHourStaysLost
CHECK_DEADLOCK FALSE

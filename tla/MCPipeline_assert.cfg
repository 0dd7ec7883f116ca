CONSTANTS
    MaxHour = 1
    MaxRound = 2
    MaxTopics = 1
    MaxRestarts = 0
    MaxFaults = 0
SPECIFICATION Spec
INVARIANTS
    AssertionHolds
CHECK_DEADLOCK FALSE

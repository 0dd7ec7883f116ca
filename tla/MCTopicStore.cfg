CONSTANTS
    Process = {1, 2}
    Topics <- ThreeTopics
    BatchSize = 2
    MaxFault = 1
SPECIFICATION Spec
INVARIANTS
    RowsUnderTheirTopic
    UndamagedTopicsComplete
CHECK_DEADLOCK FALSE

CONSTANTS
    Mids <- MCMids
    Fingerprints <- MCFingerprints
    Attributes <- MCAttributes
    Tables <- MCTables
    ROWS_EACH_TIME = 2
    MaxRuns = 2
SPECIFICATION Spec
INVARIANTS
    ReadsEachMessageOnce
    RepresentativesApart
    NoUniqueTextDropped
    SameTextSameFate
    InsertionAllOrNothing
    OutputOnce
CHECK_DEADLOCK FALSE

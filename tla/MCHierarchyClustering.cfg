\* All inputs of at most four or five messages; the trigger and the filter are scaled
\* with the size of the topic so that both sides of each are met.
CONSTANTS
    Dims <- MCDims
    Inputs <- AllSmallInputs
    CUScale = 60
    TriggerSize = 3
    FilterPercent = 30
SPECIFICATION FairSpec
INVARIANTS
    TypeOK
    ItemSetsPartition
    SimilarityExact
    SnapshotIsPartition
    BestPartitionKept
PROPERTIES
    ImplementsAgglomeration
    Completes
CHECK_DEADLOCK FALSE

CONSTANTS
    Inputs <- FewRows
    Word = {1, 2, 3, 4, 5}
    TagValue = 3
    FreqLimit = 2
    LeastWordNum = 3
    RowsPerWord = 1
    TopicMapThrod = 4
    RandSize = 2
    ThrodAdd = 0
    TotalWeiboNum = 5
    MinMessageNum = 1
    Garbage <- FewValues
SPECIFICATION Spec
INVARIANTS
    FeatureWordsFrequent
    CooccurrenceExact
    EachWordInNearestTopic
    LargeTopicsStoredWhole
CHECK_DEADLOCK FALSE

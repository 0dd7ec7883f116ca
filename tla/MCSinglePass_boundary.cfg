CONSTANTS
    Inputs <- TwoRows
    Word = {1, 2, 3, 4, 5}
    TagValue = 3
    FreqLimit = 2
    LeastWordNum = 3
    RowsPerWord = 1
    TopicMapThrod = 4
    RandSize = 2
    ThrodAdd = 0
    TotalWeiboNum = 5
    MinMessageNum = 1
    Garbage <- FewValues
SPECIFICATION Spec
INVARIANT LeastTopicsStored
CHECK_DEADLOCK FALSE

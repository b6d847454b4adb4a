CONSTANTS
    NumSets = 1
    NumWays = 1
    NumWords = 1
    Tags = {t0, t1}
    Values = {0}
    ZeroTag = t0
    ZeroValue = 0
    BusFaults = FALSE
SPECIFICATION FairSpec
PROPERTIES CoreAnswered WalkAnswered FlushEnds

CONSTANTS
    NumSets = 2
    NumWays = 1
    NumWords = 2
    Tags = {t0}
    Values = {0, 1}
    ZeroTag = t0
    ZeroValue = 0
    BusFaults = FALSE
SPECIFICATION Spec
PROPERTY IsWordMemory
VIEW LiveState

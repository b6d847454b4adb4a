CONSTANTS
    NumSets = 2
    NumWays = 1
    NumWords = 1
    Tags = {t0}
    Values = {0}
    ZeroTag = t0
    ZeroValue = 0
    BusFaults = TRUE
SPECIFICATION Spec
INVARIANTS FlushDropsNothing FlushedEmpty
VIEW LiveState

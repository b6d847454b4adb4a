CONSTANTS
    NumSets = 1
    NumWays = 2
    NumWords = 1
    Tags = {t0, t1, t2}
    Values = {0, 1}
    ZeroTag = t0
    ZeroValue = 0
    BusFaults = FALSE
SPECIFICATION Spec
INVARIANTS CleanIsCopy DeviceOnce MemoryInv
PROPERTY IsWordMemory
VIEW LiveState

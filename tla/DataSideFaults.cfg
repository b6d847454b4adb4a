CONSTANTS
    NumSets = 1
    NumWays = 2
    NumWords = 1
    Tags = {t0, t1, t2}
    Values = {0, 1}
    ZeroTag = t0
    ZeroValue = 0
    BusFaults = TRUE
SPECIFICATION Spec
INVARIANTS CacheInv NoTagCollision UniqueLine DirtyIsValid LookupIsTranslated
PROPERTY DirtyKept
CONSTRAINTS CpuInMemory StoresShow
SYMMETRY TagSymmetry
VIEW DirtyState

CONSTANTS
    N = 3
    Ops = 2
    ExpectedFail = {1}
    MaxParallel = 3
    MaxConcurrent = 2
    MaxSessions = 2
    Olds = 3
    NamedSessions = FALSE
SPECIFICATION FairSpec
INVARIANTS TypeOK NeverDenied EvictsNoneInUse ExitHonest SparesLater NothingLeft
PROPERTIES OneVivadoPerSession BatchEnds
CHECK_DEADLOCK FALSE

CONSTANTS
    Sessions = {s1}
    Objects = {o1, o2}
    Pids = {p1, p2}
    Cmds = {c1, c2}
    None = None
    MaxConcurrent = 1
    MaxLines = 1
    Settled = TRUE
SPECIFICATION FairSpec
INVARIANTS TypeOK LiveHasPermit PermitsConserved OneAtATime OwnOutput
PROPERTIES KeepsToPool CommandEnds
CHECK_DEADLOCK FALSE

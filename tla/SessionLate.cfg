CONSTANTS
    Sessions = {s1}
    Objects = {o1}
    Pids = {p1, p2}
    Cmds = {c1, c2}
    None = None
    MaxConcurrent = 1
    MaxLines = 1
    Settled = FALSE
SPECIFICATION Spec
INVARIANT VerdictIsOwn
CHECK_DEADLOCK FALSE

SPECIFICATION Spec
CONSTANTS
    s1 = s1
    p1 = p1
    p2 = p2
    c1 = c1
    w = w
    None = None
    Sids = {s1}
    Pids = {p1, p2}
    Clients = {c1}
    Worktrees = {w}
    Chunks = 1
INVARIANTS
    LastSeqInLog
    RunningHasRunner
SYMMETRY PidSymmetry
CHECK_DEADLOCK FALSE

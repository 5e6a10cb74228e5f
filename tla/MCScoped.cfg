SPECIFICATION LaunchSpec
CONSTANTS
    Proc = {p1, p2}
    Unit = unit
    Backlog = 1
    Launch = {l1, l2}
    MaxNoise = 1
    Caller = {t1, t2, t3}
    Job = {j1, j2, j3}
    None = None
INVARIANT EverythingGetsItsScope
CHECK_DEADLOCK FALSE

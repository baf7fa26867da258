\* The command line limits the time.
CONSTANTS
    u = u
    v = v
    Threads = {u, v}
    Fuels = {1, 2}
    Times = {1, 2}
    None = None
    Statuses = {0, 7, 125, 126}
    Traps <- MCTraps
    MaxUsed = 3
    MaxTime = 3
SPECIFICATION Spec
INVARIANTS
    RunTimeKept
\* The process exits.
CHECK_DEADLOCK FALSE

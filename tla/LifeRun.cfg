\* Every configuration and command line; two guest threads beside the main one.
CONSTANTS
    u = u
    v = v
    Threads = {u, v}
    Fuels = {1, 2}
    Times = {1, 2}
    None = None
    Statuses = {0, 7, 125, 126}
    Traps <- MCTraps
    MaxUsed = 3
    MaxTime = 2
SPECIFICATION FairSpec
INVARIANTS
    ExitTruth
    FuelBound
PROPERTIES
    FuelEnds
\* The process exits.
CHECK_DEADLOCK FALSE

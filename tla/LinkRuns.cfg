\* Two runs in one process, one with two libraries, share the registry.
CONSTANTS
    r1 = r1
    r2 = r2
    a = a
    b = b
    Runs = {r1, r2}
    NoRun = NoRun
    Libs = {a, b}
    Entry = Entry
    NoName = NoName
    Plan <- TwoPlan
    Methods <- MCMethods
    Requests <- MCRequests
    Wanted <- MCWanted
    Shapes <- TwoShapes
    Addrs = {p, q}
    NoAddr = NoAddr
    MaxCalls = 3
SPECIFICATION FairSpec
INVARIANTS
    TypeOK
    BuffersReturned
    OutcomeTruth
    LibraryFound
PROPERTIES
    RunsEnd
\* A run that has ended, or waits for itself, takes no step.
CHECK_DEADLOCK FALSE

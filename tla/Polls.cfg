\* Two guest threads on both platforms, two calls each.
SPECIFICATION FairSpec
CONSTANTS
    t1 = t1
    t2 = t2
    stdin = stdin
    pipe = pipe
    memory = memory
    NoThread = NoThread
    NoFile = NoFile
    Threads = {t1, t2}
    Files = {stdin, pipe, memory}
    Stdin = stdin
    Pollable = {stdin, pipe}
    Sized = {stdin, memory}
    Conds <- MCConds
    Requests <- MCRequests
    Builds = {"unix", "windows"}
    TicksPerMs = 2
    MaxPoll = 1
    MaxCalls = 2
    MaxSignals = 1
    MaxLate = 1
INVARIANTS
    TypeOK
    WakeTruth
    PanicUnclocked
PROPERTIES
    PollsEnd
\* The calls are used up.
CHECK_DEADLOCK FALSE

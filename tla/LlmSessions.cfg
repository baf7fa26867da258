\* Two callers, one model that is downloaded in two chunks, one crash.
CONSTANTS
    Callers = {c1, c2}
    Size = 2
    Announced <- SomeSize
    Framed <- FramedOrNot
    Ranges <- RangesOrNot
    NoFile = NoFile
    MaxLen = 4
    Servers = {p1, p2}
    NoServer = NoServer
    MaxCalls = 6
    MaxCrashes = 1
SPECIFICATION FairSpec
INVARIANTS
    TypeOK
    ServerLifetime
    OneSession
    SystemFirst
    CompleteModel
PROPERTIES
    PartKept
    CallsEnd
\* After MaxCalls calls nothing is left to do.
CHECK_DEADLOCK FALSE

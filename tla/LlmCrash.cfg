\* One caller, one crash.
CONSTANTS
    Callers = {c1}
    Size = 2
    Announced <- RightSize
    Framed <- AlwaysFramed
    Ranges <- AlwaysRanges
    NoFile = NoFile
    MaxLen = 2
    Servers = {p1}
    NoServer = NoServer
    MaxCalls = 2
    MaxCrashes = 1
SPECIFICATION Spec
INVARIANTS
    Executable
\* After MaxCalls calls nothing is left to do.
CHECK_DEADLOCK FALSE

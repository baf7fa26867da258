\* Two guests with both drivers, two files, one change of a file, one restart.
CONSTANTS
    c1 = c1
    c2 = c2
    f = f
    g = g
    x = x
    y = y
    o = o
    b = b
    Callers = {c1, c2}
    MaxCalls = 3
    Length = 3
    Sizes = {0, 1, 2}
    Nobody = Nobody
    Files = {f, g}
    Contents = {x, y, o, b}
    NoContent = NoContent
    Answer <- MCAnswer
    Aliases = {"x", "y"}
    NotCgi = NotCgi
    Bad = Bad
    Reads = {1, 9}
    MaxEvents = 2
SPECIFICATION DriversSpec
SYMMETRY Symmetry
INVARIANTS
    DriversTypeOK
    HandleKept
    BodyInOrder
    ShortIsLast
    VerifiedOnly
    ListingStored
PROPERTIES
    ProcessKept
\* The calls are used up.
CHECK_DEADLOCK FALSE

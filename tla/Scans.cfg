\* Two names, two files, one descriptor; buffers of a part of an entry up to three.
CONSTANTS
    a = a
    b = b
    x1 = x1
    x2 = x2
    Names = {a, b}
    NameLen <- MCNameLen
    Header = 2
    Requests <- MCRequests
    Nodes = {x1, x2}
    NoNode = NoNode
    Fds = {1}
    MaxSize = 1
    Buffers = {3, 4, 7, 8, 20}
    MaxCalls = 5
SYMMETRY Alike
SPECIFICATION Spec
INVARIANTS
    TypeOK
    ScanComplete
PROPERTIES
    FailureKeeps
\* The calls are used up.
CHECK_DEADLOCK FALSE

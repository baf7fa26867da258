\* One guest thread makes every call; the release build wraps next_key.
CONSTANTS
    in = in
    out = out
    err = err
    d = d
    f = f
    g = g
    l1 = l1
    Threads = {Main}
    u = u
    Main = Main
    Res = {in, out, err, d, f, g, l1}
    NoRes = NoRes
    Kind <- MCKind
    Stdio <- MCStdio
    Dirs <- OneDir
    Listens <- Apart
    NoFd = NoFd
    MaxFd = 5
    Overflow = "wrap"
    Ops = {"close", "renumber", "setTimes", "stat", "use", "openAt", "accept", "connect"}
    Names = {2, 3, 4, 5}
SPECIFICATION Spec
INVARIANTS
    TypeOK
    NoAlias
PROPERTIES
    AtomicTable
\* The process exits, or panics when connect meets a full table.
CHECK_DEADLOCK FALSE

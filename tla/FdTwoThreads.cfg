\* Two guest threads; the debug build panics when next_key overflows.
CONSTANTS
    in = in
    out = out
    err = err
    d = d
    f = f
    g = g
    l1 = l1
    Threads = {Main, u}
    Main = Main
    u = u
    Res = {in, out, err, d, f, g}
    NoRes = NoRes
    Kind <- MCKind
    Stdio <- MCStdio
    Dirs <- OneDir
    Listens <- NoListens
    NoFd = NoFd
    MaxFd = 6
    Overflow = "panic"
    Ops = {"close", "stat", "use", "openAt", "connect"}
    Names = {3, 4, 5}
SPECIFICATION Spec
INVARIANTS
    DescriptorStable
\* The process exits, or panics.
CHECK_DEADLOCK FALSE

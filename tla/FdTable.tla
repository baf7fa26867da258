------------------------------ MODULE FdTable ------------------------------
(***************************************************************************)
(* The descriptor table of a run (crates/wasi-common/src/table.rs), how    *)
(* preview1_builder fills it, and the WASI calls of the guest's threads    *)
(* that read and change it (snapshots/preview_1.rs, the open calls of      *)
(* crates/blockless-drivers/src/wasi).  With wasi-threads every guest      *)
(* thread is a thread of the host and shares the table.                    *)
(*                                                                         *)
(* Each method of Table takes the RwLock once and is atomic; a WASI call   *)
(* is a sequence of such methods, so each is an action, and other threads  *)
(* may act between two of them.                                            *)
(***************************************************************************)
EXTENDS Naturals, Sequences

CONSTANTS
    Threads,    \* guest threads
    Main,       \* the one that runs the entry function
    Res,        \* files, directories and sockets that can be open at a time
    NoRes,      \* no resource
    Kind,       \* Kind[x]: "file" (FileEntry) or "dir" (DirEntry)
    Stdio,      \* Stdio[fd + 1]: the resource of descriptor fd = 0, 1, 2
    Dirs,       \* the preopened directories, in order
    Listens,    \* the TCP listeners, in order: records of res and fd
    NoFd,       \* a listener without a number
    MaxFd,      \* u32::MAX
    Overflow,   \* what next_key += 1 does at MaxFd: "wrap" (release) or "panic" (debug)
    Ops,        \* the WASI calls the guest makes
    Names       \* the descriptors it passes to them

Fds == 0 .. MaxFd
AllOps == {"close", "renumber", "setTimes", "stat", "use", "openAt", "accept", "connect"}

\* stdio is inserted at 0, 1 and 2, the directories are pushed from 3 on.
Preopened ==
    [fd \in Fds |-> CASE fd < 3 -> Stdio[fd + 1]
                      [] fd >= 3 /\ fd < 3 + Len(Dirs) -> Dirs[fd - 2]
                      [] OTHER -> NoRes]

ASSUME TableAssumption ==
    /\ Main \in Threads
    /\ NoRes \notin Res
    /\ Kind \in [Res -> {"file", "dir"}]
    /\ Stdio \in Seq(Res) /\ Len(Stdio) = 3 /\ Dirs \in Seq(Res)
    /\ NoFd \notin Nat
    /\ MaxFd \in Nat /\ Len(Dirs) + Len(Listens) + 3 <= MaxFd
    /\ Listens \in Seq([res : Res, fd : Fds \cup {NoFd}])
    /\ Overflow \in {"wrap", "panic"}
    /\ Ops \subseteq AllOps /\ Names \subseteq Fds
    /\ \A f, g \in Fds : Preopened[f] = Preopened[g] => f = g \/ Preopened[f] = NoRes
    /\ \A i \in DOMAIN Listens, f \in Fds : Listens[i].res # Preopened[f]
    /\ \A i, j \in DOMAIN Listens : Listens[i].res = Listens[j].res => i = j

VARIABLES
    map,        \* Inner.map: descriptor -> resource
    next,       \* Inner.next_key
    maxFd,      \* max_fd of preview1_builder
    pos,        \* the listener it comes to next
    phase,      \* what the process is doing
    alive,      \* the guest threads that run
    call,       \* call[t]: the WASI call thread t is in
    answer      \* answer[t]: what its last close, renumber or open returned

vars == <<map, next, maxFd, pos, phase, alive, call, answer>>

-----------------------------------------------------------------------------

Stages == {"idle", "isFile", "isDir", "delete", "renumber", "get", "busy", "open", "push"}

\* kind: what a check found fd to be, or what get asks for; seen: what was at fd
\* when the call began; held: the Arc the call owns.
Calls == [stage : Stages, op : AllOps \cup {"none"}, fd : Fds, to : Fds,
          kind : {"file", "dir"}, seen : Res \cup {NoRes}, held : Res \cup {NoRes}]

NoCall == [stage |-> "idle", op |-> "none", fd |-> 0, to |-> 0, kind |-> "file",
           seen |-> NoRes, held |-> NoRes]

NoAnswer == [op |-> "none", fd |-> 0, result |-> "Ok"]
Answers == [op : {"none", "close", "renumber", "open"}, fd : Fds, result : {"Ok", "Badf", "Fail"}]

TypeOK ==
    /\ map \in [Fds -> Res \cup {NoRes}]
    /\ next \in Fds /\ maxFd \in Fds
    /\ pos \in 1 .. Len(Listens) + 1
    /\ phase \in {"setup", "refused", "running", "exited", "panicked"}
    /\ alive \subseteq Threads
    /\ call \in [Threads -> Calls]
    /\ answer \in [Threads -> Answers]

Init ==
    /\ map = Preopened
    /\ next = 3 + Len(Dirs) /\ maxFd = 3 + Len(Dirs)
    /\ pos = 1
    /\ phase = "setup"
    /\ alive = {Main}
    /\ call = [t \in Threads |-> NoCall]
    /\ answer = [t \in Threads |-> NoAnswer]

-----------------------------------------------------------------------------
\* The table

IsKind(fd, kind) == map[fd] # NoRes /\ Kind[map[fd]] = kind

IsFile(fd) == IsKind(fd, "file")

\* Mutation: from keeps its entry.
RenumberedKeep(from, to) == [map EXCEPT ![to] = map[from]]

Renumbered(from, to) == [[map EXCEPT ![from] = NoRes] EXCEPT ![to] = map[from]]

\* How far push counts from n to k.
Ahead(n, k) == IF k >= n THEN k - n ELSE k + MaxFd + 1 - n

\* The key at which push stops counting.
FirstFree(k) == map[k] = NoRes /\ \A j \in Fds : Ahead(next, j) < Ahead(next, k) => map[j] # NoRes

Live == {fd \in Fds : map[fd] # NoRes}

\* All keys but one are taken: map.len() is u32::MAX.
Full == \E k \in Fds : map[k] = NoRes /\ \A fd \in Fds \ {k} : map[fd] # NoRes

\* Mutation: the counter stays at the number it gave.
NextKeyStays(k) == k

\* Mutation: the counter does not wrap.
NextKeyNoWrap(k) == k + 1

NextKey(k) == IF k = MaxFd THEN 0 ELSE k + 1

-----------------------------------------------------------------------------
\* preview1_builder

\* A listener with a number is inserted there unless a directory could have the
\* number; one without takes the next.
Listen ==
    /\ phase = "setup" /\ pos <= Len(Listens)
    /\ LET l == Listens[pos]
           fd == IF l.fd = NoFd THEN maxFd ELSE l.fd
       IN  IF fd < maxFd
           THEN phase' = "refused" /\ UNCHANGED <<map, maxFd, pos>>
           ELSE /\ map' = [map EXCEPT ![fd] = l.res]
                /\ maxFd' = IF l.fd = NoFd THEN maxFd + 1 ELSE maxFd
                /\ pos' = pos + 1
                /\ UNCHANGED phase
    /\ UNCHANGED <<next, alive, call, answer>>

Start ==
    /\ phase = "setup" /\ pos > Len(Listens)
    /\ phase' = "running"
    /\ UNCHANGED <<map, next, maxFd, pos, alive, call, answer>>

-----------------------------------------------------------------------------
\* Guest threads

table == <<map, next>>
config == <<maxFd, pos>>

Runs(t) == phase = "running" /\ t \in alive
Idle(t, op) == Runs(t) /\ call[t].stage = "idle" /\ op \in Ops
At(t, stage) == Runs(t) /\ call[t].stage = stage

\* wasi_thread_spawn: another thread runs the guest.
Spawn(t) ==
    /\ Runs(t) /\ call[t].stage = "idle"
    /\ \E u \in Threads \ alive : alive' = alive \cup {u}
    /\ UNCHANGED <<table, config, phase, call, answer>>

\* A thread returns, or traps; the process exits when the main one does, and at
\* any trap.
Leave(t) ==
    /\ Runs(t) /\ call[t].stage = "idle"
    /\ alive' = alive \ {t}
    /\ phase' \in IF t = Main THEN {"exited"} ELSE {"exited", phase}
    /\ UNCHANGED <<table, config, call, answer>>

\* The call of t returns and has changed nothing: its result is left out.
Done(t) ==
    /\ call' = [call EXCEPT ![t] = NoCall]
    /\ UNCHANGED <<config, phase, alive, answer>>

\* The call of t, an op on descriptor fd, returns result.
Return(t, op, fd, result) ==
    /\ answer' = [answer EXCEPT ![t] = [op |-> op, fd |-> fd, result |-> result]]
    /\ call' = [call EXCEPT ![t] = NoCall]
    /\ UNCHANGED <<config, phase, alive>>

\* The call of t goes on to another stage.
Goes(t, c) ==
    /\ call' = [call EXCEPT ![t] = c]
    /\ UNCHANGED <<config, phase, alive, answer>>

\* A panic on any thread ends the process: main unwinds, and a spawned thread
\* catches it and exits.
Panic ==
    /\ phase' = "panicked"
    /\ UNCHANGED <<config, alive, call, answer>>

\* The calls that have asked the table something, and those that own what they
\* have opened.
Asked(op, fd, stage, kind, to) ==
    [stage |-> stage, op |-> op, fd |-> fd, to |-> to, kind |-> kind,
     seen |-> map[fd], held |-> NoRes]

Opened(op, x) ==
    [stage |-> "push", op |-> op, fd |-> 0, to |-> 0, kind |-> "file", seen |-> NoRes, held |-> x]

-----------------------------------------------------------------------------
\* fd_close, fd_renumber

\* Mutation: an absent descriptor counts as closed.
AbsentOk == "Ok"

Absent == "Badf"

Contains(t) ==
    /\ \/ /\ Idle(t, "close")
          /\ \E fd \in Names : IF map[fd] = NoRes
                               THEN Return(t, "close", fd, Absent)
                               ELSE Goes(t, Asked("close", fd, "isFile", "file", 0))
       \/ /\ Idle(t, "renumber")
          /\ \E fd, to \in Names : IF map[fd] = NoRes
                                   THEN Return(t, "renumber", fd, "Badf")
                                   ELSE Goes(t, Asked("renumber", fd, "renumber", "file", to))
    /\ UNCHANGED table

\* Table::renumber.
Renumber(t) ==
    /\ At(t, "renumber")
    /\ LET from == call[t].fd
           to == call[t].to
       IN  IF map[from] = NoRes
           THEN Return(t, "renumber", from, "Badf") /\ UNCHANGED map
           ELSE Return(t, "renumber", from, "Ok") /\ map' = Renumbered(from, to)
    /\ UNCHANGED next

\* Table::delete: the entry is removed, then cast to the type it was seen to have.
Delete(t) ==
    /\ At(t, "delete")
    /\ LET fd == call[t].fd
       IN  /\ map' = [map EXCEPT ![fd] = NoRes]
           /\ IF map[fd] = NoRes \/ IsKind(fd, call[t].kind)
              THEN Return(t, "close", fd, "Ok")
              ELSE Panic
    /\ UNCHANGED next

-----------------------------------------------------------------------------
\* Is the descriptor a file, or a directory?

\* What the call does once the kind of its descriptor is known.
AfterIs(op) == IF op = "close" THEN "delete" ELSE "get"

\* fd_filestat_set_times, fd_fdstat_get and their like begin with the question;
\* fd_close asks it after contains_key.
IsFileStep(t) ==
    /\ \/ \E op \in {"setTimes", "stat"} :
             /\ Idle(t, op)
             /\ \E fd \in Names :
                   Goes(t, Asked(op, fd, IF IsFile(fd) THEN AfterIs(op) ELSE "isDir", "file", 0))
       \/ /\ At(t, "isFile")
          /\ LET c == call[t]
             IN  Goes(t, [c EXCEPT !.stage = IF IsFile(c.fd) THEN AfterIs(c.op) ELSE "isDir"])
    /\ UNCHANGED table

IsDirStep(t) ==
    /\ At(t, "isDir")
    /\ LET c == call[t]
       IN  IF IsKind(c.fd, "dir")
           THEN Goes(t, [c EXCEPT !.stage = AfterIs(c.op), !.kind = "dir"])
           ELSE IF c.op = "close" THEN Return(t, "close", c.fd, "Badf") ELSE Done(t)
    /\ UNCHANGED table

-----------------------------------------------------------------------------
\* Calls that use an entry

\* fd_read, sock_recv and the others that ask for one file.
UseFile(t, fd) == Idle(t, "use") /\ Goes(t, Asked("use", fd, "get", "file", 0))

\* path_create_directory, path_readlink and the others that ask for one directory.
UseDir(t, fd) == Idle(t, "use") /\ Goes(t, Asked("use", fd, "get", "dir", 0))

\* These, sock_accept, and path_open, which first refuses a file.
Begin(t) ==
    /\ \E fd \in Names :
          \/ UseFile(t, fd) \/ UseDir(t, fd)
          \/ Idle(t, "accept") /\ Goes(t, Asked("accept", fd, "get", "file", 0))
          \/ /\ Idle(t, "openAt")
             /\ IF IsFile(fd)
                THEN Return(t, "open", 0, "Fail")
                ELSE Goes(t, Asked("openAt", fd, "get", "dir", 0))
    /\ UNCHANGED table

Opens == {"openAt", "accept"}

\* Table::get.  Only fd_filestat_set_times expects it to succeed.
Get(t) ==
    /\ At(t, "get")
    /\ LET c == call[t]
       IN  IF IsKind(c.fd, c.kind)
           THEN Goes(t, [c EXCEPT !.stage = IF c.op \in Opens THEN "open" ELSE "busy", !.held = map[c.fd]])
           ELSE CASE c.op = "setTimes" -> Panic
                  [] c.op \in Opens    -> Return(t, "open", 0, "Fail")
                  [] OTHER             -> Done(t)
    /\ UNCHANGED table

\* The system call on the entry ends, and the Arc is dropped.
Finish(t) ==
    /\ At(t, "busy")
    /\ Done(t)
    /\ UNCHANGED table

Held(x) == \E t \in Threads : call[t].held = x
Given == {Stdio[i] : i \in 1 .. 3} \cup {Dirs[i] : i \in DOMAIN Dirs}
           \cup {Listens[i].res : i \in DOMAIN Listens}
Fresh(x) == x \notin Given /\ ~Held(x) /\ \A fd \in Fds : map[fd] # x

\* The file is opened, the connection accepted or made: the call owns the new
\* resource, and no longer the directory or the listener.
Open(t) ==
    /\ \/ At(t, "open")
       \/ Idle(t, "connect")
    /\ LET op == IF call[t].stage = "open" THEN call[t].op ELSE "connect"
       IN  \/ \E x \in Res :
                 /\ Fresh(x) /\ (op = "openAt" \/ Kind[x] = "file")
                 /\ Goes(t, Opened(op, x))
           \/ Return(t, "open", 0, "Fail")
    /\ UNCHANGED table

\* Table::push.  A full table is a trap, or a panic in the blockless calls; the
\* trap ends the process.
Push(t) ==
    /\ At(t, "push")
    /\ IF Full
       THEN /\ IF call[t].op = "connect"
               THEN Panic
               ELSE phase' = "exited" /\ UNCHANGED <<config, alive, call, answer>>
            /\ UNCHANGED table
       ELSE \E k \in Fds :
               /\ FirstFree(k)
               /\ IF Overflow = "panic" /\ (k < next \/ k = MaxFd)
                  THEN Panic /\ UNCHANGED table
                  ELSE /\ map' = [map EXCEPT ![k] = call[t].held]
                       /\ next' = NextKey(k)
                       /\ Return(t, "open", k, "Ok")

-----------------------------------------------------------------------------

ThreadStep(t) ==
    \/ Spawn(t) \/ Leave(t)
    \/ Contains(t) \/ Renumber(t) \/ Delete(t)
    \/ IsFileStep(t) \/ IsDirStep(t)
    \/ Begin(t) \/ Get(t) \/ Finish(t) \/ Open(t) \/ Push(t)

Next == Listen \/ Start \/ \E t \in Threads : ThreadStep(t)

Spec == Init /\ [][Next]_vars

-----------------------------------------------------------------------------
\* Properties

\* A resource has one descriptor at most, and a resource about to be pushed has
\* none: renumber moves an entry, push never enters one twice.
NoAlias ==
    /\ \A f, g \in Live : map[f] = map[g] => f = g
    /\ \A t \in Threads : call[t].stage = "push" => \A fd \in Live : map[fd] # call[t].held

\* While the guest runs, an entry leaves the table, or gives way to another, only
\* by an fd_close or fd_renumber that names its descriptor: push never takes a
\* number in use, also after the counter has wrapped.
EntriesKept ==
    [][\A fd \in Fds :
          phase = "running" /\ map[fd] # NoRes /\ map'[fd] # map[fd] =>
            \E t \in Threads : \/ call[t].stage = "delete" /\ call[t].fd = fd
                               \/ call[t].stage = "renumber" /\ fd \in {call[t].fd, call[t].to}]_vars

\* "checked that entry is file", "checked that entry is dir": the entry
\* fd_filestat_set_times asks for is there and has the kind it was seen to have.
CheckedEntry ==
    \A t \in Threads :
        call[t].op = "setTimes" /\ call[t].stage = "get" /\ phase = "running" =>
          /\ map[call[t].fd] # NoRes
          /\ Kind[map[call[t].fd]] = call[t].kind

\* A call acts on the resource its descriptor named when the call began, or finds
\* nothing: it never meets one that another thread has opened meanwhile.
DescriptorStable ==
    \A t \in Threads :
        call[t].stage \in {"isFile", "isDir", "delete", "get"} /\ call[t].seen # NoRes =>
            map[call[t].fd] \in {call[t].seen, NoRes}

\* Where one thread uses the table, its calls take effect at once.
Abstract == INSTANCE Descriptors
AtomicTable == Abstract!Spec

=============================================================================

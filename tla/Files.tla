------------------------------- MODULE Files -------------------------------
(* What the WASI calls on files and directories do to them: path_open with  *)
(* Dir::open_file_, reads, writes, sizes and positions (snapshots/          *)
(* preview_1.rs, sync/dir.rs, sync/file.rs), and fd_readdir with the cookie *)
(* by which a guest lists a directory in several calls.                     *)
(*                                                                          *)
(* There is one preopened directory. Each call makes one system call that   *)
(* changes files, so a call is an action; other threads of the guest and    *)
(* other processes act between two calls. Of a file only its size is kept.  *)
EXTENDS Naturals, FiniteSets, Sequences, SequencesExt, Functions

CONSTANTS
    Names,      \* the names in the directory
    NameLen,    \* how long each is
    Header,     \* the size of a Dirent
    Requests,   \* what path_open is asked: oflags, fdflags and rights
    Nodes,      \* the files and directories there can be
    NoNode,
    Fds,        \* the descriptors there can be
    MaxSize,    \* the largest size of a file
    Buffers,    \* the buffers fd_readdir gets, by their length
    MaxCalls    \* the calls and changes, at most

\* path_open: Oflags, Fdflags (SYNC stands for DSYNC and RSYNC too) and Rights.
OFlags == {"CREATE", "DIRECTORY", "EXCLUSIVE", "TRUNCATE"}
FdFlags == {"APPEND", "SYNC", "NONBLOCK"}
Rights == {"READ", "WRITE"}

ASSUME FilesAssumption ==
    /\ NoNode \notin Nodes
    /\ IsFiniteSet(Names)
    /\ "." \notin Names /\ ".." \notin Names
    /\ NameLen \in [Names \cup {".", ".."} -> Nat \ {0}] /\ Header \in Nat \ {0}
    /\ Requests \subseteq [o : SUBSET OFlags, f : SUBSET FdFlags, r : SUBSET Rights]
    /\ MaxSize \in Nat /\ MaxCalls \in Nat
    /\ Buffers \subseteq Nat \ {0}

VARIABLES
    order,      \* the names in the directory, as the system enumerates them
    node,       \* name -> its file or directory
    kind,       \* what each node is
    size,       \* how long each file is
    fds,        \* the descriptors of files: what each refers to
    last,       \* what the last call was and returned
    scan,       \* how far a guest has listed the directory
    calls       \* calls and changes so far

vars == <<order, node, kind, size, fds, last, scan, calls>>

\* A descriptor: the modes the table and the system have for it.
Descriptors == [node : Nodes, access : SUBSET Rights, writable : BOOLEAN, append : BOOLEAN,
                pos : Nat]
NoDescriptor == [node |-> NoNode, access |-> {}, writable |-> FALSE, append |-> FALSE, pos |-> 0]

Results == {"Ok", "Err", "NonBlock"}
Ops == {"none", "open", "read", "write", "resize", "path", "readdir", "other"}
Answers == [op : Ops, fd : Fds \cup {0}, result : Results]

\* A listing: its cookie, the names the guest has got, and whether it has seen the
\* end. History: names there from its beginning, and what has happened since.
Scans == [cookie : Nat, got : Seq(Names \cup {".", ".."}), end : BOOLEAN,
          kept : SUBSET Names, removed : BOOLEAN, added : BOOLEAN]
NewScan(names) == [cookie |-> 0, got |-> <<>>, end |-> FALSE, kept |-> names,
                   removed |-> FALSE, added |-> FALSE]

Exists(n) == node[n] # NoNode
Present == {n \in Names : Exists(n)}
Open(f) == fds[f].node # NoDescriptor.node

\* The host has any files in the directory, and the guest begins to list it.
Init ==
    /\ node \in {d \in [Names -> Nodes \cup {NoNode}] : IsInjective(Restrict(d, {n \in Names : d[n] # NoNode}))}
    /\ order \in SetToSeqs(Present)
    /\ kind = [x \in Nodes |-> IF \E n \in Names : node[n] = x THEN "file" ELSE "none"]
    /\ size = [x \in Nodes |-> IF kind[x] = "file" THEN MaxSize ELSE 0]
    /\ fds = [f \in Fds |-> NoDescriptor]
    /\ last = [op |-> "none", fd |-> 0, result |-> "Ok"]
    /\ scan = NewScan(Present)
    /\ calls = 0

-----------------------------------------------------------------------------
(* The directory. *)

\* A name comes into the directory at any place, and leaves it.
Enter(n, x) ==
    /\ \E i \in 1 .. Len(order) + 1 : order' = InsertAt(order, i, n)
    /\ node' = [node EXCEPT ![n] = x]
    /\ scan' = [scan EXCEPT !.added = TRUE]

\* Mutation: a listing that was taken before still has the name.
LeaveStale(n) ==
    /\ order' = order
    /\ node' = [node EXCEPT ![n] = NoNode]
    /\ scan' = [scan EXCEPT !.kept = @ \ {n}, !.removed = TRUE]

Leave(n) ==
    /\ order' = RemoveFirst(order, n)
    /\ node' = [node EXCEPT ![n] = NoNode]
    /\ scan' = [scan EXCEPT !.kept = @ \ {n}, !.removed = TRUE]

directory == <<order, node, scan>>

\* A node that no name and no descriptor has.
Fresh(x) == (\A n \in Names : node[n] # x) /\ (\A f \in Fds : fds[f].node # x)

Call(op, f, result) ==
    /\ calls < MaxCalls
    /\ calls' = calls + 1
    /\ last' = [op |-> op, fd |-> f, result |-> result]

-----------------------------------------------------------------------------
(* path_open, open_file_. *)

\* Mutation: DIRECTORY is looked at after the file is open only.
RefusedLate(q) == "SYNC" \in q.f

\* Refused before the system is asked.
Refused(q) ==
    \/ "SYNC" \in q.f
    \/ "DIRECTORY" \in q.o /\ q.o \cap {"CREATE", "EXCLUSIVE", "TRUNCATE"} # {}

\* OpenOptions: EXCLUSIVE counts with CREATE only, and a file that is not opened
\* for writing is opened for reading.
CreateNew(q) == {"CREATE", "EXCLUSIVE"} \subseteq q.o
Creates(q) == "CREATE" \in q.o
Writes(q) == Creates(q) \/ "WRITE" \in q.r
Appends(q) == "APPEND" \in q.f
Truncates(q) == "TRUNCATE" \in q.o

\* std: to truncate needs write without append, unless the file is new.
Invalid(q) == Truncates(q) /\ ~CreateNew(q) /\ (Appends(q) \/ ~Writes(q))

\* The system refuses: no such name, a name that exists, a directory to write.
Denied(q, n) ==
    \/ Invalid(q)
    \/ ~Exists(n) /\ ~Creates(q)
    \/ Exists(n) /\ CreateNew(q)
    \/ Exists(n) /\ kind[node[n]] = "dir" /\ (Writes(q) \/ Appends(q))

OpenFails(q, n) ==
    /\ Refused(q) \/ Denied(q, n)
    /\ Call("open", 0, "Err")
    /\ UNCHANGED <<directory, kind, size, fds>>

Descriptor(q, x) == [node |-> x, access |-> q.r, writable |-> Writes(q) \/ Appends(q),
                     append |-> Appends(q), pos |-> 0]

\* The file is there, empty if it is new or truncated: it gets a descriptor unless
\* a directory was asked for, or NONBLOCK cannot be set.
OpenFile(q, n) ==
    /\ ~Refused(q) /\ ~Denied(q, n)
    /\ IF Exists(n) THEN kind[node[n]] = "file" ELSE TRUE
    /\ \E x \in Nodes :
          /\ IF Exists(n)
             THEN x = node[n] /\ UNCHANGED <<directory, kind>>
             ELSE Fresh(x) /\ Enter(n, x) /\ kind' = [kind EXCEPT ![x] = "file"]
          /\ size' = IF Exists(n) /\ ~Truncates(q) THEN size ELSE [size EXCEPT ![x] = 0]
          /\ \/ "DIRECTORY" \in q.o /\ Call("open", 0, "Err") /\ UNCHANGED fds
             \/ "NONBLOCK" \in q.f /\ Call("open", 0, "NonBlock") /\ UNCHANGED fds
             \/ /\ "DIRECTORY" \notin q.o
                /\ \E f \in Fds : /\ ~Open(f)
                                  /\ fds' = [fds EXCEPT ![f] = Descriptor(q, x)]
                                  /\ Call("open", f, "Ok")

\* A directory: its descriptor is used for nothing here.
OpenDir(q, n) ==
    /\ ~Refused(q) /\ ~Denied(q, n)
    /\ Exists(n) /\ kind[node[n]] = "dir"
    /\ Call("open", 0, "Ok")
    /\ UNCHANGED <<directory, kind, size, fds>>

PathOpen == \E q \in Requests, n \in Names : OpenFails(q, n) \/ OpenFile(q, n) \/ OpenDir(q, n)

Close(f) ==
    /\ Open(f)
    /\ fds' = [fds EXCEPT ![f] = NoDescriptor]
    /\ Call("other", f, "Ok")
    /\ UNCHANGED <<directory, kind, size>>

-----------------------------------------------------------------------------
(* Reading and writing. *)

\* fd_read and fd_pread give what the first buffer that is used can take; at the
\* offset of a pread the position stays.
Read(f, n, at) ==
    /\ Open(f)
    /\ IF "READ" \in fds[f].access
       THEN /\ Call("read", f, "Ok")
            /\ LET x == fds[f].node
                   left == IF fds[f].pos < size[x] THEN size[x] - fds[f].pos ELSE 0
               IN  fds' = IF at THEN fds ELSE [fds EXCEPT ![f].pos = @ + (IF n < left THEN n ELSE left)]
       ELSE Call("read", f, "Err") /\ UNCHANGED fds
    /\ UNCHANGED <<directory, kind, size>>

\* The access mode of the entry.
MayWrite(f) == "WRITE" \in fds[f].access

Larger(a, b) == IF a < b THEN b ELSE a

\* fd_write, at the end of the file for APPEND; and fd_pwrite at an offset.
WriteBytes(f, n, offset, at) ==
    /\ Open(f)
    /\ IF MayWrite(f)
       THEN LET x == fds[f].node
                from == IF fds[f].append THEN size[x] ELSE IF at THEN offset ELSE fds[f].pos
                to == IF n = 0 THEN size[x] ELSE Larger(size[x], from + n)
            IN  /\ to <= MaxSize
                /\ size' = [size EXCEPT ![x] = to]
                /\ fds' = IF at \/ n = 0 THEN fds ELSE [fds EXCEPT ![f].pos = from + n]
                /\ Call("write", f, "Ok")
       ELSE Call("write", f, "Err") /\ UNCHANGED <<size, fds>>
    /\ UNCHANGED <<directory, kind>>

\* fd_filestat_set_size does not ask for the access mode: the system refuses it
\* where the file was not opened for writing.
SetSize(f, n) ==
    /\ Open(f)
    /\ IF fds[f].writable
       THEN size' = [size EXCEPT ![fds[f].node] = n] /\ Call("resize", f, "Ok")
       ELSE UNCHANGED size /\ Call("resize", f, "Err")
    /\ UNCHANGED <<directory, kind, fds>>

\* fd_fdstat_set_flags changes what the system does, not the access mode; SYNC is
\* refused, and so is every flag in a guest with threads.
SetFlags(f, append) ==
    /\ Open(f)
    /\ \/ fds' = [fds EXCEPT ![f].append = append] /\ Call("other", f, "Ok")
       \/ UNCHANGED fds /\ Call("other", f, "Err")
    /\ UNCHANGED <<directory, kind, size>>

\* fd_seek: a negative position is refused, one behind the end is not.
Seek(f, p) ==
    /\ Open(f)
    /\ \/ fds' = [fds EXCEPT ![f].pos = p] /\ Call("other", f, "Ok")
       \/ UNCHANGED fds /\ Call("other", f, "Err")
    /\ UNCHANGED <<directory, kind, size>>

-----------------------------------------------------------------------------
(* The other path calls. *)

\* path_create_directory.
CreateDirectory(n) ==
    /\ IF Exists(n)
       THEN Call("path", 0, "Err") /\ UNCHANGED <<directory, kind>>
       ELSE \E x \in Nodes : /\ Fresh(x)
                             /\ Enter(n, x)
                             /\ kind' = [kind EXCEPT ![x] = "dir"]
                             /\ Call("path", 0, "Ok")
    /\ UNCHANGED <<size, fds>>

\* path_unlink_file and path_remove_directory: the file lives on under its other
\* names and its descriptors.
Delete(n, k) ==
    /\ IF Exists(n) /\ kind[node[n]] = k
       THEN Leave(n) /\ Call("path", 0, "Ok")
       ELSE UNCHANGED directory /\ Call("path", 0, "Err")
    /\ UNCHANGED <<kind, size, fds>>

\* path_link; to follow a symbolic link is refused.
Link(from, to, follow) ==
    /\ IF Exists(from) /\ kind[node[from]] = "file" /\ ~Exists(to) /\ ~follow
       THEN Enter(to, node[from]) /\ Call("path", 0, "Ok")
       ELSE UNCHANGED directory /\ Call("path", 0, "Err")
    /\ UNCHANGED <<kind, size, fds>>

\* path_rename: onto a name of the same kind, which it replaces, or a new one. Two
\* names of one file are left alone.
Rename(from, to) ==
    /\ from # to
    /\ IF ~Exists(from) \/ (Exists(to) /\ kind[node[to]] # kind[node[from]])
       THEN UNCHANGED directory /\ Call("path", 0, "Err")
       ELSE /\ Call("path", 0, "Ok")
            /\ IF node[from] = node[to]
               THEN UNCHANGED directory
               ELSE LET without == RemoveFirst(RemoveFirst(order, from), to)
                    IN  /\ \E i \in 1 .. Len(without) + 1 : order' = InsertAt(without, i, to)
                        /\ node' = [node EXCEPT ![to] = node[from], ![from] = NoNode]
                        /\ scan' = [scan EXCEPT !.kept = @ \ {from, to}, !.removed = TRUE, !.added = TRUE]
    /\ UNCHANGED <<kind, size, fds>>

-----------------------------------------------------------------------------
(* fd_readdir. *)

\* readdir: "." and ".." come first, and the cookie counts what is skipped.
Entries(cookie) == SubSeq(<<".", "..">> \o order, cookie + 1, Len(order) + 2)

\* Where each entry ends in the buffer, and how much of it they take.
EntryLen(n) == Header + NameLen[n]
Ends(names) ==
    LET end[k \in 0 .. Len(names)] == IF k = 0 THEN 0 ELSE end[k - 1] + EntryLen(names[k])
    IN  end
Bytes(names) == Ends(names)[Len(names)]

\* How many entries a buffer takes whole.
Fitting(names, len) ==
    CHOOSE k \in 0 .. Len(names) :
        /\ Ends(names)[k] <= len
        /\ k < Len(names) => Ends(names)[k + 1] > len

\* Mutation: what the whole entries take.
UsedWhole(names, len) == Ends(names)[Fitting(names, len)]

\* What fd_readdir returns: the buffer is full where an entry did not fit.
Used(names, len) == IF Bytes(names) <= len THEN Bytes(names) ELSE len

\* The guest takes the whole entries, remembers the cookie of the last one, and
\* takes a buffer that is not full for the end.
\* Where an entry is gone before its metadata is read, or has a name that is no
\* text, the whole call fails.
ReadDir(len) ==
    /\ ~scan.end
    /\ \/ /\ LET names == Entries(scan.cookie)
                 k == Fitting(names, len)
             IN  scan' = [scan EXCEPT !.got = @ \o SubSeq(names, 1, k), !.cookie = @ + k,
                                      !.end = Used(names, len) < len]
          /\ Call("readdir", 0, "Ok")
       \/ Call("readdir", 0, "Err") /\ UNCHANGED scan
    /\ UNCHANGED <<order, node, kind, size, fds>>

\* The guest begins to list the directory.
Rewind ==
    /\ Call("other", 0, "Ok")
    /\ scan' = NewScan(Present)
    /\ UNCHANGED <<order, node, kind, size, fds>>

-----------------------------------------------------------------------------
FdStep(f) ==
    \/ Close(f)
    \/ \E n \in 0 .. MaxSize, at \in BOOLEAN :
          \/ Read(f, n, at)
          \/ \E offset \in 0 .. MaxSize : WriteBytes(f, n, offset, at)
    \/ \E n \in 0 .. MaxSize : SetSize(f, n) \/ Seek(f, n)
    \/ \E append \in BOOLEAN : SetFlags(f, append)

PathStep(n) ==
    \/ CreateDirectory(n)
    \/ \E k \in {"file", "dir"} : Delete(n, k)
    \/ \E to \in Names : Rename(n, to) \/ \E follow \in BOOLEAN : Link(n, to, follow)

Next ==
    \/ PathOpen
    \/ \E f \in Fds : FdStep(f)
    \/ \E n \in Names : PathStep(n)
    \/ Rewind
    \/ \E len \in Buffers : ReadDir(len)

Spec == Init /\ [][Next]_vars

-----------------------------------------------------------------------------
(* Properties. *)

\* The types of the variables; the directory enumerates each of its names once.
TypeOK ==
    /\ order \in Seq(Names) /\ ToSet(order) = Present /\ Len(order) = Cardinality(Present)
    /\ node \in [Names -> Nodes \cup {NoNode}]
    /\ kind \in [Nodes -> {"none", "file", "dir"}]
    /\ size \in [Nodes -> 0 .. MaxSize]
    /\ fds \in [Fds -> Descriptors \cup {NoDescriptor}]
    /\ last \in Answers
    /\ scan \in Scans
    /\ calls \in 0 .. MaxCalls

\* A guest that lists the directory in several calls, with buffers of any size,
\* ends with every name that was there all the time, unless one was removed
\* meanwhile: the cookie counts entries, so later ones move up. It gets no name
\* twice, unless one was added.
ScanComplete ==
    /\ scan.end /\ ~scan.removed => scan.kept \subseteq ToSet(scan.got)
    /\ ~scan.added => \A i, j \in DOMAIN scan.got : scan.got[i] = scan.got[j] => i = j

\* A call that fails has changed no file and no name, except a path_open that
\* could not set NONBLOCK, whose file is created or truncated already. No other
\* call than an open, a write and a resize changes a file, and a write needs the
\* right to write, whatever the system would allow the descriptor.
FailureKeeps ==
    [][/\ last'.result = "Err" => UNCHANGED <<order, node, kind, size>>
       /\ size' # size /\ last'.op = "write" => "WRITE" \in fds[last'.fd].access
       /\ size' # size => last'.op \in {"open", "write", "resize"}]_vars

=============================================================================

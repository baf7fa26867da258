----------------------------- MODULE CgiDriver -----------------------------
(* The cgi driver, cgi_driver/mod.rs, process.rs and db.rs: the extensions  *)
(* in the root directory, a database of them, and handles of two kinds, a   *)
(* running extension or a listing of the directory.                         *)
(*                                                                          *)
(* A caller is a guest of the process. A listing reads the directory file   *)
(* by file; the database is behind a lock, and each statement commits by    *)
(* itself. Files change at any time. Restart is a new process over the same *)
(* directory and database.                                                  *)
EXTENDS DriverParameters, Integers, FiniteSets, Sequences

VARIABLES
    fs,         \* file -> content
    rows,       \* the table extension_meta
    db,         \* static DB: "none", "open", "poisoned"
    lock,       \* the holder of its mutex
    ctx,        \* get_ctx(): handle -> entry
    maxHandle,  \* MAX_HANDLE
    call,       \* caller -> the listing it is in
    made,       \* calls begun
    events,     \* changes of files and restarts so far
    verified,   \* history: file and alias of every answer to --ext_verify
    stale       \* history: listings whose rows are not those of the database

vars == <<fs, rows, db, lock, ctx, maxHandle, call, made, events,
          verified, stale>>

\* ExtensionMeta; what the file contains stands for its md5. A row adds the id.
Metas == [file : Files, alias : Aliases, md5 : Contents]
Meta(r) == [file |-> r.file, alias |-> r.alias, md5 |-> r.md5]

\* A listing has the rows it has loaded and not seen in the directory
\* (Invalid), those it has seen (Update), the files it has yet to read, the
\* new extensions in the order read, and what it will report.
Stages == {"idle", "scan", "save", "gone"}
Idle == [stage |-> "idle", invalid |-> {}, update |-> {}, left |-> {},
         new |-> <<>>, vals |-> {}, since |-> 0]
Gone == [Idle EXCEPT !.stage = "gone"]

\* CGICtx.
Process(file) == [kind |-> "process", file |-> file, vals |-> {}, pos |-> 0]
Listing(vals) == [kind |-> "list", file |-> "", vals |-> vals, pos |-> 0]

Init ==
    /\ fs \in [Files -> Contents \cup {NoContent}]
    /\ rows = {}
    /\ db = "none"
    /\ lock = Nobody
    /\ ctx = << >>
    /\ maxHandle = 0
    /\ call = [c \in Callers |-> Idle]
    /\ made = 0
    /\ events = 0
    /\ verified = {}
    /\ stale = {}

Put(h, e) == [x \in DOMAIN ctx \cup {h} |-> IF x = h THEN e ELSE ctx[x]]
Remove(h) == [x \in DOMAIN ctx \ {h} |-> ctx[x]]

\* Mutation: handles are counted for each kind.
NewHandleOfKind == 1 + Cardinality({h \in DOMAIN ctx : ctx[h].kind = "list"})

\* increase_handle: one counter for both kinds.
NewHandle == maxHandle + 1

\* A guest is in one call at a time.
Begin(c) ==
    /\ call[c] = Idle
    /\ made < MaxCalls
    /\ made' = made + 1

\* The variables that calls on handles leave alone.
directory == <<fs, rows, events, verified, stale>>

-----------------------------------------------------------------------------
(* get_db: the first caller opens the file it names. *)

\* The database is open, or the path is the database file.
Opens(isFile) == db = "open" \/ (db = "none" /\ isFile)

\* Opening the directory itself fails, and the unwrap panics in the lock; so
\* does every later lock().unwrap().
OpenPanic(c, isFile) ==
    /\ Begin(c)
    /\ lock = Nobody
    /\ ~Opens(isFile)
    /\ db' = "poisoned"
    /\ call' = [call EXCEPT ![c] = Gone]

\* list_extensions panics only where cgi_open has panicked before.
ListPanic(c) ==
    /\ OpenPanic(c, TRUE)
    /\ UNCHANGED <<lock, ctx, maxHandle, directory>>

\* command_and_exec has taken a handle by then.
CommandPanic(c) ==
    /\ OpenPanic(c, FALSE)
    /\ maxHandle' = NewHandle
    /\ UNCHANGED <<lock, ctx, directory>>

-----------------------------------------------------------------------------
(* cgi_directory_list_exec. *)

\* The map by file name keeps the last of several rows.
KnownRows == {r \in rows : \A s \in rows : s.file = r.file => s.id <= r.id}

OneRowPerFile == rows = KnownRows

\* list_extensions_from_db: every row is Invalid until its file is seen.
Load(c) ==
    /\ Begin(c)
    /\ lock = Nobody
    /\ Opens(TRUE)
    /\ db' = "open"
    /\ call' = [call EXCEPT ![c] = [Idle EXCEPT !.stage = "scan",
                   !.invalid = KnownRows, !.left = Files, !.since = events]]
    /\ stale' = IF OneRowPerFile THEN stale \ {c} ELSE stale \cup {c}
    /\ UNCHANGED <<fs, rows, lock, ctx, maxHandle, events, verified>>

\* The list ends with an error; what has been written stays.
ListFails(c) == call' = [call EXCEPT ![c] = Idle]

\* Reading one entry changes the listing only, and runs a file it does not know.
Scanning(c, f) ==
    /\ call[c].stage = "scan"
    /\ f \in call[c].left
    /\ UNCHANGED <<fs, rows, db, lock, ctx, maxHandle, made, events, stale>>

Rest(c, f) == [call[c] EXCEPT !.left = @ \ {f}]
RowOf(c, f) == {r \in call[c].invalid : r.file = f}

\* The file is not there; if it has gone since the directory was opened,
\* reading it may be an error.
ScanAbsent(c, f) ==
    /\ Scanning(c, f)
    /\ fs[f] = NoContent
    /\ \/ call' = [call EXCEPT ![c] = Rest(c, f)]
       \/ call[c].since < events /\ ListFails(c)
    /\ UNCHANGED verified

\* The file of a row: the row takes its md5, and keeps its alias.
ScanKnown(c, f) ==
    /\ Scanning(c, f)
    /\ fs[f] # NoContent
    /\ \E r \in RowOf(c, f) :
          LET seen == [r EXCEPT !.md5 = fs[f]]
          IN call' = [call EXCEPT ![c] =
                [Rest(c, f) EXCEPT !.invalid = @ \ {r}, !.update = @ \cup {seen},
                                   !.vals = @ \cup {Meta(seen)}]]
    /\ UNCHANGED verified

Unknown(c, f) == fs[f] # NoContent /\ RowOf(c, f) = {}

\* Mutation: an answer counts as that of an extension whatever is_cgi says.
IsExtensionAny(content) == Answer[content] # Bad

\* get_file_meta: only an answer with is_cgi and an alias makes an extension.
IsExtension(content) == Answer[content] \in Aliases

ScanExtension(c, f) ==
    /\ Scanning(c, f)
    /\ Unknown(c, f)
    /\ IsExtension(fs[f])
    /\ LET m == [file |-> f, alias |-> Answer[fs[f]], md5 |-> fs[f]]
       IN call' = [call EXCEPT ![c] =
             [Rest(c, f) EXCEPT !.new = Append(@, m), !.vals = @ \cup {m}]]
    /\ verified' = verified \cup {<<f, a>> : a \in Aliases \cap {Answer[fs[f]]}}

ScanOther(c, f) ==
    /\ Scanning(c, f)
    /\ Unknown(c, f)
    /\ Answer[fs[f]] = NotCgi
    /\ call' = [call EXCEPT ![c] = Rest(c, f)]
    /\ UNCHANGED verified

\* An executable that answers anything but JSON ends the whole listing.
ScanBad(c, f) ==
    /\ Scanning(c, f)
    /\ Unknown(c, f)
    /\ Answer[fs[f]] = Bad
    /\ ListFails(c)
    /\ UNCHANGED verified

\* get_db again, for save_extensions.
Lock(c) ==
    /\ call[c].stage = "scan"
    /\ call[c].left = {}
    /\ lock = Nobody
    /\ lock' = c
    /\ call' = [call EXCEPT ![c].stage = "save"]
    /\ UNCHANGED <<fs, rows, db, ctx, maxHandle, made, events, verified, stale>>

\* A statement is executed in a listing that saves.
Saving(c) ==
    /\ call[c].stage = "save"
    /\ stale' = stale \cup {d \in Callers \ {c} : call[d].stage = "scan"}
    /\ UNCHANGED <<fs, db, ctx, maxHandle, made, events, verified>>

\* The statement fails, and with it the listing.
SaveFails(c) ==
    /\ ListFails(c)
    /\ lock' = Nobody
    /\ UNCHANGED rows

\* The id that sqlite gives: one more than the greatest.
Ids == {0} \cup {r.id : r \in rows}
NewId == 1 + CHOOSE i \in Ids : \A j \in Ids : j <= i

\* insert_extension_meta; an alias is unique in the table.
Insert(c) ==
    /\ Saving(c)
    /\ call[c].new # <<>>
    /\ LET m == Head(call[c].new)
       IN IF \E r \in rows : r.alias = m.alias
          THEN SaveFails(c)
          ELSE /\ rows' = rows \cup
                     {[id |-> NewId, file |-> m.file, alias |-> m.alias, md5 |-> m.md5]}
               /\ call' = [call EXCEPT ![c].new = Tail(@)]
               /\ UNCHANGED lock

\* What save_extensions does after the new ones, in the order of a hash map.
AfterNew(c) == call[c].new = <<>>

\* update_extension_meta: the rows with this file name.
Update(c, m) ==
    /\ Saving(c)
    /\ AfterNew(c)
    /\ m \in call[c].update
    /\ LET mine == {r \in rows : r.file = m.file}
       IN IF Cardinality(mine) > 1 \/ (mine # {} /\ \E r \in rows \ mine : r.alias = m.alias)
          THEN SaveFails(c)
          ELSE /\ rows' = (rows \ mine) \cup
                     {[r EXCEPT !.alias = m.alias, !.md5 = m.md5] : r \in mine}
               /\ call' = [call EXCEPT ![c].update = @ \ {m}]
               /\ UNCHANGED lock

\* delete_extension_meta: the row with this id and file name.
Delete(c, m) ==
    /\ Saving(c)
    /\ AfterNew(c)
    /\ m \in call[c].invalid
    /\ rows' = {r \in rows : r.id # m.id \/ r.file # m.file}
    /\ call' = [call EXCEPT ![c].invalid = @ \ {m}]
    /\ UNCHANGED lock

\* Mutation: the rows of files that are gone are not deleted.
SavedEarly(c) ==
    /\ call[c].stage = "save"
    /\ call[c].new = <<>> /\ call[c].update = {}

Saved(c) ==
    /\ call[c].stage = "save"
    /\ call[c].new = <<>> /\ call[c].update = {} /\ call[c].invalid = {}

\* The listing goes under a handle.
ListDone(c) ==
    /\ Saved(c)
    /\ lock' = Nobody
    /\ maxHandle' = NewHandle
    /\ ctx' = Put(maxHandle', Listing(call[c].vals))
    /\ call' = [call EXCEPT ![c] = Idle]
    /\ UNCHANGED <<fs, rows, db, made, events, verified, stale>>

-----------------------------------------------------------------------------
(* Calls on handles, each without an await that matters to another caller. *)

\* cgi_open: the handle is taken first; the alias names the file to run.
CommandHandle(c) ==
    /\ Begin(c)
    /\ maxHandle' = NewHandle
    /\ UNCHANGED <<db, lock, call, directory>>

\* The parameter, the alias or the spawn is refused: the handle is not used.
CommandFails(c) ==
    /\ CommandHandle(c)
    /\ UNCHANGED ctx

Command(c, r) ==
    /\ lock = Nobody
    /\ Opens(FALSE)
    /\ r \in rows
    /\ fs[r.file] # NoContent
    /\ CommandHandle(c)
    /\ ctx' = Put(maxHandle', Process(r.file))

\* "[" and "]" around the listed metas: one unit more than there are metas.
Size(e) == Cardinality(e.vals) + 1

\* cgi_directory_list_read.
ListRead(c, h, n) ==
    /\ Begin(c)
    /\ h \in DOMAIN ctx
    /\ ctx[h].kind = "list"
    /\ LET remaining == Size(ctx[h]) - ctx[h].pos
           copyn == IF remaining < n THEN remaining ELSE n
       IN ctx' = Put(h, [ctx[h] EXCEPT !.pos = @ + copyn])
    /\ UNCHANGED <<db, lock, maxHandle, call, directory>>

\* It removes the entry before it looks at its kind: InvalidHandle, and the
\* process is dropped and killed.
ListReadProcess(c, h) ==
    /\ Begin(c)
    /\ h \in DOMAIN ctx
    /\ ctx[h].kind = "process"
    /\ ctx' = Remove(h)
    /\ UNCHANGED <<db, lock, maxHandle, call, directory>>

\* child_stdin_write, child_stdout_read, child_stderr_read.
ChildIO(c) ==
    /\ Begin(c)
    /\ UNCHANGED <<db, lock, ctx, maxHandle, call, directory>>

Close(c, h) ==
    /\ Begin(c)
    /\ h \in DOMAIN ctx
    /\ ctx' = Remove(h)
    /\ UNCHANGED <<db, lock, maxHandle, call, directory>>

-----------------------------------------------------------------------------
(* The surroundings. *)

Edit(f, content) ==
    /\ events < MaxEvents
    /\ fs[f] # content
    /\ fs' = [fs EXCEPT ![f] = content]
    /\ events' = events + 1
    /\ UNCHANGED <<rows, db, lock, ctx, maxHandle, call, made, verified, stale>>

\* The process ends, at any point, and another one is started.
Restart ==
    /\ events < MaxEvents
    /\ events' = events + 1
    /\ db' = "none"
    /\ lock' = Nobody
    /\ ctx' = << >>
    /\ maxHandle' = 0
    /\ call' = [c \in Callers |-> Idle]
    /\ stale' = {}
    /\ UNCHANGED <<fs, rows, made, verified>>

Handles == 1 .. MaxCalls

List(c) ==
    \/ ListPanic(c) \/ Load(c) \/ Lock(c) \/ Insert(c) \/ ListDone(c)
    \/ \E f \in Files : ScanAbsent(c, f) \/ ScanKnown(c, f) \/ ScanExtension(c, f)
                        \/ ScanOther(c, f) \/ ScanBad(c, f)
    \/ \E m \in call[c].update : Update(c, m)
    \/ \E m \in call[c].invalid : Delete(c, m)

Use(c) ==
    \/ CommandPanic(c) \/ CommandFails(c) \/ ChildIO(c)
    \/ \E r \in rows : Command(c, r)
    \/ \E h \in Handles : ListReadProcess(c, h) \/ Close(c, h)
                          \/ \E n \in Reads : ListRead(c, h, n)

Step(c) == List(c) \/ Use(c)

Next ==
    \/ \E c \in Callers : Step(c)
    \/ \E f \in Files, content \in Contents \cup {NoContent} : Edit(f, content)
    \/ Restart

Spec == Init /\ [][Next]_vars

-----------------------------------------------------------------------------
(* Properties. *)

Processes == {h \in DOMAIN ctx : ctx[h].kind = "process"}

\* The types of the variables; the lock is held by the listing that saves,
\* and a listing works only with an open database.
TypeOK ==
    /\ fs \in [Files -> Contents \cup {NoContent}]
    /\ \A r \in rows : Meta(r) \in Metas /\ r.id \in Nat \ {0}
    /\ db \in {"none", "open", "poisoned"}
    /\ lock \in Callers \cup {Nobody}
    /\ \A c \in Callers : call[c].stage = "save" <=> lock = c
    /\ \A c \in Callers : call[c].stage \in {"scan", "save"} => db = "open"
    /\ maxHandle \in 0 .. made
    /\ DOMAIN ctx \subseteq 1 .. maxHandle
    /\ \A h \in DOMAIN ctx : ctx[h].kind = "list" => ctx[h].pos \in 0 .. Size(ctx[h])

\* What has a row, what a listing reports and what runs are files that have
\* answered --ext_verify as extensions, under the alias they gave: over
\* listings that overlap, files that change and statements that fail.
VerifiedOnly ==
    /\ \A r \in rows : <<r.file, r.alias>> \in verified
    /\ \A h \in DOMAIN ctx : \A m \in ctx[h].vals : <<m.file, m.alias>> \in verified
    /\ \A h \in Processes : \E a \in Aliases : <<ctx[h].file, a>> \in verified

\* What a listing is about to report is what the database has, so that each
\* reported alias can be opened and no other: unless another listing has
\* written since it loaded the rows, or earlier overlapping listings had left
\* a file with two rows, of which it knows one.
ListingStored ==
    \A c \in Callers : Saved(c) /\ c \notin stale =>
        call[c].vals = {Meta(r) : r \in rows}

\* A running extension stays until its handle is closed or read as a
\* listing, or the process ends: no other call takes or reuses its handle.
ProcessKept ==
    [][\A h \in Processes :
          \/ h \in DOMAIN ctx' /\ ctx'[h] = ctx[h]
          \/ Restart
          \/ \E c \in Callers : Close(c, h) \/ ListReadProcess(c, h)]_vars

=============================================================================

# A TLA+ model of the Blockless runtime

The repository is `bls-runtime`: a host for WebAssembly guests, built on
wasmtime, with its own WASI implementation (`crates/wasi-common`), a linker for
library modules (`blockless`), drivers that give guests HTTP, LLM, CGI, IPFS and
S3 (`crates/blockless-drivers`), and a command line (`bls-runtime`). This
directory models the parts of it that keep state across calls and that several
actors touch, model-checks them with TLC on small instances, and proves the
properties that matter most for every instance with TLAPS.

`PROJECT.json` lists the components, the runs, the mutants that each property
must refute, the source lines of each definition, the findings and the hazards.

## 1. Inventory

| component | state | operations | what is hard |
|---|---|---|---|
| module linker (`blockless/src/modules.rs`) | `INS_CTX`: memory address -> module, name -> instance, `module::method` -> caller; one for the process, behind an async lock | link a library, publish its memory and its exports, `blockless.register`, `blockless.mcall` | guest code runs while the lock is held; entries of runs that have ended; five calls into the callee of which each may trap |
| descriptor table (`wasi-common/src/table.rs`, `snapshots/preview_1.rs`) | number -> resource, `next_key`; shared by the guest's threads | push, insert, check, get, delete, renumber; each WASI call is a sequence of them | a check and its use are two critical sections; numbers are reused; the counter wraps; full table |
| process lifecycle (`bls-runtime/src/main.rs`, `cli_clap.rs`, `error.rs`, `blockless/src/lib.rs`) | configuration, options, store with fuel, timer, guest threads, exit code | load, check, merge options, start timer, link, run, report | what is read before and after the merge; threads that end the process at any time; errors that become codes |
| llm driver (`llm_driver/`) | sessions under handles, one child server per session, conversations, the model file on disk | set model (download, start), options, prompt, read response (chat, tool, chat), close | awaits between reads and writes of a session; close under a read; resumed downloads; crashes |
| http driver (`http_driver/`) | handle -> response or stream, with the rest of a chunk | request, read header, read body, close | the stream is taken out of the map while it is awaited; a read spans chunks, a chunk spans reads |
| cgi driver (`cgi_driver/`) | handle -> process or directory listing; a database of extensions behind a lock | open, list, read, write, close | two kinds under one counter; overlapping listings that write the database statement by statement; files that change meanwhile; a panic in the lock |
| permissions, prompter (`blockless/permissions.rs`, `prompter.rs`) | per kind: granted, denied, whole-kind flags; who holds the container, stdin, stdout and stderr; the lines in the terminal and in std's buffer | check, clear the input, display, read an answer, grant | options and answers laid over each other; a question among the output of other threads; lines typed ahead; a terminal that goes away under four locks |
| poll_oneoff, schedulers (`preview_1.rs`, `sched/`, `sync/sched/`) | a call: subscriptions, deadlines, what is completed; on Windows a worker for stdin, two channels and `STDIN_POLL`, for the process | refuse, sleep, wait with poll(2) or for the worker, sleep again, report | deadlines finer than timeouts, signals, data that comes and goes while a thread waits, a lock held across a wait, answers to requests that were given up |
| files and directories (`sync/file.rs`, `sync/dir.rs`, `preview_1.rs`) | sizes, names, and per descriptor the position, the modes and the access it was opened for | open with every flag, read, write, resize, list | refusals after the system has opened the file; a listing over several calls while names come and go |
| ipfs and s3 drivers (`ipfs_driver/`, `s3_driver/`) | handle -> answer with a read point, or a raw connection | command, read, write, close | references into the map across awaits; answers that arrive in any pieces |
| configuration, CAR archives, multiaddr | none | parsing | input formats |
| tcp, memory, cdylib drivers, rpc | none | forwarding | peers |
| pipes, preview 0, glue | none of their own | conversions | - |

**How they interact.** `main` builds a configuration and calls `blockless_run`,
which makes a store, links the libraries and the entry module (module linker)
and runs the guest. Guest code calls the host: `register` and `mcall` go to the
registry, WASI calls and socket drivers to the descriptor table, driver calls to
process-wide maps of handles, `poll_oneoff` to the entries of its subscriptions.
With `--feature-thread` guest threads are threads of the host that share the
table and the maps. The tests, and programs that embed the crate, call
`blockless_run` several times in one process: registry and handle maps are
shared by these runs.

**What makes each of the modelled parts correct.** Linker: the lock protects a call
for as long as it borrows from the registry and no longer; no leak in the callee; a
truthful code; no library acts under the name of another one, unless it shares the
memory of that one. Table: one descriptor per resource, none lost, and a descriptor
that means the same thing at check and at use. Lifecycle: limits hold and the exit
code is the truth. LLM: a server lives as long as its users; a handle is one
session; a model file is whole, unless a peer misled the download. HTTP: readers get
the body in order and once, and a handle that is not closed is somewhere. CGI: only
what answered `--ext_verify` is listed or run; a listing reports what the database
has; no call ends another handle's process. Polls: of the events that a call reports
one has happened, no clock is early, and a call with a clock ends. Permissions: a
question stands until it is answered, by a line typed while it was displayed, or by
what a guest left of a line; over all checks, what was permitted is what options and
answers permit. Files: what fails changes nothing, and a listing misses nothing that
stayed. Answers: readers get the answer of their own request in order and once.

## 2. Modules

| module | models | extends |
|---|---|---|
| `ModuleLink` | the registry, its lock, linking, `register`, `mcall` | |
| `Descriptors` | the abstract table: close, renumber and open are atomic | |
| `FdTable` | the table method by method, the WASI calls made of them, guest threads, listeners | instantiates `Descriptors` |
| `RuntimeLifecycle` | one process from arguments to exit code | |
| `ModelFile` | the download of a model, the disk | |
| `LlmSession` | sessions, calls and servers of the llm driver; composes `ModelFile` | `ModelFile` |
| `HandleParameters` | the constants of every driver that gives handles | |
| `DriverParameters` | the constants of the next three | `HandleParameters` |
| `HttpDriver` | responses, streams and their readers | `DriverParameters` |
| `CgiDriver` | extensions, their database, listings, processes | `DriverParameters` |
| `Drivers` | both drivers in one process: a guest is in one call at a time | `HttpDriver`, instantiates `CgiDriver` |
| `PollOneoff` | one call of `poll_oneoff` per thread, both schedulers, the worker for stdin | |
| `Permissions` | the container of permissions, the prompter, the terminal and the standard streams | |
| `Files` | the calls on files and names, `fd_readdir` | |
| `AnswerDrivers` | the ipfs and the s3 driver: handles, answers, the raw connection of `files/write` | `HandleParameters` |
| `MC*` | values of the constants for TLC | the module of that name |
| `ModuleLinkProofs`, `FdTableProofs`, `RuntimeLifecycleProofs`, `LlmSessionProofs`, `PollOneoffProofs`, `PermissionsProofs`, `FilesProofs` | theorems | the module of that name, `TLAPS` |
| `DriversProofs` | theorems about `HttpDriver`, `Drivers` and `AnswerDrivers` | `Drivers`, `AnswerDrivers`, `TLAPS` |

### ModuleLink

A *run* is a call of `blockless_run`. `phase[r]` is where `instance_module` is
for the library `Plan[r][pos[r]]`: its start function (`start`), the two critical
sections that enter its memory (`publish`) and its exports (`inform`), its
`_initialize` (`init`); then the `entry`. `base` is the address at which an
instance has its memory, since that is the key of the registry: an address that is
free, or that of a library of the same run, since a module can import the memory of
an instance linked before it and export it again (`Imported`; modules.rs:501). Then
the entry of the registry has the name of the later library, and what the earlier
one registers is registered under that name. `exports` is
chosen in `Init`: files are arbitrary, and what `register` may accept depends on
it. A host call is a record `call[r]`; its stages are the awaits of `mcall_fn`
and `InstanceCaller::call`, so that another run can act between any two of them.
Guest code is arbitrary: it calls, returns, traps; a callee that makes a host
call sets `nested` and is stuck, because the lock it waits for belongs to its own
run. A panic (a pointer outside the memory, an instance of another store) drops
the guard with the run.

Every failure of the callee is a disjunct: each of the two `alloc`, the function,
each of the two `dealloc`. `owed` is the set of buffers not yet given back.

`Next` is the default engine, in which memories do not move; `NextMoving` adds
`GuestGrow` for the options that let them move. The theorems are about
`NextMoving` wherever they hold for it.

### FdTable

A method of `Table` takes the lock once, so it is one action; a WASI call is the
sequence of its methods: `fd_close` is `Contains`, `IsFileStep`, `IsDirStep`,
`Delete`. Calls that differ only in what they do to the file share an action:
`use` stands for all calls that fetch one entry of one kind, `stat` for those
that first ask for the kind. `setTimes` is separate since only it expects the
entry to be there. `seen` in a call is history: what was at its descriptor when
it began. `MaxFd` stands for `u32::MAX`; `Overflow` is the build: release wraps
`next_key`, debug panics.

### RuntimeLifecycle

The main thread goes through `stage`; the guest stages are the library modules,
the start function, `_initialize` and the entry function. `file`, `options` and
`config` are the configuration as read, the command line, and the merge of the
two. The timer of `wasm_runtime` is awaited before the guest starts, so it is a
stage (`asleep`). `ended` records who ended the run and why; `code` is the exit
code of the process. `waits` says that the guest is inside a host call, where
it executes nothing and burns no fuel. The parser of the command line ends the
process itself, with 2 or 0 (`ParserExits`). Guest threads can end the process at
any time, also while the main thread reports.

### ModelFile and LlmSession

A caller is a task in the process; the handles are process-wide. A call is cut at
its awaits. `server[p]` is the child process of provider `p`; `Dropped` is Rust's
reference counting: after each step a server without an owner, session or call,
is killed, which is what `llm_close` and `Drop` come to. A file is a length in
chunks and whether its bytes are a prefix of the model: a server that ignores
`Range` sends the beginning again behind what is there. HEAD announces any of the
sizes `Announced`, right or wrong, or none; the body of an answer is `framed`, and
then a cut is an error, or ends where the peer closes the connection, and then a
cut is the end. The code renames the file in either case. `misled` is history: the
last download to end trusted a wrong size or an answer that had been cut. Only the
disk outlives `Crash`; `misled` speaks of the disk and does too.

### HttpDriver, CgiDriver and Drivers

A caller is a guest, and the tasks of guests interleave where the code awaits;
what lies between two awaits is one action. The bytes of a body are numbered in
the order of the peer, so `given[h]`, what the readers of `h` have got, says
which bytes they got and in which order. A read that needs a chunk takes the
entry out of `ctx` and holds it in its call (`next`) until the chunk comes, the
stream ends or it fails.

A listing of `CgiDriver` loads the rows (`Load`), reads the directory file by
file (`Scan...`), takes the lock again (`Lock`) and executes one statement per
action, each committed by itself: the code opens no transaction. Two listings can
be between `Load` and `Lock` at once and insert the same extension twice, which
UNIQUE refuses. `Edit` changes a file at any time; `Restart` is a new process over
the same directory and database. What a file contains stands for its md5.

### PollOneoff

`call[t].stage` is where a thread is: `enter` is the head of the scheduler's
loop, `poll` is inside poll(2); `lock`, `recv` (the guard of `STDIN_POLL` is
held), `immediate` and `again` are the Windows scheduler before the worker is
asked, while its answer is awaited, at the other files, and in the last sleep;
`results` has returned to `poll_oneoff`. Deadlines are counted in ticks and
timeouts of poll(2) in milliseconds of `TicksPerMs` ticks, since the rounding
between them is where the code could go wrong. `build` chooses the scheduler.
`Happens` and `Consumes` are the world and the other threads: data arrives and
is read away while a thread waits. `seen` is history: which subscriptions of a
call have had an event since it began.

### Permissions

`perms[k]` is the `UnaryPermission` of a kind after `Options`
(`Permissions::from_options`) and `SetConfig` (`set_permissions_config`). A check
decides under the lock of the container and keeps it while it prompts: `prompt`
waits for the terminal's answer whether it is one, `screen` and `stdin` for the
locks, `clear` and `reclear` are `clear_stdin`, `ask` waits for a line, `answered`
has one. On a terminal that has gone, clearing the input is denied (`ClearFails`),
or what the prompter writes is a panic (`WriteFails`). A line carries the question
that was on the screen when it was typed, and whether a guest has read the beginning
of it; both are history. `stdin` tells where the guest's stdin comes from; the third
case, a file named in the configuration, starts a thread that holds the lock of the
real stdin, and the prompter is not told.

### Files

Each call makes one system call that changes files, so it is one action; others
act between two calls. Of a file its size is kept. `path_open` has every check in
its order: refusals before the system call, the system call with what it creates
and truncates, and what comes after. `scan` is a guest that lists the directory:
its cookie, what it got, and, as history, which names were there all the time.
The number of bytes that a buffer holds decides what is cut off.

### AnswerDrivers

A command waits for its whole answer and gets its handle afterwards, so commands
end in any order. The raw connection delivers tokens: a status line with its
headers, a chunk's size, halves of its data, an end of line, the last chunk.
`read_response` and `read_bulks` take them apart as they come, in pieces of any
number of tokens. A reference into the map that is held across an await while the
entry is closed is `Dangling`: the call fails or ends its guest. `ans` and `Answer`
mark the names that would meet those of `Drivers` where both are extended.

## 3. Runs

With two workers `Polls`, `Handles`, `Answers` and `LlmSessions` take two to three
minutes each, the others about a minute or less.

| run | instance | what it shows |
|---|---|---|
| `LinkRuns` | two runs, one with two libraries (complete, no `dealloc`, no memory), two methods, three host calls, fairness | buffers are returned, codes are true, a memory is known under the name of the last library of its run that was entered with it although entries of ended runs remain, every run ends unless one waits for itself |
| `FdOneThread` | six numbers, one directory, one listener with a number, all calls, wrapping counter | no alias, also when the table is full and the counter wraps; the table implements `Descriptors` |
| `FdTwoThreads` | two threads, seven numbers, no renumber, debug build | a descriptor means the same resource, or none, from check to use |
| `LifeRun` | all configurations with limits 1 and 2 or none, two guest threads, three kinds of trap, statuses 0, 7, 125, 126, host calls that return or not, fairness | true exit codes, one limit of instructions for all stages, guests with a limit end unless they wait in a host call for ever |
| `LifeTime` | the same | *violated:* the limit of the command line comes too late |
| `LlmSessions` | two callers, six calls, two servers, a model of two chunks, announced sizes 0 (none), 1 (wrong) and 2, bodies that are framed or not, one crash, fairness | lifetime of servers, identity of sessions, order of conversations, model files that are whole unless a wrong size or a cut body misled the download, chunks are kept, calls end |
| `Handles` | two guests, three calls of either driver; a body of three bytes, buffers of 0 to 2; two files that are an extension (two aliases), not one, or broken; two changes of files or restarts; symmetry of guests and of files | no response is lost, bodies are read in order and once, short reads are last; only verified extensions are stored, listed and run, listings agree with the database, a process ends by its own handle only |
| `Polls` | two threads, two calls, both schedulers; stdin, a pipe that can hang up, a file that cannot be polled; eleven kinds of request against a reader of stdin; one signal, wake-ups up to one tick late, fairness | with poll(2) one of the reported events has happened since the call began, no clock is early, the timeout reaches the deadline, a call with a clock ends unless a reader without one holds the worker |
| `Prompts` | two threads, three checks or reads of stdin, two kinds, two items, two typed lines; three configurations; stdin of each origin; a terminal that is closed at any time, fairness | questions stand until they are answered, by a line typed for them or by what a guest left of a line; every success is permitted by options or answers and denied by neither; every check ends when the terminal is gone |
| `Scans` | two names of different length, one descriptor, nine combinations of flags and rights, buffers that hold nothing whole, one entry, an entry and a piece, or all; five calls; symmetry of files | listings over several calls are complete and without repetition; calls that fail change nothing; no call writes without the right |
| `Answers` | two guests, five calls (a command, two writes and two reads), answers of up to two bytes, buffers of one and three, pieces of any size; symmetry of guests | answers belong to their handles and are read in order and once; a raw read reports each accepted write once at most |
| `LlmCrash` | one caller, two calls, one crash | *violated:* a model that is never made executable |

**Bounds.** `MaxCalls` in `ModuleLink`: a caller needs a `register` and an `mcall`;
a third host call repeats one, or is that of the other run while the lock is held.
Two libraries make caller and callee differ; two runs meet at the lock. Two
addresses for at most three memories, so that libraries of a run share one, or have
one each, and a run reuses an address of a run that has ended. `MaxFd` is so small
that the table fills up and the counter wraps past stdio and the directory.
`MaxUsed` is one more than the largest limit, so exceeding it is visible. `MaxCalls`
in `LlmSession`: a caller needs four calls (model, options, prompt, read), and two
more let a second caller close the session and open another one under the read.
`MaxLen` is twice the model: one whole second copy. Of the announced sizes 1 is that
of a `.part` file with half of the model. `MaxCrashes = 1`: a second crash finds a
disk that the first could have left, or one that a resumed download could. `Length =
3` in `HttpDriver` with chunks and buffers of any length up to it: a chunk can span
two reads and a read two chunks; three calls are a request and two reads, or the
reads of two guests. `MaxEvents = 2` in `CgiDriver`: a file changes between two
steps of a listing, and changes back or meets a restart. `TicksPerMs = 2` is the
least number that makes rounding visible; `MaxPoll = 1` lets a timeout overflow and
a call without a clock reach the longest timeout; two calls in all are two threads
at once or a call after an earlier one has left a request with the worker; `MaxLate
= 1` wakes a thread before or after the next event. In `Permissions` two lines are
one that is typed ahead and one that answers; three calls are a read of stdin that
leaves the rest of a line, a check that meets it, and a check of the other thread.
`MaxCalls = 5` in `Files` is a change of the directory between two of three calls of
a listing, and an open with two calls after it; a size of 1 tells a file that was
touched from one that was not.

**Fairness.** `ModuleLink.FairSpec` is weak fairness of each run's step: tokio
polls a task that can proceed, its mutex is first-in first-out, and guest code
either runs on within its host calls or returns. Nothing makes a callee that
waits for itself proceed; `RunsEnd` says so. `RuntimeLifecycle.FairSpec` is weak
fairness of the host's steps, of executing an instruction outside a host call and
of running out of fuel. A guest need not return, and nothing makes a host call return (a
read of stdin, a poll without a clock, an `mcall` of itself), so `FuelEnds` excepts
a guest that waits for ever. `LlmSession.FairSpec` covers a call's own steps
only, the timeout of a chat included; a download or a tool server may leave a call
waiting for ever, since the code gives neither a timeout, and `CallsEnd` names
these stages. `PollOneoff.FairSpec`: threads of the operating system run, the worker
is one of them, and time passes; nothing makes data come, so `PollsEnd` speaks of
calls with a clock. `Permissions.Spec`: a thread inside a check or a read of stdin
goes on when it can, and the reader of a fixed stdin ends when the terminal does;
nothing is assumed of the user, so `HangUpEnds` speaks of a terminal that is gone.

**Deadlock.** No run checks it: a process exits, a run ends, the bounded calls
are used up. Where calls of the code wait for each other or for themselves, a
property says so: a callee that makes a host call waits for its own run (first
disjunct of `RunsEnd`), and a thread that reads stdin without a clock keeps
`STDIN_POLL` from the others (last disjunct of `PollsEnd`).

**Mutants.** Every property of a passing run has an operator (`Mutation:` in the
modules) that changes a mapped definition as a slip in the code would: a dropped
guard, a forgotten buffer, a counter that does not advance, a handle that is
reused. Under it TLC finds the property violated.

## 4. Findings

Two are runs with one property each, quoted from the repository.

1. `LifeTime`: `--run-time` is put into the configuration after `run_time` has
   been read (main.rs:164), against docs/user.md:47. A limit in the file has the
   opposite effect: the timer is awaited before the app starts, so the app never
   runs and the process ends with 15.
2. `LlmCrash`: the model is renamed before it is made executable
   (llamafile.rs:355, 371); after a crash between the two no call repairs it.

Seen while modelling, without a run of its own:

- "we must consume everything in stdin so that previously buffered data cannot
  affect the prompt" (prompter.rs:272-273) is not what happens: `clear_stdin` flushes
  the queue of the terminal, and `read_line` (prompter.rs:341) reads from the buffer of
  std's stdin first. What a guest has left there of a line answers the next question.
  `AnswerFresh` excepts this case and says what remains true: nothing from the queue
  does.
- docs/user.md:193 says of the flags `--deny-*` that they disallow what is listed;
  beside `--allow-all` a list has no effect (permissions.rs:64-69). `OptionsDeny`,
  which `AllowedTruth` uses, follows the code.
- `download_model` "verifies file size" (llamafile.rs:197); a difference is logged
  and the file renamed (llamafile.rs:342-357). A body that ends with its connection,
  or an announced size that is that of the `.part` file (llamafile.rs:265), puts a
  short file at `model_path`, which no later call repairs. `CompleteModel` excepts
  the downloads that were misled so.
- Exit code 2 is a stack overflow of the guest or a mistake in the command line, and 0 a
  return or `--help`: the parser ends the process itself (main.rs:219), before
  main.rs:238-240 could give 255. `ExitTruth` lists both.
- A library that exports the memory of an earlier one replaces it in the registry
  (modules.rs:475-479), so the earlier one registers its methods under the other's name.
  `LibraryFound` says which name a memory has.
- `path_open` sets NONBLOCK after it has opened the file: where that fails, the call
  fails, and the file has been created or truncated (sync/dir.rs:97-99).
  `FailureKeeps` excepts it.
- `fd_filestat_set_times` expects "checked that entry is file"
  (preview_1.rs:322) across two critical sections; the action that models it has
  the panic.
- `--tcplisten A::3 --tcplisten B` gives both the number 3, and B replaces A
  (lib.rs:171-185), against docs/user.md:61.
- `into_config` sets `limited_fuel` to what the command line says even if it says
  nothing (cli_clap.rs:431), against README.md:165: the limit of the file is lost.
- The prompter panics with "stdin is not inherited" where it must not ask
  (prompter.rs:258), but a stdin fixed by the configuration file
  (bls-runtime/src/config.rs:219-232) does not tell it. The thread that reads the
  real stdin (main.rs:201-215) holds the lock of std's stdin, and the prompter,
  which already holds stdout and stderr, waits without having shown a question
  until the terminal ends.
- A second write on a raw ipfs connection before the answer to the first is read
  may find the rest of that answer where it expects a status line; a chunk that
  has no data yet is read into an empty vector, and `split_to` panics
  (http_raw.rs:154-162); at the end of the connection the read loops for ever
  (http_raw.rs:138).
- A file opened with the right to read and CREATE can be resized:
  `fd_filestat_set_size` does not ask for the access mode, and the system has the
  file open for writing.
- `mcall_fn` holds `INS_CTX` while guest code of the callee runs
  (modules.rs:310-318), where `instance_module` takes care not to
  (modules.rs:509). A callee that calls `mcall` or `register` never returns;
  `RunsEnd` excepts it.
- With poll(2), when one file is ready every file subscription of the call is
  reported, those without an event too (unix.rs:53-71), against "The events that
  have occurred." (preview1/witx/wasi_snapshot_preview1.witx:432).
- A call without a clock ends with a panic, "timed out" (unix.rs:75), after the
  longest timeout of poll(2), 24 days.
- On Windows, one answer to an earlier request is thrown away, never two
  (windows.rs:163): with three calls an old answer is reported for a stdin that
  has no data. A wait for stdin that has taken its whole timeout is followed by
  a sleep of the same length (windows.rs:114-118).

## 5. Proofs

From the named assumptions of each module (`LinkAssumption`, `TableAssumption`,
`LifeAssumption`, `FileAssumption`, `SessionAssumption`, `HandleAssumption`,
`CgiAssumption`, `PollAssumption`, `PermissionsAssumption`, `FilesAssumption`) only:
sentinels are not values, a plan names a library once, numbers fit, a resource is
granted once, a millisecond has at least one tick, a directory has finitely many names.

**ModuleLinkProofs.** `TypeInv` strengthens `TypeOK` by what a phase says of the
rest (`LinkShape`). On top of it: `LockDiscipline` is inductive as it stands, with
one lemma per group of actions that says how the step may touch lock and stage.
`NoBufferLeak` and `TrueOutcome` follow from `CallInv`, which says stage by stage
what is allocated, freed and found out, because at `idle` alone nothing is left to
argue from. `CompleteCallers` uses that only `register` writes `callers`, and only
with `Accepted` methods. `FrozenRegistry` combines the lock with the guards of the
writers. `FoundLibraries` needs that an address is shared only within one run
(`Apart`), and that a library which is not linked yet has no memory (`Unlinked`), so
that a later one overwrites an earlier one and never the reverse. It holds for
`Spec`, and is the one theorem that fails where memories move.

**FdTableProofs.** `NoAliasing` needs to know what is about to be pushed
(`PushInv`: it is in no entry and in no other call) and what the listeners bring
(`SetupInv`). `KeptEntries` is an action property from the same invariant.
`EntryChecked` and `TableAtomic` assume one guest thread: `SoleInv` says that what a
check found still holds, and then each step is a step of `Descriptors` or a
stutter. `StableDescriptors` assumes that the guest does not renumber and that
`next_key` panics before it wraps: every number from `next_key` on is free, so none
is given twice.

**RuntimeLifecycleProofs.** `TrueExit` carries an invariant that ties `ended` to the
stage, and a code of the parser to the stage before anything was loaded;
`BoundedFuel` one that says `used + fuel` does not exceed the limit.

**DriversProofs, the http driver.** The invariant is `TypeOK`, `HandleKept`,
`BodyInOrder` and `ShortIsLast` together with `CallShape`, what an idle call and a
call that waits for a response hold. Two lemmas on sequences carry it: what fits
into the buffer and the rest make up the piece (`TakenRest`), and the next chunk
continues what has arrived (`ChunkJoin`). The length of the body, the chunks and the
buffers are arbitrary.

**DriversProofs, http and cgi together.** The invariant of `HttpDriver` is used as
it stands, since calls are counted together. For the cgi driver, `ListingStored`
speaks of a listing at its last statement only; what leads there is `Listed`: of a
listing that is not stale, each row of the table is one that it will delete, one
that it will update or one that it reports, and each extension that it reports has a
row or will get one. `Listed` survives each statement because ids are unique
(`RowsSound`) and the next one is above all of them (`NewIds`, from well-foundedness
of the naturals), and because a listing that writes makes all others stale.
`VerifiedOnly` needs the same of the rows and metas that a listing has in hand
(`WorkVerified`). A listing takes its handle when it ends, so the bound on handles
counts the listings in progress (`HandlesLeft`). `ProcessKept` rests on it: the next
handle is in nobody's hands.

**DriversProofs, the ipfs and the s3 driver.** `AnsHeld` is `BytesInOrder` for each
entry, together with what a handle is used for: its request is the one it was
given for, and what its readers have got are the bytes up to its `point`.
`OkOnce` compares two counters, and an Ok is counted long after the daemon has
accepted the write; `Accounted` therefore says where each answer 200 is in between:
on the wire of the connection (`Unread`), with a call that has read its head
(`Takers`), or reported. An answer may be lost, never doubled. `CountGrows` and
`CountDrops` say what appending an answer and reading a piece, cut anywhere, do to
the answers on a wire; `FirstLineIs`, that the line a call takes for the status is
not an empty one, and that where there is none all of the buffer is empty lines, which
hold no answer.

**FilesProofs.** `Listed`: the order in which the system enumerates the directory
has each name in it once, through names that come at any place, leave, and are moved
onto others (`InsertIs`, `RemoveIs`). `Scanned` is the invariant of a listing, and
is needed because `ScanComplete` speaks of its end only: the cookie is the number of
entries the guest has got; as long as no name is removed, a name that was there from
the beginning and stands before the cookie has been got, since names that come can
only push later ones towards the end; as long as none is added, what stands behind
the cookie has not been got, since names that leave can only draw entries towards
the beginning. `TookIs` says what one call of `fd_readdir` gives: entries from the
cookie on, and all of them where the buffer is not full. Where entries end in the
buffer is a recursive function; that it has a value at all (`EndsAre`) and grows
(`EndsGrow`) is shown by taking a least counterexample, with the well-foundedness of
the naturals. `FailuresKeep` needs no invariant: it is shown of each step
(`FailedStep`).

**PollOneoffProofs.** `Sound` says what each stage of a call implies:
`WaitSound`, that every wait with a clock reaches its earliest deadline;
`AskSound`, that whoever goes on without a clock has a file to report;
`ReportSound`, what the results rest on; `SeenSound`, that the history is
complete. The arithmetic is in two lemmas: the earliest deadline exists and is
that of a subscription (`EarliestOfClocks`, from well-foundedness of the
naturals), and the rounded timeout reaches it (`TimeoutReaches`). `Sound`
survives the passing of time and the consumption of data (`SoundLater`) and new
events (`SoundSeen`), so each step needs an argument for one call only
(`MoveKeeps`).

**LlmSessionProofs.** For the files: while a download is under way it is the only
one (`OneDownload`), each stage of it says what the disk has (`Progress`; at
`rename`, that the `.part` file is whole or `misled` is true), and `PartSound` and
`ModelSound` say when a prefix is one. `CompleteModel` and the action property
`PartKept` follow. For the sessions: a call that waits has the provider that its
handle had (`HoldsProvider`), every handle in use has been given (`HandlesGiven`),
and handles are left for the calls that are left (`HandlesLeft`, by counting the
calls in progress), so that none is given twice. Each step of one call is summarised
as `Moves`, what it may do to each session, and the properties are shown to survive
`Moves` once.

**PermissionsProofs.** `LockInv` says by stage who holds the container, the screen
and stdin, so one prompter is at a question at a time (`OnePrompter`). `LineInv`:
at `ask` every line in the queue was typed for the question that is displayed,
since the queue was cleared under it, and the buffer has at most the rest of a line
that a guest began. `GrantInv` ties the container to the options and to the
answers so far, an answer that has been read and not yet entered being pending;
the decision of a check is then the truth of `AllowedTruth`. `NoCircle` is the
safety half of `HangUpEnds`: every thread that waits for a lock is behind its holder
in one order of the stages (`Far`), so threads never wait for each other in a circle.

**Only model-checked.** Liveness (`RunsEnd`, `FuelEnds`, `CallsEnd`, `PollsEnd`,
`HangUpEnds`) is out of the prover's reach. Every invariant and every other action
property of the passing runs is stated by a theorem. Three theorems have hypotheses
the runs share: `LibraryFound` (memories do not move), `AtomicTable` (one guest
thread) and `DescriptorStable` (no renumber, `next_key` does not wrap).

Theorems without a run of their own, being steps of the argument or consequences
that a run would only repeat: `LockDiscipline`, `CompleteCallers`,
`FrozenRegistry`, `KeptEntries`, `EntryChecked`, `SomeEventAlways`, the types of
`RuntimeLifecycle`, `HttpDriver` and `AnswerDrivers`, `NoCircle`.

## 6. What is left out

JSON, wording, logging and the bytes of buffers everywhere. As steps of the
table, `path_link` and `path_rename` (two descriptors; what they do is in
`Files`), `fd_fdstat_set_flags` (takes the table mutably, fails once it is
shared). The v86 runtime. Two downloads of one model at once
(they share the `.part` file). The port of the llm servers: each is started
without arguments and every chat goes to 8080, so two sessions at a time talk to
one server. Servers that outlive a killed process. Library modules together with
guest threads: their linker cannot be instantiated in advance, so the thread
support panics. Of the drivers: the http driver in a dynamic library; buffers of
a guest outside its memory; host threads that race for a map or for `MAX_HANDLE`
(the model interleaves tasks at awaits); errors of sqlite other than UNIQUE; an
extension that states an md5 of its own, and a file that changes between its md5
and its `--ext_verify`; what goes through the pipes of a process (`ChildIO` is one
step: the reads and writes of process.rs:100-149 are awaited with a mutable reference
into the static map, cgi_driver/mod.rs:81-106, and a close by another guest in between
frees what it refers to; no property depends on it). Of polls: the
tokio scheduler, which the runtime does not use; numbers of ready bytes; errors
of poll(2) other than EINTR.

Of permissions: the decisions of the external crate `bls_permissions` beyond what
the container and the checks use, the comparison of paths and urls, `request_*`
and `revoke_*` (`request_write` calls `revoke_write`, permissions.rs:372-375), the
Windows `clear_stdin`. Modelled as the code has them: a list of `--deny` has no
effect beside `--allow-all` (permissions.rs:64-69); `path_open` asks for `read`
only. Of files: symbolic links, times, allocate and advise, several directories,
pipes; a directory entry that vanishes while it is read, or is not UTF-8, makes
`fd_readdir` fail; a guest whose memory is shared reads into its first buffer
only; a full table is `FdTable`'s. Of the ipfs and s3 drivers: which command or
bucket operation gives which request and what it stores, the bytes of a raw
answer (the code throws them away), data that looks like the size of a chunk, the
growth of the map under a reference that is held across an await (it has no
outcome that could be enumerated); the head of a raw answer arrives in at most
nine pieces.

The components marked `not_modelled` in `PROJECT.json`: the parsing of
configurations, archives and addresses, conversions, generated code, and calls
that are forwarded as they are.

## 7. Plan

In this order; each step keeps the number of runs by putting the properties of a
new component into one passing run, and merges or drops older runs where needed.

1. `FdTable`: `path_rename` and `path_link`.
2. Concurrent downloads of one model in `ModelFile`.
3. Pure parts as operators against reference definitions: entry rules of the
   configuration, `parse_listen`, multiaddr.

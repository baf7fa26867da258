-------------------------- MODULE RuntimeLifecycle --------------------------
(***************************************************************************)
(* One process of bls-runtime, from its arguments to its exit code: main   *)
(* and wasm_runtime (bls-runtime/src/main.rs), the options laid over the   *)
(* configuration (cli_clap.rs), the run of the guest (blockless/src/       *)
(* lib.rs) and the code that says how it ended (error.rs).                 *)
(*                                                                         *)
(* An async fn that is awaited where it is called is a sequence of stages. *)
(* Guest threads run beside the main one.  Time and instructions are       *)
(* counted as far as the limits need.                                      *)
(***************************************************************************)
EXTENDS Integers

CONSTANTS
    Threads,    \* the threads wasi_thread_spawn can start
    Fuels,      \* instructions a limit can allow
    Times,      \* times a limit can allow
    None,       \* no limit, no code
    Statuses,   \* what the guest passes to proc_exit
    Traps,      \* the traps it meets, by the names of wasmtime::Trap
    MaxUsed,    \* bound: instructions counted
    MaxTime     \* bound: time counted

ASSUME LifeAssumption ==
    /\ Fuels \subseteq Nat /\ Times \subseteq Nat \ {0} /\ Statuses \subseteq Nat
    /\ None \notin Int
    /\ "OutOfFuel" \in Traps
    /\ MaxUsed \in Nat /\ MaxTime \in Nat

VARIABLES
    file,       \* the configuration, as the file gives it
    options,    \* the command line
    config,     \* the configuration
    limit,      \* run_time of wasm_runtime
    stage,      \* where the main thread is
    target,     \* BlsRunTarget: "none", "core" or "component"
    fuel,       \* the fuel of the main thread's store
    used,       \* the instructions it has run
    waits,      \* it is in a host call
    now,        \* the time that has passed since the options were read
    threads,    \* the guest threads that run
    ended,      \* what ended the run: by whom, why, with which trap or status
    code        \* the exit code of the process

vars == <<file, options, config, limit, stage, target, fuel, used, waits, now, threads, ended, code>>

-----------------------------------------------------------------------------

Limits(S) == S \cup {None}
Config == [fuel : Limits(Fuels), runTime : Limits(Times), version : {0, 1}, thread : BOOLEAN]
Options == [fuel : Limits(Fuels), runTime : Limits(Times), modules : BOOLEAN, thread : BOOLEAN]

HostStages == {"load", "logger", "options", "timer", "asleep", "engine", "link", "threads", "report",
               "exited"}
\* The stages in which the main thread runs guest code.
GuestStages == {"libraries", "start", "initialize", "entry"}

Ends == [by : {"none", "parser", "host", "timer", "main", "thread"},
         why : {"none", "usage", "help", "arguments", "checksum", "panic", "timeout", "return", "trap", "exit",
                "memory", "error"},
         trap : Traps \cup {"none"}, status : Nat]

TypeOK ==
    /\ file \in Config /\ config \in Config /\ options \in Options
    /\ limit \in Limits(Times)
    /\ stage \in HostStages \cup GuestStages
    /\ target \in {"none", "core", "component"}
    /\ fuel \in Limits(Nat)
    /\ used \in 0 .. MaxUsed /\ waits \in BOOLEAN /\ now \in 0 .. MaxTime
    /\ threads \subseteq Threads
    /\ ended \in Ends
    /\ code \in 0 .. 255 \cup {None}

End(by, why, trap, status) == [by |-> by, why |-> why, trap |-> trap, status |-> status]

\* A wasm file is a configuration without limits.
Init ==
    /\ file \in Config /\ file.thread = FALSE
    /\ options \in Options
    /\ config = file
    /\ limit = None
    /\ stage = "load" /\ target = "none"
    /\ fuel = None /\ used = 0 /\ waits = FALSE /\ now = 0
    /\ threads = {}
    /\ ended = End("none", "none", "none", 0)
    /\ code = None

-----------------------------------------------------------------------------
\* Exit codes

\* The arms of error_process that name a trap.
TrapCode ==
    [OutOfFuel |-> 1, StackOverflow |-> 2, MemoryOutOfBounds |-> 3, HeapMisaligned |-> 4,
     TableOutOfBounds |-> 5, IndirectCallToNull |-> 6, BadSignature |-> 7, IntegerOverflow |-> 8,
     IntegerDivisionByZero |-> 9, BadConversionToInteger |-> 10, UnreachableCodeReached |-> 11,
     Interrupt |-> 12, AlwaysTrapAdapter |-> 13]

\* Mutation: an error that has no code of its own counts as a trap.
ErrorCodeOne(e) ==
    CASE e.why = "return" -> 0
      [] e.why = "trap" /\ e.trap \in DOMAIN TrapCode -> TrapCode[e.trap]
      [] e.why = "memory" -> 16
      [] OTHER -> 1

\* The code of ExitStatus: error_process, and 0 where there is no error.
ErrorCode(e) ==
    CASE e.why = "return" -> 0
      [] e.why = "trap" /\ e.trap \in DOMAIN TrapCode -> TrapCode[e.trap]
      [] e.why = "memory" -> 16
      [] OTHER -> -1

\* From an i32 to CliExitCode, and from there to the exit code.
CliExitCode(c) == IF c \in 0 .. 13 \cup {15, 16, 128} THEN c ELSE 255

\* What a spawned thread exits with (wasmtime-wasi-threads, which calls
\* maybe_exit_on_error).
ThreadCode(e) ==
    CASE e.why = "exit" -> e.status
      [] e.why = "trap" -> 134
      [] OTHER -> 1

-----------------------------------------------------------------------------
\* The main thread, outside the guest

\* The main thread moves on.
To(s) ==
    /\ stage' = s
    /\ UNCHANGED <<ended, code>>

Exit(c, e) ==
    /\ stage' = "exited" /\ code' = c /\ ended' = e

\* unwrap in wasm_runtime, or a panic before it returns, unwinds main.
Panic == Exit(101, End("host", "panic", "none", 0))

configs == <<file, options, config, limit>>
guest == <<target, fuel, used, waits, threads>>

\* parse_args: the parser ends the process itself, where the command line is wrong
\* or asks for the help or the version.
ParserExits ==
    \/ Exit(2, End("parser", "usage", "none", 0))
    \/ Exit(0, End("parser", "help", "none", 0))

\* parse_args, load_cli_config and check_module_sum.  A configuration without an
\* entry or of an unknown version is a panic.
Load ==
    /\ stage = "load"
    /\ \/ To("logger")
       \/ ParserExits
       \/ Panic
       \/ Exit(255, End("host", "arguments", "none", 0))
       \/ Exit(128, End("host", "checksum", "none", 0))
    /\ UNCHANGED <<configs, guest, now>>

LoggerInit ==
    /\ stage = "logger"
    /\ To("options") \/ Exit(255, End("host", "arguments", "none", 0))
    /\ UNCHANGED <<configs, guest, now>>

\* into_config: what it sets, it sets whether or not the option was given.
Merged ==
    [fuel |-> options.fuel, runTime |-> options.runTime,
     version |-> IF options.modules THEN 1 ELSE config.version, thread |-> options.thread]

\* The run time is read, then the options are laid over the configuration; an
\* env file that cannot be read is an unwrap.  Standard input is waited for.
ReadOptions ==
    /\ stage = "options"
    /\ limit' = config.runTime
    /\ \/ To("timer") /\ config' = Merged
       \/ Panic /\ UNCHANGED config
    /\ UNCHANGED <<file, options, guest, now>>

\* The task that sleeps and exits is awaited.
StartTimer ==
    /\ stage = "timer"
    /\ To(IF limit = None THEN "engine" ELSE "asleep")
    /\ UNCHANGED <<configs, guest, now>>

TimerExpires ==
    /\ stage = "asleep" /\ now = limit
    /\ Exit(15, End("timer", "timeout", "none", 0))
    /\ UNCHANGED <<configs, guest, now>>

\* Mutation: the store is given the fuel of the file.
StoreFuelOfFile == file.fuel

StoreFuel == config.fuel

\* Drivers, engine and store.
MakeStore ==
    /\ stage = "engine"
    /\ \/ To(IF config.version = 1 THEN "libraries" ELSE "link") /\ fuel' = StoreFuel
       \/ Panic /\ UNCHANGED fuel
    /\ UNCHANGED <<configs, target, used, waits, threads, now>>

\* load_module, for the older configurations.
LoadModule ==
    /\ stage = "link"
    /\ \/ To("threads") /\ target' \in {"core", "component"}
       \/ Panic /\ UNCHANGED target
    /\ UNCHANGED <<configs, fuel, used, waits, threads, now>>

\* nn_setup, the linker and its thread support, which wants a core module.
Prepare ==
    /\ stage = "threads"
    /\ \/ To("start") /\ (config.thread => target = "core")
       \/ Panic
    /\ UNCHANGED <<configs, guest, now>>

\* error_process exits at once with the status of proc_exit; everything else is
\* the code of wasm_runtime.
Report ==
    /\ stage = "report"
    /\ Exit(IF ended.why = "exit" THEN ended.status ELSE CliExitCode(ErrorCode(ended)), ended)
    /\ UNCHANGED <<configs, guest, now>>

-----------------------------------------------------------------------------
\* The guest

InGuest == stage \in GuestStages

\* The main thread executes guest code, and is not in a host call.
Running == InGuest /\ ~waits

Burnt(f) == IF f = None THEN None ELSE f - 1

\* The guest executes an instruction, as long as it has fuel; it may be the call
\* of a host function that waits, for input, a time or another module.
Run ==
    /\ Running /\ fuel # 0
    /\ fuel' = Burnt(fuel)
    /\ used' = IF used = MaxUsed THEN used ELSE used + 1
    /\ waits' \in BOOLEAN
    /\ UNCHANGED <<configs, stage, target, now, threads, ended, code>>

\* What the host call waits for happens.
HostReturns ==
    /\ InGuest /\ waits
    /\ waits' = FALSE
    /\ UNCHANGED <<configs, stage, target, fuel, used, now, threads, ended, code>>

\* Library modules are linked before the run can fail with a code: what ends
\* the guest there is an error that wasm_runtime unwraps.
Fails(why, trap, status) ==
    /\ IF stage = "libraries"
       THEN Panic
       ELSE stage' = "report" /\ ended' = End("main", why, trap, status) /\ UNCHANGED code
    /\ UNCHANGED <<configs, guest, now>>

Trap == \E t \in Traps \ {"OutOfFuel"} : Running /\ Fails("trap", t, 0)

OutOfFuel == Running /\ fuel = 0 /\ Fails("trap", "OutOfFuel", 0)

\* proc_exit of preview 1 refuses what is outside [0..126); a component exits
\* with 0 or 1.
ProcExit ==
    /\ Running
    /\ \E n \in Statuses :
          /\ target = "component" => n \in {0, 1}
          /\ IF n < 126 THEN Fails("exit", "none", n) ELSE Fails("error", "none", 0)

\* An import that is missing, a function of another type, no entry function,
\* a host function that fails; a memory larger than the store allows.
Refused ==
    /\ Running
    /\ \/ Fails("error", "none", 0)
       \/ stage = "start" /\ Fails("memory", "none", 0)

\* The guest code of the stage returns, or there is none.
Return ==
    /\ Running
    /\ \/ /\ stage = "libraries"
          /\ To("threads") /\ target' = "core"
       \/ /\ stage = "start"
          /\ To(IF target = "core" THEN "initialize" ELSE "entry") /\ UNCHANGED target
       \/ /\ stage = "initialize"
          /\ To("entry") /\ UNCHANGED target
       \/ /\ stage = "entry"
          /\ stage' = "report" /\ ended' = End("main", "return", "none", 0)
          /\ UNCHANGED <<code, target>>
    /\ UNCHANGED <<configs, fuel, used, waits, now, threads>>

-----------------------------------------------------------------------------
\* Guest threads

Spawn ==
    /\ stage \in {"start", "initialize", "entry"} /\ config.thread
    /\ \E t \in Threads \ threads : threads' = threads \cup {t}
    /\ UNCHANGED <<configs, stage, target, fuel, used, waits, now, ended, code>>

Alive(t) == t \in threads /\ stage # "exited"

ThreadReturns(t) ==
    /\ Alive(t)
    /\ threads' = threads \ {t}
    /\ UNCHANGED <<configs, stage, target, fuel, used, waits, now, ended, code>>

\* Anything else ends the process, whatever the main thread is doing.
ThreadEnds(t) ==
    /\ Alive(t)
    /\ LET Stop(e) == Exit(ThreadCode(e), e)
       IN  \/ \E x \in Traps : Stop(End("thread", "trap", x, 0))
           \/ \E n \in Statuses : IF n < 126 THEN Stop(End("thread", "exit", "none", n))
                                             ELSE Stop(End("thread", "error", "none", 0))
           \/ Stop(End("thread", "error", "none", 0))
    /\ UNCHANGED <<configs, guest, now>>

\* Time passes where somebody waits or runs.
Tick ==
    /\ InGuest \/ (stage = "asleep" /\ now < limit)
    /\ now < MaxTime
    /\ now' = now + 1
    /\ UNCHANGED <<configs, stage, guest, ended, code>>

-----------------------------------------------------------------------------

HostStep ==
    \/ Load \/ LoggerInit \/ ReadOptions \/ StartTimer \/ TimerExpires
    \/ MakeStore \/ LoadModule \/ Prepare \/ Report

GuestStep == Run \/ HostReturns \/ Trap \/ OutOfFuel \/ ProcExit \/ Refused \/ Return

Next ==
    \/ HostStep \/ GuestStep \/ Spawn \/ Tick
    \/ \E t \in Threads : ThreadReturns(t) \/ ThreadEnds(t)

Spec == Init /\ [][Next]_vars

\* The main thread is scheduled, and the guest on it executes instructions as
\* long as it is not in a host call; neither need ever return.
FairSpec ==
    /\ Spec
    /\ WF_vars(HostStep) /\ WF_vars(Run) /\ WF_vars(OutOfFuel)

-----------------------------------------------------------------------------
\* Properties

Exits(n) == ended.why = "exit" /\ ended.status = n

\* The exit code tells how the run ended: a code of a trap is the trap of the
\* main thread, 0 a return, 15 the limit, 16 the memory, 128 a checksum; or it is
\* the status the guest asked for; a spawned thread adds 1 and 134, a panic 101.
\* The command line parser has 0 for the help and 2 for a mistake, which is also
\* the code of a stack overflow.
ExitTruth ==
    code # None =>
        \/ Exits(code)
        \/ /\ ended.by = "main"
           /\ \/ code = 0 /\ ended.why = "return"
              \/ /\ code \in 1 .. 13 /\ ended.why = "trap"
                 /\ ended.trap \in DOMAIN TrapCode /\ TrapCode[ended.trap] = code
              \/ code = 16 /\ ended.why = "memory"
              \/ code = 255 /\ ended.why = "trap" /\ ended.trap \notin DOMAIN TrapCode
              \/ code = 255 /\ ended.why = "error"
        \/ ended.by = "timer" /\ code = 15 /\ file.runTime = now
        \/ ended.by = "thread" /\ code \in {1, 134} /\ (code = 134 <=> ended.why = "trap")
        \/ ended.by = "parser" /\ <<code, ended.why>> \in {<<2, "usage">>, <<0, "help">>}
        \/ /\ ended.by = "host"
           /\ <<code, ended.why>> \in {<<101, "panic">>, <<128, "checksum">>, <<255, "arguments">>}

\* The library modules, _initialize and the entry function share one limit: the
\* main thread runs no more instructions than the configuration allows.
FuelBound == config.fuel # None /\ stage \in GuestStages \cup {"threads", "report"} => used <= config.fuel

\* A guest with a limit comes to an end, however it loops, unless it waits in a
\* host call for ever: waiting costs no fuel.
FuelEnds == <>[]waits \/ ((InGuest /\ config.fuel # None) ~> stage = "exited")

\* "The runtime's time limit": a guest does not run longer than the command line
\* allows.
RunTimeKept == InGuest /\ options.runTime # None => now <= options.runTime

=============================================================================

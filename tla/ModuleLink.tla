---------------------------- MODULE ModuleLink ----------------------------
(***************************************************************************)
(* The module linker of a blockless process (blockless/src/modules.rs):    *)
(* the registry INS_CTX, one for the whole process and never emptied, the  *)
(* asynchronous lock around it, and the runs (calls of blockless_run) that *)
(* link their library modules, publish them in the registry and serve the  *)
(* host calls blockless.register and blockless.mcall of guest code.        *)
(*                                                                         *)
(* Guest code is arbitrary: a module that runs may make either host call,  *)
(* from itself or through a library it was linked with, may grow its       *)
(* memory, return or trap.  A critical section that awaits nothing is one  *)
(* action; the one in mcall awaits guest code, so it is cut at each await. *)
(***************************************************************************)
EXTENDS Naturals, Sequences

CONSTANTS
    Runs,       \* the calls of blockless_run in this process
    NoRun,      \* no run: an absent registry entry, a free lock
    Libs,       \* names of library modules
    Entry,      \* the entry module of any run
    NoName,     \* an address the registry does not know
    Plan,       \* Plan[r]: the library modules of run r, in link order
    Methods,    \* names of exported functions
    Requests,   \* the method lists a guest may pass to register
    Wanted,     \* the module::method names a guest may pass to mcall
    Shapes,     \* Shapes[n]: the sets of exports the file of library n may have
    Addrs,      \* host addresses of linear memories
    NoAddr,     \* no linear memory
    MaxCalls    \* bound: host calls made by guest code in all

Mods == Libs \cup {Entry}
Keys == Libs \X Methods
Exports == {"memory", "alloc", "dealloc"} \cup Methods

\* The sentinels are not values, and a plan lists a library once (a second
\* instance of the name is refused by the wasm linker).
ASSUME LinkAssumption ==
    /\ NoRun \notin Runs /\ Entry \notin Libs /\ NoName \notin Libs /\ NoAddr \notin Addrs
    /\ Plan \in [Runs -> Seq(Libs)]
    /\ \A r \in Runs : \A i, j \in DOMAIN Plan[r] : Plan[r][i] = Plan[r][j] => i = j
    /\ Requests \subseteq Seq(Methods) /\ Wanted \subseteq Keys
    /\ Shapes \in [Libs -> SUBSET (SUBSET Exports)]
    /\ MaxCalls \in Nat

VARIABLES
    exports,    \* exports[n]: what the file of library n exports
    phase,      \* phase[r]: what run r is doing
    pos,        \* pos[r]: the library of Plan[r] being linked
    base,       \* base[r][n]: where the memory of that instance is
    modules,    \* INS_CTX.modules: memory address -> module name
    infos,      \* INS_CTX.instance_infos: module name -> the run that published it
    callers,    \* INS_CTX.module_caller: module::method -> the run of its instance
    lock,       \* the run that holds INS_CTX across an await
    call,       \* call[r]: the host call that guest code of run r is in, or its outcome
    made        \* host calls made so far

registry == <<modules, infos, callers>>
vars == <<exports, phase, pos, base, modules, infos, callers, lock, call, made>>

-----------------------------------------------------------------------------

Phases == {"link", "start", "publish", "inform", "init", "entry", "ended"}

\* The stages at which a host call waits for the lock.
WaitStages == {"lock", "find", "add"}
\* The stages of mcall that hold it, in the order of InstanceCaller::call.
CallStages == {"alloc", "allocResult", "undo", "func", "deallocParam", "deallocResult"}
Stages == {"idle"} \cup WaitStages \cup CallStages

Codes == {"None", "AllocError", "DeallocError", "MCallError", "Fail", "MCallMemoryNotFound"}

\* One host call.  owed: buffers allocated in the callee and not yet given to
\* its dealloc; ran: the function returned; lost: a dealloc trapped;
\* nested: the callee is itself waiting in a host call.
Calls == [stage : Stages, kind : {"mcall", "register"}, by : Mods,
          key : Keys \cup {<<>>}, req : Requests \cup {<<>>}, name : Libs \cup {NoName},
          result : Codes, owed : SUBSET {"param", "result"},
          ran : BOOLEAN, lost : BOOLEAN, nested : BOOLEAN]

\* Between host calls: how the last one of this kind ended.
Outcome(kind, code, owed, ran, lost) ==
    [stage |-> "idle", kind |-> kind, by |-> Entry, key |-> <<>>, req |-> <<>>,
     name |-> NoName, result |-> code, owed |-> owed, ran |-> ran, lost |-> lost,
     nested |-> FALSE]

NoCall == Outcome("register", "None", {}, FALSE, FALSE)

\* Guest code of instance n has just made a host call.
Entering(kind, stage, n, k, q) ==
    [stage |-> stage, kind |-> kind, by |-> n, key |-> k, req |-> q,
     name |-> NoName, result |-> "None", owed |-> {}, ran |-> FALSE, lost |-> FALSE,
     nested |-> FALSE]

\* What a host call carries at its stage.
CallShape(r) ==
    /\ call[r].stage = "lock" => call[r].key \in Keys
    /\ call[r].stage \in {"find", "add"} => call[r].req \in Requests
    /\ call[r].stage = "find" => base[r][call[r].by] \in Addrs
    /\ call[r].stage = "add" => call[r].name \in Libs

TypeOK ==
    /\ exports \in [Libs -> SUBSET Exports] /\ \A n \in Libs : exports[n] \in Shapes[n]
    /\ phase \in [Runs -> Phases]
    /\ pos \in [Runs -> Nat \ {0}]
    /\ base \in [Runs -> [Mods -> Addrs \cup {NoAddr}]]
    /\ modules \in [Addrs -> Libs \cup {NoName}]
    /\ infos \in [Libs -> Runs \cup {NoRun}]
    /\ callers \in [Keys -> Runs \cup {NoRun}]
    /\ lock \in Runs \cup {NoRun}
    /\ call \in [Runs -> Calls]
    /\ made \in 0 .. MaxCalls
    /\ \A r \in Runs : CallShape(r)

Init ==
    /\ exports \in [Libs -> SUBSET Exports] /\ \A n \in Libs : exports[n] \in Shapes[n]
    /\ phase = [r \in Runs |-> "link"]
    /\ pos = [r \in Runs |-> 1]
    /\ base = [r \in Runs |-> [n \in Mods |-> NoAddr]]
    /\ modules = [a \in Addrs |-> NoName]
    /\ infos = [n \in Libs |-> NoRun]
    /\ callers = [k \in Keys |-> NoRun]
    /\ lock = NoRun
    /\ call = [r \in Runs |-> NoCall]
    /\ made = 0

-----------------------------------------------------------------------------
\* Linking (ModuleLinker::link_modules, instance_module)

Free(a) == \A r \in Runs : \A n \in Mods : base[r][n] # a

\* A module may import the memory of a library of its run and export it again
\* as its own.
Imported(r, a) == \E n \in Libs : base[r][n] = a

\* The run returns, fails or panics: its store and the memories in it are
\* dropped.  The registry is not cleaned.
End(r) ==
    /\ phase' = [phase EXCEPT ![r] = "ended"]
    /\ base' = [base EXCEPT ![r] = [n \in Mods |-> NoAddr]]
    /\ call' = [call EXCEPT ![r] = NoCall]

Current(r) == Plan[r][pos[r]]
Linking(r) == phase[r] = "link" /\ pos[r] \in DOMAIN Plan[r]

\* The next library is instantiated; its start function, if any, runs.
Instantiate(r) ==
    /\ Linking(r)
    /\ IF "memory" \in exports[Current(r)]
       THEN \E a \in Addrs :
                (Free(a) \/ Imported(r, a)) /\ base' = [base EXCEPT ![r][Current(r)] = a]
       ELSE UNCHANGED base
    /\ phase' = [phase EXCEPT ![r] = "start"]
    /\ UNCHANGED <<exports, pos, registry, lock, call, made>>

\* Mutation: an address the registry knows keeps the name it has.
PublishedKeep(addr, name) ==
    IF modules[addr] = NoName THEN [modules EXCEPT ![addr] = name] ELSE modules

Published(addr, name) == [modules EXCEPT ![addr] = name]

MayPublish(r) == phase[r] = "publish" /\ lock = NoRun

\* The memory of the library is entered in the registry.
PublishMemory(r) ==
    /\ MayPublish(r)
    /\ modules' = Published(base[r][Current(r)], Current(r))
    /\ phase' = [phase EXCEPT ![r] = "inform"]
    /\ UNCHANGED <<exports, pos, base, infos, callers, lock, call, made>>

GuardAfterPublish(r) == lock

\* The library becomes visible to later modules and to register, and its
\* _initialize starts.  The guard is gone before guest code runs.
PublishInfo(r) ==
    /\ phase[r] = "inform"
    /\ lock = NoRun
    /\ infos' = [infos EXCEPT ![Current(r)] = r]
    /\ phase' = [phase EXCEPT ![r] = "init"]
    /\ lock' = GuardAfterPublish(r)
    /\ UNCHANGED <<exports, pos, base, modules, callers, call, made>>

\* A file that does not load, an import nobody defines, an alloc or dealloc of
\* another type, a missing entry: the run fails and what it has published stays.
LinkError(r) ==
    /\ phase[r] \in {"link", "inform"}
    /\ End(r)
    /\ UNCHANGED <<exports, pos, registry, lock, made>>

\* All libraries are linked; the entry module is instantiated and starts.
EnterEntry(r) ==
    /\ phase[r] = "link" /\ pos[r] \notin DOMAIN Plan[r]
    /\ \/ \E a \in Addrs :
             (Free(a) \/ Imported(r, a)) /\ base' = [base EXCEPT ![r][Entry] = a]
       \/ UNCHANGED base
    /\ phase' = [phase EXCEPT ![r] = "entry"]
    /\ UNCHANGED <<exports, pos, registry, lock, call, made>>

-----------------------------------------------------------------------------
\* Guest code outside a host call

GuestRuns(r) == phase[r] \in {"start", "init", "entry"} /\ call[r].stage = "idle"

\* The instances the running module can execute: itself and what it imports.
Reach(r) ==
    {Plan[r][i] : i \in DOMAIN Plan[r] \cap 1 .. pos[r]}
      \cup (IF phase[r] = "entry" THEN {Entry} ELSE {})

\* Instance n of run r exports a memory: a host call without one returns at once.
HasMemory(r, n) == base[r][n] # NoAddr

GuestReturn(r) ==
    /\ GuestRuns(r)
    /\ \/ /\ phase[r] = "start"
          /\ phase' = [phase EXCEPT ![r] = IF HasMemory(r, Current(r)) THEN "publish" ELSE "inform"]
          /\ UNCHANGED <<pos, base, call>>
       \/ /\ phase[r] = "init"
          /\ phase' = [phase EXCEPT ![r] = "link"]
          /\ pos' = [pos EXCEPT ![r] = @ + 1]
          /\ UNCHANGED <<base, call>>
       \/ /\ phase[r] = "entry"
          /\ End(r)
          /\ UNCHANGED pos
    /\ UNCHANGED <<exports, registry, lock, made>>

\* A trap, or an _initialize or entry function of another type.
GuestTrap(r) ==
    /\ GuestRuns(r)
    /\ End(r)
    /\ UNCHANGED <<exports, pos, registry, lock, made>>

\* Where the engine may move a memory (memory_may_move, and a reservation
\* smaller than the memory), memory.grow gives it another address.
GuestGrow(r) ==
    /\ phase[r] \in {"start", "init", "entry"}
    /\ call[r].stage \notin WaitStages /\ ~call[r].nested
    /\ \E n \in Reach(r), a \in Addrs :
          /\ HasMemory(r, n) /\ Free(a)
          /\ base' = [base EXCEPT ![r] =
                        [m \in Mods |-> IF @[m] = base[r][n] THEN a ELSE @[m]]]
    /\ UNCHANGED <<exports, phase, pos, registry, lock, call, made>>

\* Guest code enters a host call, which will wait for the lock.
GuestCalls(r) ==
    /\ GuestRuns(r) /\ made < MaxCalls
    /\ \E n \in Reach(r) :
          /\ HasMemory(r, n)
          /\ \/ \E k \in Wanted :
                   call' = [call EXCEPT ![r] = Entering("mcall", "lock", n, k, <<>>)]
             \/ \E q \in Requests :
                   call' = [call EXCEPT ![r] = Entering("register", "find", n, <<>>, q)]
    /\ made' = made + 1
    /\ UNCHANGED <<exports, phase, pos, base, registry, lock>>

-----------------------------------------------------------------------------
\* Host calls

\* The host call returns code c to the guest.
Return(r, c) ==
    call' = [call EXCEPT ![r] = Outcome(call[r].kind, c, call[r].owed, FALSE, FALSE)]

\* A panic in a host call unwinds the run and drops its guard: an instance of
\* another store is used, or a buffer does not lie in its memory.
Panic(r) ==
    /\ End(r)
    /\ lock' = IF lock = r THEN NoRun ELSE lock

\* instance_caller succeeds for method m of library n.
Callable(n, m) == {"memory", "alloc", "dealloc", m} \subseteq exports[n]

\* The methods of q up to the first that instance_caller refuses.
Accepted(n, q) ==
    {q[i] : i \in {j \in DOMAIN q : \A l \in 1 .. j : Callable(n, q[l])}}

\* The name under which the registry knows the caller's memory.
CallerName(r) == modules[base[r][call[r].by]]

\* Mutation: the lookup is taken to succeed.
KnownAlways(name) == TRUE

Known(name) == name # NoName

\* register, first critical section: whose memory is the caller's?  The request
\* may also fail to parse.
RegisterFind(r) ==
    /\ call[r].stage = "find" /\ lock = NoRun
    /\ LET name == CallerName(r)
       IN  \/ ~Known(name) /\ Return(r, "MCallMemoryNotFound")
           \/ Known(name) /\ Return(r, "Fail")
           \/ Known(name) /\ call' = [call EXCEPT ![r].stage = "add", ![r].name = name]
    /\ UNCHANGED <<exports, phase, pos, base, registry, lock, made>>

\* register, second critical section: the methods become callers, one by one,
\* until one is refused.
RegisterAdd(r) ==
    /\ call[r].stage = "add" /\ lock = NoRun
    /\ LET n == call[r].name
           q == call[r].req
           s == infos[n]
           unfit == s = NoRun \/ (q # <<>> /\ ~Callable(n, q[1]))
           mine == Accepted(n, q)
       IN  IF q = <<>> \/ unfit
           THEN /\ Return(r, IF q = <<>> THEN "None" ELSE "Fail")
                /\ UNCHANGED <<phase, base, callers, lock>>
           ELSE IF s # r
           THEN Panic(r) /\ UNCHANGED callers
           ELSE /\ callers' = [k \in Keys |-> IF k[1] = n /\ k[2] \in mine THEN r ELSE callers[k]]
                /\ Return(r, IF \A i \in DOMAIN q : q[i] \in mine THEN "None" ELSE "Fail")
                /\ UNCHANGED <<phase, base, lock>>
    /\ UNCHANGED <<exports, pos, modules, infos, made>>

\* mcall takes the lock and looks the callee up; without one the guard is dropped.
MCallLock(r) ==
    /\ call[r].stage = "lock" /\ lock = NoRun
    /\ LET s == callers[call[r].key]
       IN  CASE s = NoRun -> Return(r, "Fail") /\ UNCHANGED <<phase, base, lock>>
             [] s = r     -> /\ call' = [call EXCEPT ![r].stage = "alloc"]
                             /\ lock' = r
                             /\ UNCHANGED <<phase, base>>
             [] OTHER     -> Panic(r)
    /\ UNCHANGED <<exports, pos, registry, made>>

\* Guest code of the callee runs, and is not stuck in a host call of its own.
CalleeAt(r, stage) == call[r].stage = stage /\ ~call[r].nested

\* The callee's code makes a host call: it waits for a lock its own run holds.
CalleeCalls(r) ==
    /\ call[r].stage \in CallStages /\ ~call[r].nested
    /\ call' = [call EXCEPT ![r].nested = TRUE]
    /\ UNCHANGED <<exports, phase, pos, base, registry, lock, made>>

\* Mutation: a failed alloc returns with the guard forgotten.
AllocFailedStuck(r) == Return(r, "AllocError") /\ UNCHANGED lock

AllocFailed(r) == Return(r, "AllocError") /\ lock' = NoRun

\* alloc(params_len) in the callee.
Alloc(r) ==
    /\ CalleeAt(r, "alloc")
    /\ \/ /\ call' = [call EXCEPT ![r].stage = "allocResult", ![r].owed = {"param"}]
          /\ UNCHANGED lock
       \/ AllocFailed(r)
    /\ UNCHANGED <<exports, phase, pos, base, registry, made>>

\* Mutation: the parameter buffer is forgotten when the second alloc fails.
SecondAllocFailsLeak(r) == AllocFailed(r)

SecondAllocFails(r) == call' = [call EXCEPT ![r].stage = "undo"] /\ UNCHANGED lock

\* alloc(buf_len) in the callee, then the parameters are copied into the first buffer.
AllocResult(r) ==
    /\ CalleeAt(r, "allocResult")
    /\ \/ /\ call' = [call EXCEPT ![r].stage = "func", ![r].owed = @ \cup {"result"}]
          /\ UNCHANGED <<phase, base, lock>>
       \/ SecondAllocFails(r) /\ UNCHANGED <<phase, base>>
       \/ Panic(r)
    /\ UNCHANGED <<exports, pos, registry, made>>

\* dealloc(ptr) after the failed second alloc; its outcome is ignored.
UndoAlloc(r) ==
    /\ CalleeAt(r, "undo")
    /\ call' = [call EXCEPT ![r] = Outcome("mcall", "AllocError", @.owed \ {"param"}, FALSE, FALSE)]
    /\ lock' = NoRun
    /\ UNCHANGED <<exports, phase, pos, base, registry, made>>

\* The function runs.  When it returns, the result is copied to the caller's buffer.
Func(r) ==
    /\ CalleeAt(r, "func")
    /\ \/ /\ call' = [call EXCEPT ![r].stage = "deallocParam", ![r].ran = TRUE]
          /\ UNCHANGED <<phase, base, lock>>
       \/ /\ call' = [call EXCEPT ![r].stage = "deallocParam", ![r].result = "MCallError"]
          /\ UNCHANGED <<phase, base, lock>>
       \/ Panic(r)
    /\ UNCHANGED <<exports, pos, registry, made>>

\* Mutation: a failed dealloc hides the failure of the function.
AfterDeallocLast(result, ok) == IF ok THEN result ELSE "DeallocError"

\* A failed dealloc is reported only if nothing failed before it.
AfterDealloc(result, ok) == IF ~ok /\ result = "None" THEN "DeallocError" ELSE result

\* dealloc of the parameter buffer, which may trap.
DeallocParam(r) ==
    /\ CalleeAt(r, "deallocParam")
    /\ \E ok \in BOOLEAN :
          call' = [call EXCEPT ![r].stage = "deallocResult", ![r].owed = @ \ {"param"},
                               ![r].lost = ~ok, ![r].result = AfterDealloc(@, ok)]
    /\ UNCHANGED <<exports, phase, pos, base, registry, lock, made>>

\* dealloc of the result buffer, which may trap; mcall returns and drops the guard.
DeallocResult(r) ==
    /\ CalleeAt(r, "deallocResult")
    /\ \E ok \in BOOLEAN :
          call' = [call EXCEPT ![r] = Outcome("mcall", AfterDealloc(@.result, ok),
                                              @.owed \ {"result"}, @.ran, @.lost \/ ~ok)]
    /\ lock' = NoRun
    /\ UNCHANGED <<exports, phase, pos, base, registry, made>>

-----------------------------------------------------------------------------

LinkStep(r) ==
    \/ Instantiate(r) \/ PublishMemory(r) \/ PublishInfo(r) \/ LinkError(r) \/ EnterEntry(r)

GuestStep(r) == GuestReturn(r) \/ GuestTrap(r) \/ GuestCalls(r)

HostStep(r) ==
    \/ RegisterFind(r) \/ RegisterAdd(r) \/ MCallLock(r) \/ CalleeCalls(r)
    \/ Alloc(r) \/ AllocResult(r) \/ UndoAlloc(r) \/ Func(r)
    \/ DeallocParam(r) \/ DeallocResult(r)

Step(r) == LinkStep(r) \/ GuestStep(r) \/ HostStep(r)

\* The default engine reserves 4 GiB for a memory, which then never moves.
Next == \E r \in Runs : Step(r)
NextMoving == Next \/ \E r \in Runs : GuestGrow(r)

Spec == Init /\ [][Next]_vars
MovingSpec == Init /\ [][NextMoving]_vars

\* The executor polls a run that can proceed, and the lock is fair (FIFO); guest
\* code that can run returns, traps or makes one of its MaxCalls host calls.
FairSpec == Spec /\ \A r \in Runs : WF_vars(Step(r))

-----------------------------------------------------------------------------
\* Properties

\* The registry is locked across an await exactly while its owner is inside
\* InstanceCaller::call: no early return, trap or panic keeps the guard, and no
\* guard lives while an _initialize or an entry runs outside a host call.
LockHeldInCall ==
    \A r \in Runs : lock = r <=> call[r].stage \in CallStages

\* A registered caller belongs to a library of the run that registered it, and
\* that library exports all that InstanceCaller::call uses.
CallersComplete ==
    \A n \in Libs, m \in Methods : \A r \in Runs :
        callers[<<n, m>>] = r => {"memory", "alloc", "dealloc", m} \subseteq exports[n]

\* Every buffer mcall allocates in the callee is given back to the callee's
\* dealloc before mcall returns, on every path.
BuffersReturned ==
    \A r \in Runs : call[r].stage = "idle" => call[r].owed = {}

\* The code mcall returns says what happened: None exactly when the function
\* returned and both buffers were freed, DeallocError exactly when it returned
\* and a buffer was not.
OutcomeTruth ==
    \A r \in Runs :
        call[r].stage = "idle" /\ call[r].kind = "mcall" =>
          /\ call[r].result = "None" <=> call[r].ran /\ ~call[r].lost
          /\ call[r].result = "DeallocError" <=> call[r].ran /\ call[r].lost

\* Published: the memory of library n of run r is in the registry.
InRegistry(r, n) == base[r][n] # NoAddr /\ ~(phase[r] \in {"start", "publish"} /\ n = Current(r))

\* The i-th library of run r is published with the memory at address a.
EnteredAt(r, i, a) == InRegistry(r, Plan[r][i]) /\ base[r][Plan[r][i]] = a

\* register finds the caller by its memory: a published memory is known under
\* the name of the last library of this run that was entered with it, never of
\* a run that ended with a memory at that address.
LibraryFound ==
    \A r \in Runs : \A a \in Addrs : \A i \in DOMAIN Plan[r] :
        EnteredAt(r, i, a) /\ (\A j \in DOMAIN Plan[r] : j > i => ~EnteredAt(r, j, a))
          => modules[a] = Plan[r][i]

\* While one run is inside an mcall nobody changes the registry: the caller
\* that mcall borrowed from it stays what it was.
RegistryFrozen ==
    [][lock # NoRun /\ lock' = lock => UNCHANGED registry]_vars

\* Unless some run waits for itself for ever, every run ends.
RunsEnd ==
    (\E r \in Runs : <>[](call[r].nested)) \/ (\A r \in Runs : <>(phase[r] = "ended"))

=============================================================================

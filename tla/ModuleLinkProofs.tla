------------------------- MODULE ModuleLinkProofs -------------------------
(***************************************************************************)
(* What ModuleLink promises for every set of runs, libraries, plans and    *)
(* addresses.  The lemmas about single actions come first; each theorem is *)
(* an inductive invariant, its two non-temporal facts and a PTL step.      *)
(***************************************************************************)
EXTENDS ModuleLink, TLAPS

-----------------------------------------------------------------------------
\* Types

\* What the phase of a run says about the rest of its state.
LinkShape ==
    \A r \in Runs :
        /\ phase[r] \in {"start", "publish", "inform", "init"} => pos[r] \in DOMAIN Plan[r]
        /\ call[r].stage # "idle" => phase[r] \in {"start", "init", "entry"}
        /\ phase[r] = "publish" => base[r][Current(r)] \in Addrs

TypeInv == TypeOK /\ LinkShape

LEMMA NoCallType == NoCall \in Calls
BY LinkAssumption DEF NoCall, Outcome, Calls, Stages, Mods, Codes

LEMMA InitTypeInv == Init => TypeInv
<1> SUFFICES ASSUME Init PROVE TypeInv
  OBVIOUS
<1>1. call \in [Runs -> Calls]
  BY NoCallType DEF Init
<1>2. \A r \in Runs : CallShape(r)
  BY DEF Init, CallShape, NoCall, Outcome
<1>3. LinkShape
  BY DEF Init, LinkShape, NoCall, Outcome
<1> QED
  BY <1>1, <1>2, <1>3, LinkAssumption DEF Init, TypeInv, TypeOK, Phases

\* A plan lists library names, and a run reaches only modules.
LEMMA CurrentType ==
  ASSUME NEW r \in Runs, pos[r] \in DOMAIN Plan[r]
  PROVE  Current(r) \in Libs
BY LinkAssumption DEF Current

LEMMA ReachType ==
  ASSUME NEW r \in Runs
  PROVE  Reach(r) \subseteq Mods
BY LinkAssumption DEF Reach, Mods

\* One memory of one run gets another address.
LEMMA BaseUpdate ==
  ASSUME NEW r \in Runs, NEW n \in Mods, NEW a \in Addrs \cup {NoAddr},
         base \in [Runs -> [Mods -> Addrs \cup {NoAddr}]],
         base' = [base EXCEPT ![r][n] = a]
  PROVE  /\ base' \in [Runs -> [Mods -> Addrs \cup {NoAddr}]]
         /\ \A s \in Runs, m \in Mods :
               base'[s][m] = IF s = r /\ m = n THEN a ELSE base[s][m]
OBVIOUS

\* The record of a host call that has just been made.
LEMMA EnteringType ==
  ASSUME NEW n \in Mods
  PROVE  /\ \A k \in Keys : Entering("mcall", "lock", n, k, <<>>) \in Calls
         /\ \A q \in Requests : Entering("register", "find", n, <<>>, q) \in Calls
BY DEF Entering, Calls, Stages, WaitStages, Codes

\* A run that ends keeps every type.
LEMMA EndTypeInv ==
  ASSUME TypeInv, NEW r \in Runs, End(r),
         UNCHANGED <<exports, pos, modules, infos, made>>,
         callers' \in [Keys -> Runs \cup {NoRun}],
         lock' \in Runs \cup {NoRun}
  PROVE  TypeInv'
<1> USE DEF TypeInv
<1>1. call' \in [Runs -> Calls]
  BY NoCallType DEF End, TypeOK
<1>2. base' \in [Runs -> [Mods -> Addrs \cup {NoAddr}]] /\ phase' \in [Runs -> Phases]
  BY DEF End, TypeOK, Phases
<1>3. ASSUME NEW s \in Runs PROVE CallShape(s)'
  BY DEF End, TypeOK, CallShape, NoCall, Outcome
<1>4. LinkShape'
  BY DEF End, TypeOK, LinkShape, Current, NoCall, Outcome
<1> QED
  BY <1>1, <1>2, <1>3, <1>4 DEF TypeOK

\* A step of one host call keeps every type if its new record is one.
LEMMA CallTypeInv ==
  ASSUME TypeInv, NEW r \in Runs, NEW c \in Calls,
         call[r].stage # "idle",
         call' = [call EXCEPT ![r] = c],
         c.stage = "lock" => c.key \in Keys,
         c.stage \in {"find", "add"} => c.req \in Requests,
         c.stage = "find" => base[r][c.by] \in Addrs,
         c.stage = "add" => c.name \in Libs,
         UNCHANGED <<exports, phase, pos, base, modules, infos, made>>,
         callers' \in [Keys -> Runs \cup {NoRun}],
         lock' \in Runs \cup {NoRun}
  PROVE  TypeInv'
<1> USE DEF TypeInv
<1>1. call' \in [Runs -> Calls]
  BY DEF TypeOK
<1>2. ASSUME NEW s \in Runs PROVE CallShape(s)'
  BY DEF TypeOK, CallShape
<1>3. LinkShape'
  BY DEF TypeOK, LinkShape, Current
<1> QED
  BY <1>1, <1>2, <1>3 DEF TypeOK

LEMMA LinkTypeInv ==
  ASSUME TypeInv, NEW r \in Runs, LinkStep(r)
  PROVE  TypeInv'
<1> USE DEF TypeInv
<1>1. CASE Instantiate(r)
  <2>1. Current(r) \in Libs
    BY <1>1, CurrentType DEF Instantiate, Linking
  <2>2. /\ base' \in [Runs -> [Mods -> Addrs \cup {NoAddr}]]
        /\ \A s \in Runs, m \in Mods : base[s][m] \in Addrs => base'[s][m] \in Addrs
    <3>1. CASE UNCHANGED base
      BY <3>1 DEF TypeOK
    <3>2. CASE \E a \in Addrs : base' = [base EXCEPT ![r][Current(r)] = a]
      <4>1. PICK a \in Addrs : base' = [base EXCEPT ![r][Current(r)] = a]
        BY <3>2
      <4>2. Current(r) \in Mods /\ base \in [Runs -> [Mods -> Addrs \cup {NoAddr}]]
        BY <2>1 DEF TypeOK, Mods
      <4> QED
        BY <4>1, <4>2, BaseUpdate
    <3> QED
      BY <1>1, <3>1, <3>2 DEF Instantiate
  <2>3. ASSUME NEW s \in Runs PROVE CallShape(s)'
    <3>1. call[s].by \in Mods
      BY DEF TypeOK, Calls
    <3> QED
      BY <1>1, <2>2, <3>1 DEF Instantiate, TypeOK, CallShape
  <2>4. LinkShape'
    BY <1>1, <2>1 DEF Instantiate, Linking, TypeOK, LinkShape, Current, Mods
  <2> QED
    BY <1>1, <2>2, <2>3, <2>4 DEF Instantiate, TypeOK, Phases, registry
<1>2. CASE PublishMemory(r)
  <2>1. Current(r) \in Libs
    BY <1>2, CurrentType DEF PublishMemory, MayPublish, LinkShape
  <2>2. modules' \in [Addrs -> Libs \cup {NoName}]
    BY <1>2, <2>1 DEF PublishMemory, Published, TypeOK
  <2>3. ASSUME NEW s \in Runs PROVE CallShape(s)'
    BY <1>2 DEF PublishMemory, TypeOK, CallShape
  <2>4. LinkShape'
    BY <1>2 DEF PublishMemory, MayPublish, TypeOK, LinkShape, Current
  <2> QED
    BY <1>2, <2>2, <2>3, <2>4 DEF PublishMemory, TypeOK, Phases
<1>3. CASE PublishInfo(r)
  <2>1. ASSUME NEW s \in Runs PROVE CallShape(s)'
    BY <1>3 DEF PublishInfo, TypeOK, CallShape
  <2>2. LinkShape'
    BY <1>3 DEF PublishInfo, TypeOK, LinkShape, Current
  <2> QED
    BY <1>3, <2>1, <2>2 DEF PublishInfo, GuardAfterPublish, TypeOK, Phases
<1>4. CASE LinkError(r)
  BY <1>4, EndTypeInv DEF LinkError, registry, TypeOK
<1>5. CASE EnterEntry(r)
  <2>1. /\ base' \in [Runs -> [Mods -> Addrs \cup {NoAddr}]]
        /\ \A s \in Runs, m \in Mods : base[s][m] \in Addrs => base'[s][m] \in Addrs
    <3>1. CASE UNCHANGED base
      BY <3>1 DEF TypeOK
    <3>2. CASE \E a \in Addrs : base' = [base EXCEPT ![r][Entry] = a]
      <4>1. PICK a \in Addrs : base' = [base EXCEPT ![r][Entry] = a]
        BY <3>2
      <4>2. Entry \in Mods /\ base \in [Runs -> [Mods -> Addrs \cup {NoAddr}]]
        BY DEF TypeOK, Mods
      <4> QED
        BY <4>1, <4>2, BaseUpdate
    <3> QED
      BY <1>5, <3>1, <3>2 DEF EnterEntry
  <2>2. ASSUME NEW s \in Runs PROVE CallShape(s)'
    <3>1. call[s].by \in Mods
      BY DEF TypeOK, Calls
    <3> QED
      BY <1>5, <2>1, <3>1 DEF EnterEntry, TypeOK, CallShape
  <2>3. LinkShape'
    BY <1>5 DEF EnterEntry, TypeOK, LinkShape, Current
  <2> QED
    BY <1>5, <2>1, <2>2, <2>3 DEF EnterEntry, TypeOK, Phases, registry
<1> QED
  BY <1>1, <1>2, <1>3, <1>4, <1>5 DEF LinkStep

LEMMA GuestTypeInv ==
  ASSUME TypeInv, NEW r \in Runs, GuestStep(r)
  PROVE  TypeInv'
<1> USE DEF TypeInv
<1>1. CASE GuestReturn(r)
  <2>1. CASE phase[r] = "entry"
    BY <1>1, <2>1, EndTypeInv DEF GuestReturn, registry, TypeOK
  <2>2. CASE phase[r] # "entry"
    <3>1. phase' \in [Runs -> Phases] /\ pos' \in [Runs -> Nat \ {0}]
      <4>1. CASE phase[r] = "start"
        BY <1>1, <4>1 DEF GuestReturn, TypeOK, Phases
      <4>2. CASE phase[r] = "init"
        <5>1. pos[r] + 1 \in Nat \ {0}
          BY DEF TypeOK
        <5> QED
          BY <1>1, <4>2, <5>1 DEF GuestReturn, TypeOK, Phases
      <4> QED
        BY <1>1, <2>2, <4>1, <4>2 DEF GuestReturn
    <3>2. ASSUME NEW s \in Runs PROVE CallShape(s)'
      BY <1>1, <2>2 DEF GuestReturn, TypeOK, CallShape
    <3>3. HasMemory(r, Current(r)) /\ phase[r] = "start" => base[r][Current(r)] \in Addrs
      BY CurrentType DEF HasMemory, TypeOK, LinkShape, Mods
    <3>4. LinkShape'
      BY <1>1, <2>2, <3>3 DEF GuestReturn, GuestRuns, TypeOK, LinkShape, Current
    <3> QED
      BY <1>1, <2>2, <3>1, <3>2, <3>4 DEF GuestReturn, TypeOK, registry
  <2> QED
    BY <2>1, <2>2
<1>2. CASE GuestTrap(r)
  BY <1>2, EndTypeInv DEF GuestTrap, registry, TypeOK
<1>3. CASE GuestCalls(r)
  <2>1. PICK n \in Reach(r) :
          /\ HasMemory(r, n)
          /\ \/ \E k \in Wanted :
                   call' = [call EXCEPT ![r] = Entering("mcall", "lock", n, k, <<>>)]
             \/ \E q \in Requests :
                   call' = [call EXCEPT ![r] = Entering("register", "find", n, <<>>, q)]
    BY <1>3 DEF GuestCalls
  <2>2. n \in Mods /\ base[r][n] \in Addrs
    BY <2>1, ReachType DEF HasMemory, TypeOK
  <2>3. call' \in [Runs -> Calls]
    <3>1. CASE \E k \in Wanted : call' = [call EXCEPT ![r] = Entering("mcall", "lock", n, k, <<>>)]
      BY <3>1, <2>2, EnteringType, LinkAssumption DEF TypeOK
    <3>2. CASE \E q \in Requests :
                 call' = [call EXCEPT ![r] = Entering("register", "find", n, <<>>, q)]
      BY <3>2, <2>2, EnteringType DEF TypeOK
    <3> QED
      BY <2>1, <3>1, <3>2
  <2>4. ASSUME NEW s \in Runs PROVE CallShape(s)'
    <3>1. CASE s # r
      BY <1>3, <2>1, <3>1 DEF GuestCalls, CallShape, TypeOK
    <3>2. CASE s = r
      <4>1. base' = base
        BY <1>3 DEF GuestCalls
      <4>2. CASE \E k \in Wanted : call'[r] = Entering("mcall", "lock", n, k, <<>>)
        BY <3>2, <4>2, LinkAssumption DEF Entering, CallShape
      <4>3. CASE \E q \in Requests : call'[r] = Entering("register", "find", n, <<>>, q)
        BY <3>2, <4>1, <4>3, <2>2 DEF Entering, CallShape
      <4> QED
        BY <2>1, <4>2, <4>3 DEF TypeOK
    <3> QED
      BY <3>1, <3>2
  <2>5. made' \in 0 .. MaxCalls
    BY <1>3, LinkAssumption DEF GuestCalls, TypeOK
  <2>6. LinkShape'
    BY <1>3, <2>1 DEF GuestCalls, GuestRuns, TypeOK, LinkShape, Current
  <2> QED
    BY <1>3, <2>3, <2>4, <2>5, <2>6 DEF GuestCalls, TypeOK, registry
<1> QED
  BY <1>1, <1>2, <1>3 DEF GuestStep

LEMMA GrowTypeInv ==
  ASSUME TypeInv, NEW r \in Runs, GuestGrow(r)
  PROVE  TypeInv'
<1> USE DEF TypeInv
<1>1. PICK n \in Reach(r), a \in Addrs :
         base' = [base EXCEPT ![r] = [m \in Mods |-> IF @[m] = base[r][n] THEN a ELSE @[m]]]
  BY DEF GuestGrow
<1>2. base' \in [Runs -> [Mods -> Addrs \cup {NoAddr}]]
  BY <1>1, ReachType DEF TypeOK
<1>3. ASSUME NEW s \in Runs PROVE CallShape(s)'
  BY <1>1 DEF GuestGrow, WaitStages, CallShape, TypeOK
<1>4. LinkShape'
  BY <1>1 DEF GuestGrow, LinkShape, Current, TypeOK
<1> QED
  BY <1>2, <1>3, <1>4 DEF GuestGrow, TypeOK, registry

\* A host call that returns, or goes on to its next stage.
LEMMA ReturnTypeInv ==
  ASSUME TypeInv, NEW r \in Runs, NEW c \in Codes, Return(r, c),
         call[r].stage # "idle",
         UNCHANGED <<exports, phase, pos, base, modules, infos, made>>,
         callers' \in [Keys -> Runs \cup {NoRun}],
         lock' \in Runs \cup {NoRun}
  PROVE  TypeInv'
<1> DEFINE d == Outcome(call[r].kind, c, call[r].owed, FALSE, FALSE)
<1>1. call[r] \in Calls
  BY DEF TypeInv, TypeOK
<1>2. d \in Calls
  BY <1>1, LinkAssumption DEF Outcome, Calls, Stages, Mods
<1>3. d.stage = "idle"
  BY DEF Outcome
<1>4. call' = [call EXCEPT ![r] = d]
  BY DEF Return
<1> HIDE DEF d
<1> QED
  BY <1>2, <1>3, <1>4, CallTypeInv

LEMMA RegisterTypeInv ==
  ASSUME TypeInv, NEW r \in Runs, RegisterFind(r) \/ RegisterAdd(r)
  PROVE  TypeInv'
<1> USE DEF TypeInv
<1>1. CASE RegisterFind(r)
  <2> DEFINE name == CallerName(r)
  <2>1. name \in Libs \cup {NoName}
    BY <1>1 DEF RegisterFind, CallerName, TypeOK, CallShape
  <2>2. CASE \E c \in Codes : Return(r, c)
    BY <1>1, <2>2, ReturnTypeInv DEF RegisterFind, registry, TypeOK
  <2>3. CASE Known(name) /\ call' = [call EXCEPT ![r].stage = "add", ![r].name = name]
    <3> DEFINE d == [call[r] EXCEPT !.stage = "add", !.name = name]
    <3>1. name \in Libs
      BY <2>1, <2>3 DEF Known
    <3>2. call[r] \in Calls
      BY DEF TypeOK
    <3>3. d \in Calls /\ d.stage = "add" /\ d.name = name /\ d.req = call[r].req
      BY <3>1, <3>2 DEF Calls, Stages, WaitStages
    <3>4. call' = [call EXCEPT ![r] = d]
      BY <2>3, <3>2 DEF TypeOK, Calls
    <3>5. d.req \in Requests
      BY <1>1, <3>3 DEF RegisterFind, TypeOK, CallShape
    <3> HIDE DEF d, name
    <3> QED
      BY <1>1, <3>1, <3>3, <3>4, <3>5, CallTypeInv DEF RegisterFind, registry, TypeOK
  <2> QED
    BY <1>1, <2>2, <2>3 DEF RegisterFind, Codes
<1>2. CASE RegisterAdd(r)
  <2>1. callers' \in [Keys -> Runs \cup {NoRun}]
    BY <1>2 DEF RegisterAdd, TypeOK
  <2>2. CASE \E c \in Codes : Return(r, c) /\ UNCHANGED <<phase, base, lock>>
    BY <1>2, <2>1, <2>2, ReturnTypeInv DEF RegisterAdd, TypeOK
  <2>3. CASE Panic(r)
    BY <1>2, <2>1, <2>3, EndTypeInv DEF RegisterAdd, Panic, TypeOK
  <2> QED
    BY <1>2, <2>2, <2>3 DEF RegisterAdd, Codes
<1> QED
  BY <1>1, <1>2

LEMMA CallLockTypeInv ==
  ASSUME TypeInv, NEW r \in Runs, MCallLock(r) \/ CalleeCalls(r)
  PROVE  TypeInv'
<1> USE DEF TypeInv
<1>1. CASE MCallLock(r)
  <2>1. CASE Return(r, "Fail") /\ UNCHANGED <<phase, base, lock>>
    BY <1>1, <2>1, ReturnTypeInv DEF MCallLock, registry, TypeOK, Codes
  <2>2. CASE /\ call' = [call EXCEPT ![r].stage = "alloc"]
             /\ lock' = r
             /\ UNCHANGED <<phase, base>>
    <3> DEFINE d == [call[r] EXCEPT !.stage = "alloc"]
    <3>1. call[r] \in Calls
      BY DEF TypeOK
    <3>2. d \in Calls /\ d.stage = "alloc"
      BY <3>1 DEF Calls, Stages, CallStages
    <3>3. call' = [call EXCEPT ![r] = d]
      BY <2>2
    <3> HIDE DEF d
    <3> QED
      BY <1>1, <2>2, <3>2, <3>3, CallTypeInv DEF MCallLock, registry, TypeOK
  <2>3. CASE Panic(r)
    BY <1>1, <2>3, EndTypeInv DEF MCallLock, Panic, registry, TypeOK
  <2> QED
    BY <1>1, <2>1, <2>2, <2>3 DEF MCallLock
<1>2. CASE CalleeCalls(r)
  <2> DEFINE d == [call[r] EXCEPT !.nested = TRUE]
  <2>1. call[r] \in Calls
    BY DEF TypeOK
  <2>2. d \in Calls /\ d.stage = call[r].stage
    BY <2>1 DEF Calls
  <2>3. call' = [call EXCEPT ![r] = d]
    BY <1>2 DEF CalleeCalls
  <2>4. call[r].stage \in CallStages
    BY <1>2 DEF CalleeCalls
  <2> HIDE DEF d
  <2> QED
    BY <1>2, <2>2, <2>3, <2>4, CallTypeInv DEF CalleeCalls, CallStages, registry, TypeOK
<1> QED
  BY <1>1, <1>2

\* The steps of InstanceCaller::call.
LEMMA CalleeTypeInv ==
  ASSUME TypeInv, NEW r \in Runs,
         \/ Alloc(r) \/ AllocResult(r) \/ UndoAlloc(r) \/ Func(r)
         \/ DeallocParam(r) \/ DeallocResult(r)
  PROVE  TypeInv'
<1> USE DEF TypeInv
<1> DEFINE
      Moves(d) == d.stage \notin WaitStages /\ call' = [call EXCEPT ![r] = d]
      Kept == /\ UNCHANGED <<exports, phase, pos, base, modules, infos, callers, made>>
              /\ lock' \in Runs \cup {NoRun}
<1>1. call[r] \in Calls /\ lock \in Runs \cup {NoRun} /\ callers \in [Keys -> Runs \cup {NoRun}]
  BY DEF TypeOK
<1>2. ASSUME NEW d \in Calls, call[r].stage # "idle", Moves(d), Kept PROVE TypeInv'
  BY <1>1, <1>2, CallTypeInv DEF WaitStages
<1> HIDE DEF TypeInv, Moves
<1>3. CASE Alloc(r)
  <2>1. call[r].stage # "idle" /\ Kept
    BY <1>1, <1>3 DEF Alloc, CalleeAt, AllocFailed, registry
  <2>2. CASE call' = [call EXCEPT ![r].stage = "allocResult", ![r].owed = {"param"}]
    <3> DEFINE d == [call[r] EXCEPT !.stage = "allocResult", !.owed = {"param"}]
    <3>1. d \in Calls
      BY <1>1 DEF Calls, Stages, CallStages
    <3>2. Moves(d)
      BY <1>1, <2>2 DEF Moves, Calls, WaitStages, TypeInv, TypeOK
    <3> QED
      BY <1>2, <2>1, <3>1, <3>2
  <2>3. CASE AllocFailed(r)
    BY <1>1, <1>3, <2>1, <2>3, ReturnTypeInv DEF AllocFailed, Codes
  <2> QED
    BY <1>3, <2>2, <2>3 DEF Alloc
<1>4. CASE AllocResult(r)
  <2>1. CASE /\ call' = [call EXCEPT ![r].stage = "func", ![r].owed = @ \cup {"result"}]
             /\ UNCHANGED <<phase, base, lock>>
    <3> DEFINE d == [call[r] EXCEPT !.stage = "func", !.owed = @ \cup {"result"}]
    <3>1. d \in Calls
      BY <1>1 DEF Calls, Stages, CallStages
    <3>2. Moves(d)
      BY <1>1, <2>1 DEF Moves, Calls, WaitStages, TypeInv, TypeOK
    <3>3. call[r].stage # "idle" /\ Kept
      BY <1>1, <1>4, <2>1 DEF AllocResult, CalleeAt, registry
    <3> QED
      BY <1>2, <3>1, <3>2, <3>3
  <2>2. CASE SecondAllocFails(r) /\ UNCHANGED <<phase, base>>
    <3> DEFINE d == [call[r] EXCEPT !.stage = "undo"]
    <3>1. d \in Calls
      BY <1>1 DEF Calls, Stages, CallStages
    <3>2. Moves(d)
      BY <1>1, <2>2 DEF Moves, SecondAllocFails, Calls, WaitStages
    <3>3. call[r].stage # "idle" /\ Kept
      BY <1>1, <1>4, <2>2 DEF AllocResult, CalleeAt, SecondAllocFails, registry
    <3> QED
      BY <1>2, <3>1, <3>2, <3>3
  <2>3. CASE Panic(r)
    BY <1>1, <1>4, <2>3, EndTypeInv DEF AllocResult, Panic, registry
  <2> QED
    BY <1>4, <2>1, <2>2, <2>3 DEF AllocResult
<1>5. CASE UndoAlloc(r)
  <2> DEFINE d == Outcome("mcall", "AllocError", call[r].owed \ {"param"}, FALSE, FALSE)
  <2>1. d \in Calls
    BY <1>1, LinkAssumption DEF Outcome, Calls, Stages, Mods, Codes
  <2>2. Moves(d)
    BY <1>5 DEF Moves, UndoAlloc, Outcome, WaitStages
  <2>3. call[r].stage # "idle" /\ Kept
    BY <1>1, <1>5 DEF UndoAlloc, CalleeAt, registry
  <2> QED
    BY <1>2, <2>1, <2>2, <2>3
<1>6. CASE Func(r)
  <2>1. CASE /\ call' = [call EXCEPT ![r].stage = "deallocParam", ![r].ran = TRUE]
             /\ UNCHANGED <<phase, base, lock>>
    <3> DEFINE d == [call[r] EXCEPT !.stage = "deallocParam", !.ran = TRUE]
    <3>1. d \in Calls
      BY <1>1 DEF Calls, Stages, CallStages
    <3>2. Moves(d)
      BY <1>1, <2>1 DEF Moves, Calls, WaitStages, TypeInv, TypeOK
    <3>3. call[r].stage # "idle" /\ Kept
      BY <1>1, <1>6, <2>1 DEF Func, CalleeAt, registry
    <3> QED
      BY <1>2, <3>1, <3>2, <3>3
  <2>2. CASE /\ call' = [call EXCEPT ![r].stage = "deallocParam", ![r].result = "MCallError"]
             /\ UNCHANGED <<phase, base, lock>>
    <3> DEFINE d == [call[r] EXCEPT !.stage = "deallocParam", !.result = "MCallError"]
    <3>1. d \in Calls
      BY <1>1 DEF Calls, Stages, CallStages, Codes
    <3>2. Moves(d)
      BY <1>1, <2>2 DEF Moves, Calls, WaitStages, TypeInv, TypeOK
    <3>3. call[r].stage # "idle" /\ Kept
      BY <1>1, <1>6, <2>2 DEF Func, CalleeAt, registry
    <3> QED
      BY <1>2, <3>1, <3>2, <3>3
  <2>3. CASE Panic(r)
    BY <1>1, <1>6, <2>3, EndTypeInv DEF Func, Panic, registry
  <2> QED
    BY <1>6, <2>1, <2>2, <2>3 DEF Func
<1>7. ASSUME NEW c \in Codes, NEW ok \in BOOLEAN PROVE AfterDealloc(c, ok) \in Codes
  BY DEF AfterDealloc, Codes
<1>8. CASE DeallocParam(r)
  <2>1. PICK ok \in BOOLEAN :
          call' = [call EXCEPT ![r].stage = "deallocResult", ![r].owed = @ \ {"param"},
                               ![r].lost = ~ok, ![r].result = AfterDealloc(@, ok)]
    BY <1>8 DEF DeallocParam
  <2> DEFINE d == [call[r] EXCEPT !.stage = "deallocResult", !.owed = @ \ {"param"},
                                  !.lost = ~ok, !.result = AfterDealloc(@, ok)]
  <2>2. AfterDealloc(call[r].result, ok) \in Codes
    BY <1>1, <1>7 DEF Calls
  <2>3. d \in Calls
    BY <1>1, <2>2, ZenonT(30) DEF Calls, Stages, CallStages
  <2>4. Moves(d)
    BY <1>1, <2>1 DEF Moves, Calls, WaitStages, TypeInv, TypeOK
  <2>5. call[r].stage # "idle" /\ Kept
    BY <1>1, <1>8 DEF DeallocParam, CalleeAt, registry
  <2> QED
    BY <1>2, <2>3, <2>4, <2>5
<1>9. CASE DeallocResult(r)
  <2>1. PICK ok \in BOOLEAN :
          call' = [call EXCEPT ![r] = Outcome("mcall", AfterDealloc(@.result, ok),
                                              @.owed \ {"result"}, @.ran, @.lost \/ ~ok)]
    BY <1>9 DEF DeallocResult
  <2> DEFINE d == Outcome("mcall", AfterDealloc(call[r].result, ok),
                          call[r].owed \ {"result"}, call[r].ran, call[r].lost \/ ~ok)
  <2>2. AfterDealloc(call[r].result, ok) \in Codes
    BY <1>1, <1>7 DEF Calls
  <2>3. d \in Calls
    BY <1>1, <2>2, LinkAssumption DEF Outcome, Calls, Stages, Mods
  <2>4. Moves(d)
    BY <2>1 DEF Moves, Outcome, WaitStages
  <2>5. call[r].stage # "idle" /\ Kept
    BY <1>1, <1>9 DEF DeallocResult, CalleeAt, registry
  <2> QED
    BY <1>2, <2>3, <2>4, <2>5
<1> QED
  BY <1>3, <1>4, <1>5, <1>6, <1>8, <1>9

LEMMA NextTypeInv == TypeInv /\ [NextMoving]_vars => TypeInv'
<1> SUFFICES ASSUME TypeInv, [NextMoving]_vars PROVE TypeInv'
  OBVIOUS
<1>1. CASE UNCHANGED vars
  BY <1>1 DEF vars, registry, TypeInv, TypeOK, CallShape, LinkShape, Current
<1>2. ASSUME NEW r \in Runs, LinkStep(r) PROVE TypeInv'
  BY <1>2, LinkTypeInv
<1>3. ASSUME NEW r \in Runs, GuestStep(r) PROVE TypeInv'
  BY <1>3, GuestTypeInv
<1>4. ASSUME NEW r \in Runs, HostStep(r) PROVE TypeInv'
  BY <1>4, RegisterTypeInv, CallLockTypeInv, CalleeTypeInv DEF HostStep
<1>5. ASSUME NEW r \in Runs, GuestGrow(r) PROVE TypeInv'
  BY <1>5, GrowTypeInv
<1> QED
  BY <1>1, <1>2, <1>3, <1>4, <1>5 DEF NextMoving, Next, Step

\* Where no memory moves, every step is one of the larger specification.
LEMMA SpecMoves == Spec => MovingSpec
<1>1. [Next]_vars => [NextMoving]_vars
  BY DEF NextMoving
<1> QED
  BY <1>1, PTL DEF Spec, MovingSpec

LEMMA MovingTypeInv == MovingSpec => []TypeInv
BY InitTypeInv, NextTypeInv, PTL DEF MovingSpec

\* Every variable keeps its type, and what a host call carries fits its stage,
\* whether or not memories move.
THEOREM TypeCorrect == MovingSpec => []TypeOK
<1>1. TypeInv => TypeOK
  BY DEF TypeInv
<1> QED
  BY <1>1, MovingTypeInv, PTL

-----------------------------------------------------------------------------
\* The lock

\* How a step of run r may touch the lock.
LockMoves(r) ==
    /\ \A s \in Runs \ {r} : call'[s] = call[s]
    /\ \/ lock' = lock /\ (call'[r].stage \in CallStages <=> call[r].stage \in CallStages)
       \/ lock = NoRun /\ lock' = r /\ call'[r].stage \in CallStages
       \/ lock = r /\ lock' = NoRun /\ call'[r].stage \notin CallStages

LEMMA LockMovesHeld ==
  ASSUME TypeOK, LockHeldInCall, NEW r \in Runs, LockMoves(r)
  PROVE  LockHeldInCall'
BY LinkAssumption DEF TypeOK, LockHeldInCall, LockMoves

\* A run that ends gives the lock up if it had it.
LEMMA EndLock ==
  ASSUME TypeOK, LockHeldInCall, NEW r \in Runs, End(r),
         \/ lock' = lock /\ call[r].stage \notin CallStages
         \/ lock' = IF lock = r THEN NoRun ELSE lock
  PROVE  LockMoves(r)
<1>1. call'[r].stage = "idle" /\ \A s \in Runs \ {r} : call'[s] = call[s]
  BY DEF End, NoCall, Outcome, TypeOK
<1> QED
  BY <1>1 DEF LockMoves, LockHeldInCall, CallStages

LEMMA ReturnLock ==
  ASSUME TypeOK, LockHeldInCall, NEW r \in Runs, NEW c, Return(r, c),
         \/ lock' = lock /\ call[r].stage \notin CallStages
         \/ lock' = NoRun /\ call[r].stage \in CallStages
  PROVE  LockMoves(r)
<1>1. call'[r].stage = "idle" /\ \A s \in Runs \ {r} : call'[s] = call[s]
  BY DEF Return, Outcome, TypeOK
<1> QED
  BY <1>1 DEF LockMoves, LockHeldInCall, CallStages

LEMMA LinkLock ==
  ASSUME TypeInv, LockHeldInCall, NEW r \in Runs, LinkStep(r)
  PROVE  LockMoves(r)
<1> USE DEF TypeInv
<1>1. CASE LinkError(r)
  <2>1. call[r].stage \notin CallStages
    BY <1>1 DEF LinkError, LinkShape, CallStages
  <2> QED
    BY <1>1, <2>1, EndLock DEF LinkError
<1>2. CASE ~LinkError(r)
  BY <1>2 DEF LinkStep, Instantiate, PublishMemory, PublishInfo, GuardAfterPublish, EnterEntry,
              LockMoves
<1> QED
  BY <1>1, <1>2

LEMMA GuestLock ==
  ASSUME TypeInv, LockHeldInCall, NEW r \in Runs, GuestStep(r) \/ GuestGrow(r)
  PROVE  LockMoves(r)
<1> USE DEF TypeInv
<1>1. CASE End(r) /\ UNCHANGED lock /\ GuestRuns(r)
  BY <1>1, EndLock DEF GuestRuns, CallStages
<1>2. CASE GuestCalls(r)
  <2>1. call'[r].stage \notin CallStages /\ \A s \in Runs \ {r} : call'[s] = call[s]
    BY <1>2 DEF GuestCalls, Entering, CallStages, TypeOK
  <2> QED
    BY <1>2, <2>1 DEF GuestCalls, GuestRuns, LockMoves, CallStages
<1>3. CASE UNCHANGED <<lock, call>>
  BY <1>3 DEF LockMoves
<1> QED
  BY <1>1, <1>2, <1>3 DEF GuestStep, GuestReturn, GuestTrap, GuestGrow

LEMMA HostLock ==
  ASSUME TypeInv, LockHeldInCall, NEW r \in Runs, HostStep(r)
  PROVE  LockMoves(r)
<1> USE DEF TypeInv
<1>1. CASE Panic(r)
  BY <1>1, EndLock DEF Panic
<1>2. CASE ~Panic(r)
  <2>1. CASE RegisterFind(r)
    <3>1. CASE \E c \in Codes : Return(r, c)
      BY <2>1, <3>1, ReturnLock DEF RegisterFind, CallStages
    <3>2. CASE call' = [call EXCEPT ![r].stage = "add", ![r].name = CallerName(r)]
      BY <2>1, <3>2 DEF RegisterFind, LockMoves, CallStages, TypeOK, Calls
    <3> QED
      BY <2>1, <3>1, <3>2 DEF RegisterFind, Codes
  <2>2. CASE RegisterAdd(r)
    <3>1. \E c \in Codes : Return(r, c) /\ UNCHANGED lock
      BY <1>2, <2>2 DEF RegisterAdd, Codes
    <3> QED
      BY <2>2, <3>1, ReturnLock DEF RegisterAdd, CallStages
  <2>3. CASE MCallLock(r)
    <3>1. CASE Return(r, "Fail") /\ UNCHANGED lock
      BY <2>3, <3>1, ReturnLock DEF MCallLock, CallStages
    <3>2. CASE call' = [call EXCEPT ![r].stage = "alloc"] /\ lock' = r
      BY <2>3, <3>2 DEF MCallLock, LockMoves, CallStages, TypeOK, Calls
    <3> QED
      BY <1>2, <2>3, <3>1, <3>2 DEF MCallLock
  <2>4. CASE CalleeCalls(r)
    BY <2>4 DEF CalleeCalls, LockMoves, TypeOK, Calls
  <2>5. CASE Alloc(r)
    <3>1. CASE AllocFailed(r)
      BY <2>5, <3>1, ReturnLock DEF Alloc, AllocFailed, CalleeAt, CallStages
    <3>2. CASE ~AllocFailed(r)
      BY <2>5, <3>2 DEF Alloc, CalleeAt, LockMoves, CallStages, TypeOK, Calls
    <3> QED
      BY <3>1, <3>2
  <2>6. CASE AllocResult(r)
    BY <1>2, <2>6 DEF AllocResult, SecondAllocFails, CalleeAt, LockMoves, CallStages, TypeOK, Calls
  <2>7. CASE UndoAlloc(r)
    <3>1. call'[r].stage = "idle" /\ \A s \in Runs \ {r} : call'[s] = call[s]
      BY <2>7 DEF UndoAlloc, Outcome, TypeOK
    <3> QED
      BY <2>7, <3>1 DEF UndoAlloc, CalleeAt, LockMoves, LockHeldInCall, CallStages
  <2>8. CASE Func(r)
    BY <1>2, <2>8 DEF Func, CalleeAt, LockMoves, CallStages, TypeOK, Calls
  <2>9. CASE DeallocParam(r)
    BY <2>9 DEF DeallocParam, CalleeAt, LockMoves, CallStages, TypeOK, Calls
  <2>10. CASE DeallocResult(r)
    <3>1. call'[r].stage = "idle" /\ \A s \in Runs \ {r} : call'[s] = call[s]
      BY <2>10 DEF DeallocResult, Outcome, TypeOK
    <3> QED
      BY <2>10, <3>1 DEF DeallocResult, CalleeAt, LockMoves, LockHeldInCall, CallStages
  <2> QED
    BY <2>1, <2>2, <2>3, <2>4, <2>5, <2>6, <2>7, <2>8, <2>9, <2>10 DEF HostStep
<1> QED
  BY <1>1, <1>2

LEMMA NextLock == TypeInv /\ LockHeldInCall /\ [NextMoving]_vars => LockHeldInCall'
<1> SUFFICES ASSUME TypeInv, LockHeldInCall, [NextMoving]_vars PROVE LockHeldInCall'
  OBVIOUS
<1>1. CASE UNCHANGED vars
  BY <1>1 DEF vars, LockHeldInCall
<1>2. CASE \E r \in Runs : LockMoves(r)
  BY <1>2, LockMovesHeld DEF TypeInv
<1> QED
  BY <1>1, <1>2, LinkLock, GuestLock, HostLock DEF NextMoving, Next, Step

\* The registry stays locked across an await exactly while the run that locked
\* it is inside InstanceCaller::call: every return, trap and panic lets it go.
THEOREM LockDiscipline == MovingSpec => []LockHeldInCall
<1>1. Init => LockHeldInCall
  <2> SUFFICES ASSUME Init, NEW r \in Runs PROVE lock # r /\ call[r].stage \notin CallStages
    BY DEF LockHeldInCall
  <2>1. call[r].stage = "idle"
    BY DEF Init, NoCall, Outcome
  <2> QED
    BY <2>1, LinkAssumption DEF Init, CallStages
<1> QED
  BY <1>1, MovingTypeInv, NextLock, PTL DEF MovingSpec

-----------------------------------------------------------------------------
\* The buffers of a call and its outcome

\* What one host call has allocated, freed and found out, stage by stage.
CallProgress(c) ==
    /\ c.stage \in WaitStages \cup {"alloc"} => c.owed = {}
    /\ c.stage \in {"allocResult", "undo"} => c.owed = {"param"}
    /\ c.stage \in {"func", "deallocParam"} => c.owed = {"param", "result"}
    /\ c.stage = "deallocResult" => c.owed = {"result"}
    /\ c.stage \in {"lock"} \cup CallStages => c.kind = "mcall"
    /\ c.stage \in {"find", "add"} => c.kind = "register"
    /\ c.stage \in WaitStages \cup {"alloc", "allocResult", "undo", "func"} =>
         ~c.ran /\ ~c.lost /\ c.result = "None"
    /\ c.stage = "deallocParam" =>
         ~c.lost /\ c.result = (IF c.ran THEN "None" ELSE "MCallError")
    /\ c.stage = "deallocResult" =>
         c.result = (IF ~c.ran THEN "MCallError" ELSE IF c.lost THEN "DeallocError" ELSE "None")
    /\ c.stage = "idle" =>
         /\ c.owed = {}
         /\ c.kind = "mcall" =>
              /\ c.result = "None" <=> c.ran /\ ~c.lost
              /\ c.result = "DeallocError" <=> c.ran /\ c.lost

CallInv == \A r \in Runs : CallProgress(call[r])

LEMMA IdleProgress == CallProgress(NoCall)
BY DEF CallProgress, NoCall, Outcome, WaitStages, CallStages

LEMMA EnteringProgress ==
  ASSUME NEW n, NEW k, NEW q
  PROVE  /\ CallProgress(Entering("mcall", "lock", n, k, <<>>))
         /\ CallProgress(Entering("register", "find", n, <<>>, q))
BY DEF CallProgress, Entering, WaitStages, CallStages

\* A call returns with nothing owed.
LEMMA ReturnProgress ==
  ASSUME TypeOK, NEW r \in Runs, NEW c, Return(r, c), call[r].owed = {},
         call[r].kind = "mcall" => c \notin {"None", "DeallocError"}
  PROVE  CallProgress(call'[r])
<1>1. call'[r] = Outcome(call[r].kind, c, {}, FALSE, FALSE)
  BY DEF Return, TypeOK
<1> QED
  BY <1>1 DEF CallProgress, Outcome, WaitStages, CallStages

LEMMA RegisterProgress ==
  ASSUME TypeOK, CallInv, NEW r \in Runs,
         RegisterFind(r) \/ RegisterAdd(r) \/ MCallLock(r) \/ CalleeCalls(r)
  PROVE  CallProgress(call'[r])
<1>1. CallProgress(call[r]) /\ call[r] \in Calls
  BY DEF CallInv, TypeOK
<1>2. CASE Panic(r)
  BY <1>2, IdleProgress DEF Panic, End, TypeOK
<1>3. CASE RegisterFind(r)
  <2>1. CASE \E c \in Codes : Return(r, c)
    BY <1>1, <1>3, <2>1, ReturnProgress DEF RegisterFind, CallProgress, WaitStages
  <2>2. CASE call' = [call EXCEPT ![r].stage = "add", ![r].name = CallerName(r)]
    <3>1. call'[r] = [call[r] EXCEPT !.stage = "add", !.name = CallerName(r)]
      BY <2>2 DEF TypeOK, Calls
    <3> QED
      BY <1>1, <1>3, <3>1 DEF RegisterFind, CallProgress, WaitStages, CallStages, Calls
  <2> QED
    BY <1>3, <2>1, <2>2 DEF RegisterFind, Codes
<1>4. CASE RegisterAdd(r) /\ ~Panic(r)
  <2>1. \E c \in Codes : Return(r, c)
    BY <1>4 DEF RegisterAdd, Codes
  <2>2. call[r].owed = {} /\ call[r].kind = "register"
    BY <1>1, <1>4 DEF RegisterAdd, CallProgress, WaitStages
  <2> QED
    BY <2>1, <2>2, ReturnProgress
<1>5. CASE MCallLock(r) /\ ~Panic(r)
  <2>1. CASE Return(r, "Fail")
    BY <1>1, <1>5, <2>1, ReturnProgress DEF MCallLock, CallProgress, WaitStages
  <2>2. CASE call' = [call EXCEPT ![r].stage = "alloc"]
    <3>1. call'[r] = [call[r] EXCEPT !.stage = "alloc"]
      BY <2>2 DEF TypeOK, Calls
    <3> QED
      BY <1>1, <1>5, <3>1 DEF MCallLock, CallProgress, WaitStages, CallStages, Calls
  <2> QED
    BY <1>5, <2>1, <2>2 DEF MCallLock
<1>6. CASE CalleeCalls(r)
  <2>1. call'[r] = [call[r] EXCEPT !.nested = TRUE]
    BY <1>6 DEF CalleeCalls, TypeOK, Calls
  <2> QED
    BY <1>1, <2>1 DEF CallProgress, Calls
<1> QED
  BY <1>2, <1>3, <1>4, <1>5, <1>6

LEMMA CalleeProgress ==
  ASSUME TypeOK, CallInv, NEW r \in Runs,
         \/ Alloc(r) \/ AllocResult(r) \/ UndoAlloc(r) \/ Func(r)
         \/ DeallocParam(r) \/ DeallocResult(r)
  PROVE  CallProgress(call'[r])
<1>1. CallProgress(call[r]) /\ call[r] \in Calls
  BY DEF CallInv, TypeOK
<1>2. CASE Panic(r)
  BY <1>2, IdleProgress DEF Panic, End, TypeOK
<1>3. CASE Alloc(r)
  <2>1. CASE AllocFailed(r)
    BY <1>1, <1>3, <2>1, ReturnProgress DEF Alloc, AllocFailed, CalleeAt, CallProgress
  <2>2. CASE ~AllocFailed(r)
    <3>1. call'[r] = [call[r] EXCEPT !.stage = "allocResult", !.owed = {"param"}]
      BY <1>3, <2>2 DEF Alloc, TypeOK, Calls
    <3> QED
      BY <1>1, <1>3, <3>1 DEF Alloc, CalleeAt, CallProgress, WaitStages, CallStages, Calls
  <2> QED
    BY <2>1, <2>2
<1>4. CASE AllocResult(r) /\ ~Panic(r)
  <2>1. CASE SecondAllocFails(r)
    <3>1. call'[r] = [call[r] EXCEPT !.stage = "undo"]
      BY <2>1 DEF SecondAllocFails, TypeOK, Calls
    <3> QED
      BY <1>1, <1>4, <3>1 DEF AllocResult, CalleeAt, CallProgress, WaitStages, CallStages, Calls
  <2>2. CASE ~SecondAllocFails(r)
    <3>1. call'[r] = [call[r] EXCEPT !.stage = "func", !.owed = @ \cup {"result"}]
      BY <1>4, <2>2 DEF AllocResult, TypeOK, Calls
    <3> QED
      BY <1>1, <1>4, <3>1 DEF AllocResult, CalleeAt, CallProgress, WaitStages, CallStages, Calls
  <2> QED
    BY <2>1, <2>2
<1>5. CASE UndoAlloc(r)
  <2>1. call'[r] = Outcome("mcall", "AllocError", {}, FALSE, FALSE)
    BY <1>1, <1>5 DEF UndoAlloc, CalleeAt, CallProgress, TypeOK
  <2> QED
    BY <2>1 DEF CallProgress, Outcome, WaitStages, CallStages
<1>6. CASE Func(r) /\ ~Panic(r)
  <2>1. call[r].owed = {"param", "result"} /\ call[r].kind = "mcall"
        /\ ~call[r].ran /\ ~call[r].lost /\ call[r].result = "None"
    BY <1>1, <1>6 DEF Func, CalleeAt, CallProgress, CallStages
  <2>2. CASE call' = [call EXCEPT ![r].stage = "deallocParam", ![r].ran = TRUE]
    <3>1. call'[r] = [call[r] EXCEPT !.stage = "deallocParam", !.ran = TRUE]
      BY <2>2 DEF TypeOK, Calls
    <3>2. /\ call'[r].stage = "deallocParam" /\ call'[r].owed = call[r].owed
          /\ call'[r].kind = call[r].kind /\ call'[r].result = call[r].result
      BY <1>1, <3>1 DEF Calls
    <3>3. call'[r].lost = call[r].lost /\ call'[r].ran
      BY <1>1, <3>1 DEF Calls
    <3> QED
      BY <2>1, <3>2, <3>3 DEF CallProgress, WaitStages, CallStages
  <2>3. CASE call' = [call EXCEPT ![r].stage = "deallocParam", ![r].result = "MCallError"]
    <3>1. call'[r] = [call[r] EXCEPT !.stage = "deallocParam", !.result = "MCallError"]
      BY <2>3 DEF TypeOK, Calls
    <3> QED
      BY <1>1, <2>1, <3>1 DEF CallProgress, WaitStages, CallStages, Calls
  <2> QED
    BY <1>6, <2>2, <2>3 DEF Func
<1>7. CASE DeallocParam(r)
  <2>1. PICK ok \in BOOLEAN :
          call'[r] = [call[r] EXCEPT !.stage = "deallocResult", !.owed = @ \ {"param"},
                                     !.lost = ~ok, !.result = AfterDealloc(@, ok)]
    BY <1>7 DEF DeallocParam, TypeOK, Calls
  <2>2. /\ call[r].owed = {"param", "result"} /\ call[r].kind = "mcall"
        /\ call[r].result = IF call[r].ran THEN "None" ELSE "MCallError"
    BY <1>1, <1>7 DEF DeallocParam, CalleeAt, CallProgress, CallStages
  <2>3. /\ call'[r].stage = "deallocResult" /\ call'[r].owed = call[r].owed \ {"param"}
        /\ call'[r].kind = call[r].kind /\ call'[r].result = AfterDealloc(call[r].result, ok)
    BY <1>1, <2>1 DEF Calls
  <2>4. (call'[r].ran <=> call[r].ran) /\ (call'[r].lost <=> ~ok)
    BY <1>1, <2>1 DEF Calls
  <2>5. call'[r].owed = {"result"}
    BY <2>2, <2>3
  <2> QED
    BY <2>2, <2>3, <2>4, <2>5 DEF AfterDealloc, CallProgress, WaitStages, CallStages
<1>8. CASE DeallocResult(r)
  <2>1. PICK ok \in BOOLEAN :
          call'[r] = Outcome("mcall", AfterDealloc(call[r].result, ok),
                             call[r].owed \ {"result"}, call[r].ran, call[r].lost \/ ~ok)
    BY <1>8 DEF DeallocResult, TypeOK
  <2>2. call[r].owed \ {"result"} = {}
    BY <1>1, <1>8 DEF DeallocResult, CalleeAt, CallProgress
  <2>3. call[r].result = (IF ~call[r].ran THEN "MCallError"
                          ELSE IF call[r].lost THEN "DeallocError" ELSE "None")
    BY <1>1, <1>8 DEF DeallocResult, CalleeAt, CallProgress
  <2> QED
    BY <1>1, <2>1, <2>2, <2>3 DEF AfterDealloc, CallProgress, Outcome, WaitStages, CallStages, Calls
<1> QED
  BY <1>2, <1>3, <1>4, <1>5, <1>6, <1>7, <1>8

LEMMA LinkGuestProgress ==
  ASSUME TypeInv, CallInv, NEW r \in Runs, LinkStep(r) \/ GuestStep(r) \/ GuestGrow(r)
  PROVE  CallProgress(call'[r])
<1> USE DEF TypeInv
<1>1. CASE End(r)
  BY <1>1, IdleProgress DEF End, TypeOK
<1>2. CASE UNCHANGED call
  BY <1>2 DEF CallInv
<1>3. CASE GuestCalls(r)
  <2>1. \E n \in Reach(r) :
          \/ \E k \in Wanted : call'[r] = Entering("mcall", "lock", n, k, <<>>)
          \/ \E q \in Requests : call'[r] = Entering("register", "find", n, <<>>, q)
    BY <1>3 DEF GuestCalls, TypeOK
  <2>2. CASE \E n \in Reach(r), k \in Wanted : call'[r] = Entering("mcall", "lock", n, k, <<>>)
    <3>1. PICK n \in Reach(r), k \in Wanted : call'[r] = Entering("mcall", "lock", n, k, <<>>)
      BY <2>2
    <3> QED
      BY <3>1, EnteringProgress
  <2>3. CASE \E n \in Reach(r), q \in Requests : call'[r] = Entering("register", "find", n, <<>>, q)
    <3>1. PICK n \in Reach(r), q \in Requests : call'[r] = Entering("register", "find", n, <<>>, q)
      BY <2>3
    <3> QED
      BY <3>1, EnteringProgress
  <2> QED
    BY <2>1, <2>2, <2>3
<1> QED
  BY <1>1, <1>2, <1>3 DEF LinkStep, Instantiate, PublishMemory, PublishInfo, LinkError,
       EnterEntry, GuestStep, GuestReturn, GuestTrap, GuestGrow

LEMMA NextCallInv ==
  TypeInv /\ LockHeldInCall /\ CallInv /\ [NextMoving]_vars => CallInv'
<1> SUFFICES ASSUME TypeInv, LockHeldInCall, CallInv, [NextMoving]_vars PROVE CallInv'
  OBVIOUS
<1>1. CASE UNCHANGED vars
  BY <1>1 DEF vars, CallInv
<1>2. ASSUME NEW r \in Runs, Step(r) \/ GuestGrow(r) PROVE CallInv'
  <2>1. \A s \in Runs \ {r} : call'[s] = call[s]
    BY <1>2, LinkLock, GuestLock, HostLock DEF Step, LockMoves
  <2>2. CallProgress(call'[r])
    BY <1>2, LinkGuestProgress, RegisterProgress, CalleeProgress DEF Step, HostStep, TypeInv
  <2> QED
    BY <2>1, <2>2 DEF CallInv
<1> QED
  BY <1>1, <1>2 DEF NextMoving, Next

LEMMA MovingCallInv == MovingSpec => []CallInv
<1>1. Init => CallInv
  BY IdleProgress DEF Init, CallInv
<1> QED
  BY <1>1, MovingTypeInv, LockDiscipline, NextCallInv, PTL DEF MovingSpec

\* Every buffer mcall allocates in the callee goes back to its dealloc before
\* mcall returns, whichever call of the callee fails.
THEOREM NoBufferLeak == MovingSpec => []BuffersReturned
<1>1. CallInv => BuffersReturned
  BY DEF CallInv, CallProgress, BuffersReturned
<1> QED
  BY <1>1, MovingCallInv, PTL

\* The code mcall returns tells whether the function returned and whether its
\* buffers were freed.
THEOREM TrueOutcome == MovingSpec => []OutcomeTruth
<1>1. CallInv => OutcomeTruth
  BY DEF CallInv, CallProgress, OutcomeTruth
<1> QED
  BY <1>1, MovingCallInv, PTL

-----------------------------------------------------------------------------
\* The registry

\* register is the only writer of the callers, and it adds only methods that
\* instance_caller took.
LEMMA NextCallers ==
  TypeInv /\ CallersComplete /\ [NextMoving]_vars => CallersComplete'
<1> SUFFICES ASSUME TypeInv, CallersComplete, [NextMoving]_vars PROVE CallersComplete'
  OBVIOUS
<1>1. CASE UNCHANGED <<callers, exports>>
  BY <1>1 DEF CallersComplete
<1>2. ASSUME NEW r \in Runs, RegisterAdd(r) PROVE CallersComplete'
  <2>1. CASE UNCHANGED callers
    BY <1>2, <2>1 DEF RegisterAdd, CallersComplete
  <2>2. CASE callers' # callers
    <3> DEFINE n == call[r].name
               q == call[r].req
    <3>1. callers' = [k \in Keys |-> IF k[1] = n /\ k[2] \in Accepted(n, q) THEN r ELSE callers[k]]
      BY <1>2, <2>2 DEF RegisterAdd
    <3>2. q \in Seq(Methods) /\ exports' = exports
      BY <1>2, LinkAssumption DEF RegisterAdd, TypeInv, TypeOK, CallShape
    <3>3. \A m \in Accepted(n, q) : Callable(n, m)
      BY <3>2 DEF Accepted
    <3> HIDE DEF n, q
    <3>4. ASSUME NEW l \in Libs, NEW m \in Methods, NEW s \in Runs, callers'[<<l, m>>] = s
          PROVE  {"memory", "alloc", "dealloc", m} \subseteq exports[l]
      <4>1. CASE l = n /\ m \in Accepted(n, q)
        BY <4>1, <3>3 DEF Callable
      <4>2. CASE ~(l = n /\ m \in Accepted(n, q))
        BY <4>2, <3>1, <3>4 DEF Keys, CallersComplete
      <4> QED
        BY <4>1, <4>2
    <3> QED
      BY <3>2, <3>4 DEF CallersComplete
  <2> QED
    BY <2>1, <2>2
<1> QED
  BY <1>1, <1>2 DEF NextMoving, Next, Step, LinkStep, GuestStep, HostStep, vars, registry,
       Instantiate, PublishMemory, PublishInfo, LinkError, EnterEntry, GuestReturn, GuestTrap,
       GuestGrow, GuestCalls, RegisterFind, MCallLock, CalleeCalls, Alloc, AllocResult,
       UndoAlloc, Func, DeallocParam, DeallocResult

\* What mcall finds in the registry has every export the call of it uses.
THEOREM CompleteCallers == MovingSpec => []CallersComplete
<1>1. Init => CallersComplete
  BY LinkAssumption DEF Init, CallersComplete, Keys
<1> QED
  BY <1>1, MovingTypeInv, NextCallers, PTL DEF MovingSpec

\* Nobody writes the registry while an mcall that found its callee there runs.
THEOREM FrozenRegistry == MovingSpec => RegistryFrozen
<1>1. [NextMoving]_vars => [lock # NoRun /\ lock' = lock => UNCHANGED registry]_vars
  BY DEF NextMoving, Next, Step, LinkStep, GuestStep, HostStep, vars, registry,
       Instantiate, PublishMemory, MayPublish, PublishInfo, LinkError, EnterEntry, GuestReturn,
       GuestTrap, GuestGrow, GuestCalls, RegisterFind, RegisterAdd, MCallLock, CalleeCalls,
       Alloc, AllocResult, UndoAlloc, Func, DeallocParam, DeallocResult
<1> QED
  BY <1>1, PTL DEF MovingSpec, RegistryFrozen

-----------------------------------------------------------------------------
\* Memories that do not move

\* Only instances of one run have their memory at one address.
Apart ==
    \A r, s \in Runs : \A m, n \in Mods :
        base[r][m] # NoAddr /\ base[s][n] = base[r][m] => r = s

\* A library that is not instantiated yet has no memory.
Unlinked ==
    \A r \in Runs : \A i \in DOMAIN Plan[r] :
        i > pos[r] \/ (i = pos[r] /\ phase[r] = "link") => base[r][Plan[r][i]] = NoAddr

FoundInv == Apart /\ Unlinked /\ LibraryFound

LEMMA PlanType ==
  ASSUME NEW r \in Runs
  PROVE  /\ \A i \in DOMAIN Plan[r] : i \in Nat /\ Plan[r][i] \in Libs /\ Plan[r][i] # Entry
         /\ \A i, j \in DOMAIN Plan[r] : Plan[r][i] = Plan[r][j] => i = j
BY LinkAssumption

\* A memory that appears is new, or one of the same run.
LEMMA PlaceApart ==
  ASSUME TypeInv, Apart, NEW r \in Runs, NEW n \in Mods, NEW a \in Addrs,
         Free(a) \/ Imported(r, a), base' = [base EXCEPT ![r][n] = a]
  PROVE  Apart'
BY BaseUpdate, LinkAssumption DEF TypeInv, TypeOK, Apart, Free, Imported, Mods

\* As long as no memory is published, the names stay right; those of a run may
\* all go at once.
LEMMA KeepFound ==
  ASSUME LibraryFound, modules' = modules,
         \A s \in Runs, n \in Libs : InRegistry(s, n)' => InRegistry(s, n) /\ base'[s][n] = base[s][n],
         \A s \in Runs : \/ \A n \in Libs : InRegistry(s, n) => InRegistry(s, n)'
                         \/ \A n \in Libs : ~InRegistry(s, n)'
  PROVE  LibraryFound'
<1> SUFFICES ASSUME NEW s \in Runs, NEW a \in Addrs, NEW i \in DOMAIN Plan[s], EnteredAt(s, i, a)',
                    \A j \in DOMAIN Plan[s] : j > i => ~EnteredAt(s, j, a)'
             PROVE  modules'[a] = Plan[s][i]
  BY DEF LibraryFound
<1>1. \A j \in DOMAIN Plan[s] : EnteredAt(s, j, a)' <=> EnteredAt(s, j, a)
  BY PlanType DEF EnteredAt
<1> QED
  BY <1>1 DEF LibraryFound

\* The same, where memories and their publication are as they were.
LEMMA SameFound ==
  ASSUME FoundInv, modules' = modules, base' = base, Unlinked',
         \A s \in Runs, n \in Libs : InRegistry(s, n)' <=> InRegistry(s, n)
  PROVE  FoundInv'
<1>1. LibraryFound'
  BY KeepFound DEF FoundInv
<1> QED
  BY <1>1 DEF FoundInv, Apart

\* A run that ends leaves only the memories of the others to be found.
LEMMA EndFound ==
  ASSUME TypeInv, FoundInv, NEW r \in Runs, End(r), UNCHANGED <<pos, modules>>
  PROVE  FoundInv'
<1>1. \A s \in Runs : base'[s] = IF s = r THEN [n \in Mods |-> NoAddr] ELSE base[s]
  BY DEF End, TypeInv, TypeOK
<1>2. \A s \in Runs \ {r} : phase'[s] = phase[s]
  BY DEF End, TypeInv, TypeOK
<1>3. Apart'
  BY <1>1 DEF FoundInv, Apart
<1>4. Unlinked'
  BY <1>1, <1>2, PlanType DEF FoundInv, Unlinked, Mods
<1>5. LibraryFound'
  <2>1. \A n \in Libs : ~InRegistry(r, n)'
    BY <1>1 DEF InRegistry, Mods
  <2>2. \A s \in Runs \ {r}, n \in Libs :
           (InRegistry(s, n)' <=> InRegistry(s, n)) /\ base'[s][n] = base[s][n]
    BY <1>1, <1>2 DEF InRegistry, Current
  <2> QED
    BY <2>1, <2>2, KeepFound DEF FoundInv
<1> QED
  BY <1>3, <1>4, <1>5 DEF FoundInv

LEMMA InstantiateFound ==
  ASSUME TypeInv, FoundInv, NEW r \in Runs, Instantiate(r)
  PROVE  FoundInv'
<1>1. /\ \A s \in Runs : phase'[s] = IF s = r THEN "start" ELSE phase[s]
      /\ pos' = pos /\ modules' = modules /\ Current(r) \in Libs /\ phase[r] = "link"
      /\ pos[r] \in DOMAIN Plan[r]
  BY CurrentType DEF Instantiate, Linking, TypeInv, TypeOK, registry
<1>2. base[r][Current(r)] = NoAddr
  BY <1>1 DEF FoundInv, Unlinked, Current
<1>3. /\ Apart'
      /\ \A s \in Runs, m \in Mods : ~(s = r /\ m = Current(r)) => base'[s][m] = base[s][m]
  <2>1. CASE UNCHANGED base
    BY <2>1 DEF FoundInv, Apart
  <2>2. CASE ~UNCHANGED base
    <3>1. PICK a \in Addrs :
             (Free(a) \/ Imported(r, a)) /\ base' = [base EXCEPT ![r][Current(r)] = a]
      BY <2>2 DEF Instantiate
    <3>2. Apart'
      BY <1>1, <3>1, PlaceApart DEF FoundInv, Mods
    <3>3. \A s \in Runs, m \in Mods :
             base'[s][m] = IF s = r /\ m = Current(r) THEN a ELSE base[s][m]
      BY <1>1, <3>1, BaseUpdate DEF TypeInv, TypeOK, Mods
    <3> QED
      BY <3>2, <3>3
  <2> QED
    BY <2>1, <2>2
<1>4. Unlinked'
  <2>1. ASSUME NEW s \in Runs, NEW i \in DOMAIN Plan[s],
               i > pos[s] \/ (i = pos[s] /\ phase'[s] = "link")
        PROVE  base'[s][Plan[s][i]] = NoAddr
    <3>1. base[s][Plan[s][i]] = NoAddr
      BY <1>1, <2>1 DEF FoundInv, Unlinked
    <3>2. ~(s = r /\ Plan[s][i] = Current(r))
      BY <1>1, <2>1, PlanType DEF Current, TypeInv, TypeOK
    <3> QED
      BY <1>3, <3>1, <3>2, PlanType DEF Mods
  <2> QED
    BY <1>1, <2>1 DEF Unlinked
<1>5. \A s \in Runs, n \in Libs : InRegistry(s, n)' <=> InRegistry(s, n)
  BY <1>1, <1>2, <1>3 DEF InRegistry, Current, Mods
<1>6. \A s \in Runs, n \in Libs : InRegistry(s, n)' => base'[s][n] = base[s][n]
  BY <1>1, <1>3 DEF InRegistry, Current, Mods
<1>7. LibraryFound'
  BY <1>1, <1>5, <1>6, KeepFound DEF FoundInv
<1> QED
  BY <1>3, <1>4, <1>7 DEF FoundInv

\* The library that is entered is the last of its run, and no other run has its
\* memory: its name is the right one for the address.
LEMMA PublishFound ==
  ASSUME TypeInv, FoundInv, NEW r \in Runs, PublishMemory(r)
  PROVE  FoundInv'
<1>1. /\ \A s \in Runs : phase'[s] = IF s = r THEN "inform" ELSE phase[s]
      /\ pos' = pos /\ base' = base /\ phase[r] = "publish"
  BY DEF PublishMemory, MayPublish, TypeInv, TypeOK
<1>2. /\ Current(r) \in Libs /\ base[r][Current(r)] \in Addrs
      /\ pos[r] \in DOMAIN Plan[r] /\ Plan[r][pos[r]] = Current(r)
  BY <1>1, CurrentType DEF TypeInv, LinkShape, Current
<1>3. modules' = [modules EXCEPT ![base[r][Current(r)]] = Current(r)]
  BY DEF PublishMemory, Published
<1>4. \A s \in Runs, n \in Libs : ~(s = r /\ n = Current(r)) => (InRegistry(s, n)' <=> InRegistry(s, n))
  BY <1>1 DEF InRegistry, Current
<1>5. InRegistry(r, Current(r))'
  BY <1>1, <1>2, LinkAssumption DEF InRegistry, Current
<1>6. ASSUME NEW s \in Runs, NEW a \in Addrs, NEW i \in DOMAIN Plan[s], EnteredAt(s, i, a)',
             \A j \in DOMAIN Plan[s] : j > i => ~EnteredAt(s, j, a)'
      PROVE  modules'[a] = Plan[s][i]
  <2>1. CASE a = base[r][Current(r)]
    <3>1. s = r
      BY <1>1, <1>2, <1>6, <2>1, PlanType, LinkAssumption DEF EnteredAt, FoundInv, Apart, Mods
    <3>2. ~(pos[r] > i)
      <4>1. EnteredAt(s, pos[r], a)'
        BY <1>1, <1>2, <1>5, <2>1, <3>1 DEF EnteredAt, InRegistry, Current
      <4> QED
        BY <1>1, <1>2, <1>6, <3>1, <4>1 DEF EnteredAt, InRegistry, Current
    <3>3. ~(i > pos[r])
      <4>1. base[r][Plan[r][i]] = a
        BY <1>1, <1>6, <3>1 DEF EnteredAt
      <4> QED
        BY <3>1, <4>1, LinkAssumption DEF FoundInv, Unlinked
    <3>4. i = pos[r]
      BY <1>2, <3>1, <3>2, <3>3, PlanType
    <3> QED
      BY <1>2, <1>3, <2>1, <3>1, <3>4 DEF TypeInv, TypeOK
  <2>2. CASE a # base[r][Current(r)]
    <3>1. \A j \in DOMAIN Plan[s] : EnteredAt(s, j, a)' <=> EnteredAt(s, j, a)
      BY <1>1, <1>4, <2>2, PlanType DEF EnteredAt
    <3>2. modules[a] = Plan[s][i]
      BY <1>6, <3>1 DEF FoundInv, LibraryFound
    <3> QED
      BY <1>2, <1>3, <2>2, <3>2 DEF TypeInv, TypeOK
  <2> QED
    BY <2>1, <2>2
<1>7. LibraryFound'
  BY <1>6 DEF LibraryFound
<1>8. Unlinked'
  BY <1>1 DEF FoundInv, Unlinked
<1> QED
  BY <1>1, <1>7, <1>8 DEF FoundInv, Apart

LEMMA EnterEntryFound ==
  ASSUME TypeInv, FoundInv, NEW r \in Runs, EnterEntry(r)
  PROVE  FoundInv'
<1>1. /\ \A s \in Runs : phase'[s] = IF s = r THEN "entry" ELSE phase[s]
      /\ pos' = pos /\ modules' = modules /\ phase[r] = "link"
  BY DEF EnterEntry, TypeInv, TypeOK, registry
<1>2. Apart' /\ \A s \in Runs, n \in Libs : base'[s][n] = base[s][n]
  <2>1. CASE UNCHANGED base
    BY <2>1 DEF FoundInv, Apart
  <2>2. CASE ~UNCHANGED base
    <3>1. PICK a \in Addrs : (Free(a) \/ Imported(r, a)) /\ base' = [base EXCEPT ![r][Entry] = a]
      BY <2>2 DEF EnterEntry
    <3>2. \A s \in Runs, m \in Mods : base'[s][m] = IF s = r /\ m = Entry THEN a ELSE base[s][m]
      BY <3>1, BaseUpdate DEF TypeInv, TypeOK, Mods
    <3>3. Apart'
      BY <3>1, PlaceApart DEF FoundInv, Mods
    <3> QED
      BY <3>2, <3>3, LinkAssumption DEF Mods
  <2> QED
    BY <2>1, <2>2
<1>3. \A s \in Runs, n \in Libs : InRegistry(s, n)' <=> InRegistry(s, n)
  BY <1>1, <1>2 DEF InRegistry, Current
<1>4. LibraryFound'
  BY <1>1, <1>2, <1>3, KeepFound DEF FoundInv
<1>5. Unlinked'
  BY <1>1, <1>2, PlanType DEF FoundInv, Unlinked
<1> QED
  BY <1>2, <1>4, <1>5 DEF FoundInv

LEMMA LinkFound ==
  ASSUME TypeInv, FoundInv, NEW r \in Runs, LinkStep(r)
  PROVE  FoundInv'
<1>1. CASE PublishInfo(r)
  <2>1. /\ \A s \in Runs : phase'[s] = IF s = r THEN "init" ELSE phase[s]
        /\ pos' = pos /\ base' = base /\ modules' = modules /\ phase[r] = "inform"
    BY <1>1 DEF PublishInfo, TypeInv, TypeOK
  <2>2. Unlinked'
    BY <2>1 DEF FoundInv, Unlinked
  <2>3. \A s \in Runs, n \in Libs : InRegistry(s, n)' <=> InRegistry(s, n)
    BY <2>1 DEF InRegistry, Current
  <2> QED
    BY <2>1, <2>2, <2>3, SameFound
<1>2. CASE LinkError(r)
  BY <1>2, EndFound DEF LinkError, registry
<1> QED
  BY <1>1, <1>2, InstantiateFound, PublishFound, EnterEntryFound DEF LinkStep

LEMMA GuestFound ==
  ASSUME TypeInv, FoundInv, NEW r \in Runs, GuestStep(r)
  PROVE  FoundInv'
<1>1. CASE End(r)
  BY <1>1, EndFound DEF GuestStep, GuestReturn, GuestTrap, GuestCalls, registry, End, TypeInv, TypeOK
<1>2. CASE GuestReturn(r) /\ ~End(r)
  <2>1. base' = base /\ modules' = modules
    BY <1>2 DEF GuestReturn, registry
  <2>2. CASE phase[r] = "start"
    <3>1. /\ pos' = pos
          /\ \A s \in Runs \ {r} : phase'[s] = phase[s]
          /\ phase'[r] = IF HasMemory(r, Current(r)) THEN "publish" ELSE "inform"
      BY <1>2, <2>2 DEF GuestReturn, TypeInv, TypeOK
    <3>2. Unlinked'
      BY <2>1, <3>1 DEF FoundInv, Unlinked
    <3>3. \A s \in Runs, n \in Libs : InRegistry(s, n)' <=> InRegistry(s, n)
      BY <2>1, <2>2, <3>1 DEF InRegistry, Current, HasMemory
    <3> QED
      BY <2>1, <3>2, <3>3, SameFound
  <2>3. CASE phase[r] = "init"
    <3>1. /\ \A s \in Runs \ {r} : phase'[s] = phase[s] /\ pos'[s] = pos[s]
          /\ phase'[r] = "link" /\ pos'[r] = pos[r] + 1 /\ pos[r] \in Nat
      BY <1>2, <2>3 DEF GuestReturn, TypeInv, TypeOK
    <3>2. Unlinked'
      BY <2>1, <3>1, PlanType DEF FoundInv, Unlinked
    <3>3. \A s \in Runs, n \in Libs : InRegistry(s, n)' <=> InRegistry(s, n)
      BY <2>1, <2>3, <3>1 DEF InRegistry, Current
    <3> QED
      BY <2>1, <3>2, <3>3, SameFound
  <2> QED
    BY <1>2, <2>2, <2>3 DEF GuestReturn
<1>3. CASE GuestCalls(r)
  <2>1. UNCHANGED <<phase, pos, base, modules>>
    BY <1>3 DEF GuestCalls, registry
  <2>2. Unlinked' /\ \A s \in Runs, n \in Libs : InRegistry(s, n)' <=> InRegistry(s, n)
    BY <2>1 DEF FoundInv, Unlinked, InRegistry, Current
  <2> QED
    BY <2>1, <2>2, SameFound
<1> QED
  BY <1>1, <1>2, <1>3 DEF GuestStep, GuestTrap

LEMMA HostFound ==
  ASSUME TypeInv, FoundInv, NEW r \in Runs, HostStep(r)
  PROVE  FoundInv'
<1>1. modules' = modules /\ pos' = pos
  BY DEF HostStep, registry, RegisterFind, RegisterAdd, MCallLock, CalleeCalls, Alloc,
       AllocResult, UndoAlloc, Func, DeallocParam, DeallocResult
<1>2. CASE End(r)
  BY <1>1, <1>2, EndFound
<1>3. CASE phase' = phase /\ base' = base
  <2>1. Unlinked' /\ \A s \in Runs, n \in Libs : InRegistry(s, n)' <=> InRegistry(s, n)
    BY <1>1, <1>3 DEF FoundInv, Unlinked, InRegistry, Current
  <2> QED
    BY <1>1, <1>3, <2>1, SameFound
<1> QED
  BY <1>2, <1>3 DEF HostStep, RegisterFind, RegisterAdd, MCallLock, CalleeCalls, Alloc,
       AllocResult, UndoAlloc, Func, DeallocParam, DeallocResult, Panic

\* Where memories do not move, register finds every library that is linked by
\* the memory it has, under the name of the last library of its run entered with
\* that memory: libraries of one run may share one, never those of two runs, and
\* a memory of an ended run at the same address is replaced.
THEOREM FoundLibraries == Spec => []LibraryFound
<1>1. Init => FoundInv
  BY PlanType, LinkAssumption DEF Init, FoundInv, Apart, Unlinked, LibraryFound, EnteredAt, InRegistry, Mods
<1>2. TypeInv /\ FoundInv /\ [Next]_vars => FoundInv'
  <2>1. ASSUME FoundInv, UNCHANGED vars PROVE FoundInv'
    BY <2>1 DEF vars, registry, FoundInv, Apart, Unlinked, LibraryFound, EnteredAt, InRegistry, Current
  <2> QED
    BY <2>1, LinkFound, GuestFound, HostFound DEF Next, Step
<1>3. Spec => []TypeInv
  BY SpecMoves, MovingTypeInv, PTL
<1>4. FoundInv => LibraryFound
  BY DEF FoundInv
<1> QED
  BY <1>1, <1>2, <1>3, <1>4, PTL DEF Spec

=============================================================================

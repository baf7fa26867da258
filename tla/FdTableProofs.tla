--------------------------- MODULE FdTableProofs ---------------------------
(***************************************************************************)
(* What FdTable promises for every number of threads, resources and        *)
(* descriptors.                                                            *)
(***************************************************************************)
EXTENDS FdTable, SequenceTheorems, TLAPS

-----------------------------------------------------------------------------
\* Types

\* max_fd counts the directories and the listeners without a number.
TypeInv == TypeOK /\ maxFd <= Len(Dirs) + pos + 2

LEMMA NoCallType == NoCall \in Calls
BY TableAssumption DEF NoCall, Calls, Stages, AllOps, Fds

LEMMA AskedType ==
  ASSUME TypeInv, NEW op \in AllOps, NEW fd \in Fds, NEW stage \in Stages,
         NEW kind \in {"file", "dir"}, NEW to \in Fds
  PROVE  Asked(op, fd, stage, kind, to) \in Calls
BY DEF TypeInv, TypeOK, Asked, Calls

LEMMA OpenedType ==
  ASSUME NEW op \in AllOps \cup {"none"}, NEW x \in Res
  PROVE  Opened(op, x) \in Calls
BY TableAssumption DEF Opened, Calls, Stages, Fds

LEMMA InitTypeInv == Init => TypeInv
<1> SUFFICES ASSUME Init PROVE TypeInv
  OBVIOUS
<1>1. Preopened \in [Fds -> Res \cup {NoRes}]
  <2>1. ASSUME NEW fd \in Fds, fd < 3 PROVE Stdio[fd + 1] \in Res
    <3>1. fd + 1 \in 1 .. Len(Stdio) /\ Stdio \in Seq(Res)
      BY <2>1, TableAssumption DEF Fds
    <3> QED
      BY <3>1, ElementOfSeq
  <2>2. ASSUME NEW fd \in Fds, fd >= 3, fd < 3 + Len(Dirs) PROVE Dirs[fd - 2] \in Res
    <3>1. fd - 2 \in 1 .. Len(Dirs)
      BY <2>2, TableAssumption DEF Fds
    <3> QED
      BY <3>1, TableAssumption
  <2> QED
    BY <2>1, <2>2 DEF Preopened
<1>2. 3 + Len(Dirs) \in Fds /\ 1 \in 1 .. Len(Listens) + 1
  BY TableAssumption DEF Fds
<1>3. [t \in Threads |-> NoCall] \in [Threads -> Calls]
  BY NoCallType
<1>4. [t \in Threads |-> NoAnswer] \in [Threads -> Answers]
  BY TableAssumption DEF NoAnswer, Answers, Fds
<1> QED
  BY <1>1, <1>2, <1>3, <1>4, TableAssumption DEF Init, TypeInv, TypeOK

\* A call goes to a stage with a record of the right type.
LEMMA GoesType ==
  ASSUME TypeInv, NEW t \in Threads, NEW c \in Calls, Goes(t, c), UNCHANGED table
  PROVE  TypeInv'
BY DEF TypeInv, TypeOK, Goes, config, table

LEMMA DoneType ==
  ASSUME TypeInv, NEW t \in Threads, Done(t), UNCHANGED table
  PROVE  TypeInv'
BY NoCallType DEF TypeInv, TypeOK, Done, config, table

LEMMA ReturnType ==
  ASSUME TypeInv, NEW t \in Threads, NEW op \in {"close", "renumber", "open"}, NEW fd \in Fds,
         NEW result \in {"Ok", "Badf", "Fail"}, Return(t, op, fd, result),
         map' \in [Fds -> Res \cup {NoRes}], next' \in Fds
  PROVE  TypeInv'
<1>1. [op |-> op, fd |-> fd, result |-> result] \in Answers
  BY DEF Answers
<1> QED
  BY <1>1, NoCallType DEF TypeInv, TypeOK, Return, config

LEMMA PanicType ==
  ASSUME TypeInv, Panic, map' \in [Fds -> Res \cup {NoRes}], next' \in Fds
  PROVE  TypeInv'
BY DEF TypeInv, TypeOK, Panic, config

\* The descriptors a guest passes are descriptors; 0 is one.
LEMMA NamesType == Names \subseteq Fds /\ 0 \in Fds /\ Ops \subseteq AllOps
BY TableAssumption DEF Fds

LEMMA SetupTypeInv ==
  ASSUME TypeInv, Listen \/ Start
  PROVE  TypeInv'
<1>1. CASE Listen
  <2> DEFINE l == Listens[pos]
             fd == IF l.fd = NoFd THEN maxFd ELSE l.fd
  <2>1. pos \in DOMAIN Listens /\ pos \in Nat /\ Len(Listens) \in Nat /\ Len(Dirs) \in Nat
    BY <1>1, TableAssumption DEF Listen, TypeInv, TypeOK
  <2>2. l.res \in Res /\ l.fd \in Fds \cup {NoFd}
    <3>1. Listens \in Seq([res : Res, fd : Fds \cup {NoFd}]) /\ pos \in 1 .. Len(Listens)
      BY <1>1, TableAssumption DEF Listen, TypeInv, TypeOK
    <3>2. Listens[pos] \in [res : Res, fd : Fds \cup {NoFd}]
      BY <3>1, ElementOfSeq
    <3> QED
      BY <3>2
  <2>3. CASE fd < maxFd
    BY <1>1, <2>3 DEF Listen, TypeInv, TypeOK
  <2>4. CASE ~(fd < maxFd)
    <3>1. /\ map' = [map EXCEPT ![fd] = l.res] /\ pos' = pos + 1 /\ phase' = phase
          /\ maxFd' = IF l.fd = NoFd THEN maxFd + 1 ELSE maxFd
          /\ next' = next /\ alive' = alive /\ call' = call /\ answer' = answer
      BY <1>1, <2>4 DEF Listen
    <3>2. fd \in Fds
      BY <2>2 DEF TypeInv, TypeOK
    <3>3. map' \in [Fds -> Res \cup {NoRes}]
      BY <2>2, <3>1, <3>2 DEF TypeInv, TypeOK
    <3>4. pos' \in 1 .. Len(Listens) + 1 /\ maxFd' <= Len(Dirs) + pos' + 2 /\ maxFd' \in Fds
      BY <1>1, <2>1, <3>1, TableAssumption, SMTT(20) DEF Listen, TypeInv, TypeOK, Fds
    <3> QED
      BY <3>1, <3>3, <3>4 DEF TypeInv, TypeOK
  <2> QED
    BY <2>3, <2>4
<1>2. CASE Start
  BY <1>2 DEF Start, TypeInv, TypeOK
<1> QED
  BY <1>1, <1>2

LEMMA ThreadTypeInv ==
  ASSUME TypeInv, NEW t \in Threads, ThreadStep(t)
  PROVE  TypeInv'
<1> USE NamesType
<1>0. call[t] \in Calls /\ map \in [Fds -> Res \cup {NoRes}] /\ next \in Fds
  BY DEF TypeInv, TypeOK
<1>1. CASE Spawn(t) \/ Leave(t)
  BY <1>1 DEF Spawn, Leave, table, config, TypeInv, TypeOK
<1>2. CASE Contains(t)
  <2>1. UNCHANGED table /\ map' = map /\ next' = next
    BY <1>2 DEF Contains, table
  <2>2. ASSUME NEW fd \in Names, Return(t, "close", fd, Absent) \/ Return(t, "renumber", fd, "Badf")
        PROVE  TypeInv'
    BY <1>0, <2>1, <2>2, ReturnType DEF Absent
  <2>3. ASSUME NEW fd \in Names, NEW to \in Names,
               Goes(t, Asked("close", fd, "isFile", "file", 0))
                 \/ Goes(t, Asked("renumber", fd, "renumber", "file", to))
        PROVE  TypeInv'
    BY <2>1, <2>3, AskedType, GoesType DEF Stages, AllOps
  <2> QED
    BY <1>2, <2>2, <2>3 DEF Contains
<1>3. CASE Renumber(t)
  <2>1. Renumbered(call[t].fd, call[t].to) \in [Fds -> Res \cup {NoRes}]
    BY <1>0 DEF Renumbered, Calls
  <2>2. call[t].fd \in Fds
    BY <1>0 DEF Calls
  <2> QED
    BY <1>0, <1>3, <2>1, <2>2, ReturnType DEF Renumber
<1>4. CASE Delete(t)
  <2>1. call[t].fd \in Fds
    BY <1>0 DEF Calls
  <2>2. map' \in [Fds -> Res \cup {NoRes}] /\ next' = next
    BY <1>0, <1>4 DEF Delete
  <2> QED
    BY <1>0, <1>4, <2>1, <2>2, ReturnType, PanicType DEF Delete
<1>5. CASE IsFileStep(t)
  <2>1. UNCHANGED table
    BY <1>5 DEF IsFileStep
  <2>2. ASSUME NEW op \in {"setTimes", "stat"}, NEW fd \in Names,
               Goes(t, Asked(op, fd, IF IsFile(fd) THEN AfterIs(op) ELSE "isDir", "file", 0))
        PROVE  TypeInv'
    <3>1. (IF IsFile(fd) THEN AfterIs(op) ELSE "isDir") \in Stages
      BY DEF AfterIs, Stages
    <3>2. Asked(op, fd, IF IsFile(fd) THEN AfterIs(op) ELSE "isDir", "file", 0) \in Calls
      BY <3>1, AskedType DEF AllOps
    <3> QED
      BY <2>1, <2>2, <3>2, GoesType
  <2>3. ASSUME Goes(t, [call[t] EXCEPT !.stage = IF IsFile(call[t].fd) THEN AfterIs(call[t].op) ELSE "isDir"])
        PROVE  TypeInv'
    <3>1. [call[t] EXCEPT !.stage = IF IsFile(call[t].fd) THEN AfterIs(call[t].op) ELSE "isDir"] \in Calls
      BY <1>0 DEF AfterIs, Stages, Calls
    <3> QED
      BY <2>1, <2>3, <3>1, GoesType
  <2> QED
    BY <1>5, <2>2, <2>3 DEF IsFileStep
<1>6. CASE IsDirStep(t)
  <2>1. UNCHANGED table /\ map' = map /\ next' = next
    BY <1>6 DEF IsDirStep, table
  <2>2. [call[t] EXCEPT !.stage = AfterIs(call[t].op), !.kind = "dir"] \in Calls
    BY <1>0 DEF AfterIs, Stages, Calls
  <2>3. call[t].fd \in Fds
    BY <1>0 DEF Calls
  <2> QED
    BY <1>0, <1>6, <2>1, <2>2, <2>3, GoesType, ReturnType, DoneType DEF IsDirStep
<1>7. CASE Begin(t)
  <2>1. UNCHANGED table /\ map' = map /\ next' = next
    BY <1>7 DEF Begin, UseFile, UseDir, table
  <2>2. ASSUME NEW fd \in Names, NEW k \in {"file", "dir"},
               \/ Goes(t, Asked("use", fd, "get", k, 0))
               \/ Goes(t, Asked("accept", fd, "get", "file", 0))
               \/ Goes(t, Asked("openAt", fd, "get", "dir", 0))
        PROVE  TypeInv'
    BY <2>1, <2>2, AskedType, GoesType DEF Stages, AllOps
  <2>3. ASSUME Return(t, "open", 0, "Fail") PROVE TypeInv'
    BY <1>0, <2>1, <2>3, ReturnType
  <2> QED
    BY <1>7, <2>2, <2>3 DEF Begin, UseFile, UseDir
<1>8. CASE Get(t)
  <2>1. UNCHANGED table /\ map' = map /\ next' = next
    BY <1>8 DEF Get, table
  <2>2. [call[t] EXCEPT !.stage = IF call[t].op \in Opens THEN "open" ELSE "busy",
                        !.held = map[call[t].fd]] \in Calls
    BY <1>0 DEF Stages, Calls
  <2> QED
    BY <1>0, <1>8, <2>1, <2>2, GoesType, ReturnType, DoneType, PanicType DEF Get
<1>9. CASE Finish(t)
  BY <1>9, DoneType DEF Finish
<1>10. CASE Open(t)
  <2>1. UNCHANGED table /\ map' = map /\ next' = next
    BY <1>10 DEF Open, table
  <2>2. ASSUME NEW op \in AllOps \cup {"none"}, NEW x \in Res, Goes(t, Opened(op, x))
        PROVE  TypeInv'
    BY <2>1, <2>2, OpenedType, GoesType
  <2>3. ASSUME Return(t, "open", 0, "Fail") PROVE TypeInv'
    BY <1>0, <2>1, <2>3, ReturnType
  <2>4. (IF call[t].stage = "open" THEN call[t].op ELSE "connect") \in AllOps \cup {"none"}
    BY <1>0 DEF Calls, AllOps
  <2> QED
    BY <1>10, <2>2, <2>3, <2>4 DEF Open
<1>11. CASE Push(t)
  <2>1. CASE Full
    <3>1. UNCHANGED table /\ map' = map /\ next' = next
      BY <1>11, <2>1 DEF Push, table
    <3>2. CASE Panic
      BY <1>0, <3>1, <3>2, PanicType
    <3>3. CASE phase' = "exited" /\ UNCHANGED <<config, alive, call, answer>>
      BY <3>1, <3>3 DEF config, TypeInv, TypeOK
    <3> QED
      BY <1>11, <2>1, <3>2, <3>3 DEF Push
  <2>2. CASE ~Full
    <3>1. PICK k \in Fds :
            \/ Panic /\ UNCHANGED table
            \/ /\ map' = [map EXCEPT ![k] = call[t].held]
               /\ next' = NextKey(k)
               /\ Return(t, "open", k, "Ok")
      BY <1>11, <2>2 DEF Push
    <3>2. NextKey(k) \in Fds
      BY TableAssumption DEF NextKey, Fds
    <3>3. [map EXCEPT ![k] = call[t].held] \in [Fds -> Res \cup {NoRes}]
      BY <1>0 DEF Calls
    <3> QED
      BY <1>0, <3>1, <3>2, <3>3, PanicType, ReturnType DEF table
  <2> QED
    BY <2>1, <2>2
<1> QED
  BY <1>1, <1>2, <1>3, <1>4, <1>5, <1>6, <1>7, <1>8, <1>9, <1>10, <1>11 DEF ThreadStep

LEMMA NextTypeInv == TypeInv /\ [Next]_vars => TypeInv'
<1>1. ASSUME TypeInv, UNCHANGED vars PROVE TypeInv'
  BY <1>1 DEF vars, TypeInv, TypeOK
<1> QED
  BY <1>1, SetupTypeInv, ThreadTypeInv DEF Next

LEMMA SpecTypeInv == Spec => []TypeInv
BY InitTypeInv, NextTypeInv, PTL DEF Spec

\* Every state of the table and of the calls has its type; in particular
\* next_key stays a u32 and max_fd never passes the last listener.
THEOREM TypeCorrect == Spec => []TypeOK
<1>1. TypeInv => TypeOK
  BY DEF TypeInv
<1> QED
  BY <1>1, SpecTypeInv, PTL

-----------------------------------------------------------------------------
\* One descriptor for a resource

OneName == \A f, g \in Fds : map[f] # NoRes /\ map[f] = map[g] => f = g

\* What is about to be pushed is in no entry and in no other call.
PushInv ==
    \A t \in Threads :
        call[t].stage = "push" =>
            /\ call[t].held # NoRes
            /\ \A fd \in Fds : map[fd] # call[t].held
            /\ \A u \in Threads \ {t} : call[u].held # call[t].held

\* Before the guest runs there is no call, and the listeners to come are new.
SetupInv ==
    phase = "setup" =>
        /\ call = [t \in Threads |-> NoCall]
        /\ answer = [t \in Threads |-> NoAnswer]
        /\ \A i \in DOMAIN Listens : i >= pos => \A fd \in Fds : map[fd] # Listens[i].res

AliasInv == OneName /\ PushInv /\ SetupInv

\* A call's new record: it pushes nothing, and holds what it held, nothing, or
\* what an entry holds.
Steady(t, c) ==
    c.stage # "push" /\ (c.held = NoRes \/ c.held = call[t].held \/ \E fd \in Fds : c.held = map[fd])

\* Entries go or move, and none is new.
Moved == \A f \in Fds : map'[f] = NoRes \/ \E g \in Fds : map'[f] = map[g]

LEMMA SteadyAlias ==
  ASSUME TypeInv, AliasInv, NEW t \in Threads, phase' # "setup", OneName', Moved,
         \/ UNCHANGED call
         \/ \E c : call' = [call EXCEPT ![t] = c] /\ Steady(t, c)
  PROVE  AliasInv'
<1>1. SetupInv'
  BY DEF SetupInv
<1>2. CASE UNCHANGED call
  <2>1. PushInv'
    BY <1>2 DEF AliasInv, PushInv, Moved
  <2> QED
    BY <1>1, <2>1 DEF AliasInv
<1>3. CASE \E c : call' = [call EXCEPT ![t] = c] /\ Steady(t, c)
  <2>1. PICK c : call' = [call EXCEPT ![t] = c] /\ Steady(t, c)
    BY <1>3
  <2>2. \A u \in Threads : call'[u] = IF u = t THEN c ELSE call[u]
    BY <2>1 DEF TypeInv, TypeOK
  <2>3. PushInv'
    <3> SUFFICES ASSUME NEW u \in Threads, call'[u].stage = "push"
                 PROVE  /\ call'[u].held # NoRes
                        /\ \A fd \in Fds : map'[fd] # call'[u].held
                        /\ \A v \in Threads \ {u} : call'[v].held # call'[u].held
      BY DEF PushInv
    <3>1. u # t /\ call'[u] = call[u]
      BY <2>1, <2>2 DEF Steady
    <3>2. /\ call[u].held # NoRes
          /\ \A fd \in Fds : map[fd] # call[u].held
          /\ \A v \in Threads \ {u} : call[v].held # call[u].held
      BY <3>1 DEF AliasInv, PushInv
    <3>3. \A fd \in Fds : map'[fd] # call[u].held
      BY <3>2 DEF Moved
    <3>4. c.held # call[u].held
      BY <2>1, <3>1, <3>2 DEF Steady
    <3> QED
      BY <2>2, <3>1, <3>2, <3>3, <3>4
  <2> QED
    BY <1>1, <2>3 DEF AliasInv
<1> QED
  BY <1>2, <1>3

\* The step of a call that reads the table.
LEMMA ReadSteady ==
  ASSUME TypeInv, NEW t \in Threads,
         \/ Contains(t) \/ IsFileStep(t) \/ IsDirStep(t) \/ Begin(t) \/ Get(t) \/ Finish(t)
  PROVE  /\ UNCHANGED table
         /\ \/ UNCHANGED call
            \/ \E c : call' = [call EXCEPT ![t] = c] /\ Steady(t, c)
<1>1. Steady(t, NoCall)
  BY DEF Steady, NoCall
<1>2. \A op, fd, kind, to : \A stage \in {"isFile", "isDir", "renumber", "get"} :
         Steady(t, Asked(op, fd, stage, kind, to))
  BY DEF Steady, Asked
<1>3. call[t] \in Calls
  BY DEF TypeInv, TypeOK
<1>4. CASE Contains(t)
  BY <1>1, <1>2, <1>4 DEF Contains, Return, Goes
<1>5. CASE IsFileStep(t)
  <2>1. ASSUME NEW op \in {"setTimes", "stat"}, NEW fd \in Names,
               Goes(t, Asked(op, fd, IF IsFile(fd) THEN AfterIs(op) ELSE "isDir", "file", 0))
        PROVE  \E c : call' = [call EXCEPT ![t] = c] /\ Steady(t, c)
    <3>1. (IF IsFile(fd) THEN AfterIs(op) ELSE "isDir") \in {"isFile", "isDir", "renumber", "get"}
      BY DEF AfterIs
    <3> QED
      BY <1>2, <2>1, <3>1 DEF Goes
  <2>2. Steady(t, [call[t] EXCEPT !.stage = IF IsFile(call[t].fd) THEN AfterIs(call[t].op) ELSE "isDir"])
    BY <1>3 DEF Steady, Calls, AfterIs
  <2> QED
    BY <1>5, <2>1, <2>2 DEF IsFileStep, Goes
<1>6. CASE IsDirStep(t)
  <2>1. Steady(t, [call[t] EXCEPT !.stage = AfterIs(call[t].op), !.kind = "dir"])
    BY <1>3 DEF Steady, Calls, AfterIs
  <2> QED
    BY <1>1, <1>6, <2>1 DEF IsDirStep, Goes, Return, Done
<1>7. CASE Begin(t)
  BY <1>1, <1>2, <1>7 DEF Begin, UseFile, UseDir, Goes, Return
<1>8. CASE Get(t)
  <2>1. Steady(t, [call[t] EXCEPT !.stage = IF call[t].op \in Opens THEN "open" ELSE "busy",
                                  !.held = map[call[t].fd]])
    BY <1>3 DEF Steady, Calls
  <2> QED
    BY <1>1, <1>8, <2>1 DEF Get, Goes, Return, Done, Panic
<1>9. CASE Finish(t)
  BY <1>1, <1>9 DEF Finish, Done
<1> QED
  BY <1>4, <1>5, <1>6, <1>7, <1>8, <1>9

LEMMA ThreadRuns ==
  ASSUME NEW t \in Threads, ThreadStep(t)
  PROVE  phase = "running" /\ phase' # "setup" /\ pos' = pos
BY DEF ThreadStep, Runs, Idle, At, Spawn, Leave, Contains, Renumber, Delete, IsFileStep, IsDirStep,
       Begin, UseFile, UseDir, Get, Finish, Open, Push, Goes, Return, Done, Panic, config

LEMMA ThreadAlias ==
  ASSUME TypeInv, AliasInv, NEW t \in Threads, ThreadStep(t)
  PROVE  AliasInv'
<1>0. phase' # "setup" /\ call[t] \in Calls /\ map \in [Fds -> Res \cup {NoRes}] /\ call \in [Threads -> Calls]
  BY ThreadRuns DEF TypeInv, TypeOK
<1>1. CASE Spawn(t) \/ Leave(t)
  <2>1. map' = map /\ call' = call
    BY <1>1 DEF Spawn, Leave, table
  <2>2. OneName' /\ Moved
    BY <2>1 DEF AliasInv, OneName, Moved
  <2> QED
    BY <1>0, <2>1, <2>2, SteadyAlias
<1>2. CASE Contains(t) \/ IsFileStep(t) \/ IsDirStep(t) \/ Begin(t) \/ Get(t) \/ Finish(t)
  <2>1. map' = map
    BY <1>2, ReadSteady DEF table
  <2>2. OneName' /\ Moved
    BY <2>1 DEF AliasInv, OneName, Moved
  <2> QED
    BY <1>0, <1>2, <2>2, ReadSteady, SteadyAlias
<1>3. Steady(t, NoCall)
  BY DEF Steady, NoCall
<1>4. CASE Renumber(t)
  <2>1. call' = [call EXCEPT ![t] = NoCall]
    BY <1>4 DEF Renumber, Return
  <2>2. OneName' /\ Moved
    <3>1. CASE map' = map
      BY <3>1 DEF AliasInv, OneName, Moved
    <3>2. CASE map' # map
      <4> DEFINE from == call[t].fd
                 to == call[t].to
      <4>1. from \in Fds /\ to \in Fds
        BY <1>0 DEF Calls
      <4>2. map' = [[map EXCEPT ![from] = NoRes] EXCEPT ![to] = map[from]]
        BY <1>4, <3>2 DEF Renumber, Renumbered
      <4> HIDE DEF from, to
      <4>3. \A f \in Fds : map'[f] = IF f = to THEN map[from] ELSE IF f = from THEN NoRes ELSE map[f]
        BY <1>0, <4>1, <4>2
      <4> QED
        BY <4>1, <4>3 DEF AliasInv, OneName, Moved
    <3> QED
      BY <3>1, <3>2
  <2> QED
    BY <1>0, <1>3, <2>1, <2>2, SteadyAlias
<1>5. CASE Delete(t)
  <2>1. call' = call \/ call' = [call EXCEPT ![t] = NoCall]
    BY <1>5 DEF Delete, Return, Panic
  <2>2. map' = [map EXCEPT ![call[t].fd] = NoRes]
    BY <1>5 DEF Delete
  <2>3. \A f \in Fds : map'[f] = IF f = call[t].fd THEN NoRes ELSE map[f]
    BY <1>0, <2>2 DEF Calls
  <2>4. OneName' /\ Moved
    BY <2>3 DEF AliasInv, OneName, Moved
  <2> QED
    BY <1>0, <1>3, <2>1, <2>4, SteadyAlias
<1>6. CASE Open(t)
  <2>1. map' = map
    BY <1>6 DEF Open, table
  <2>2. OneName' /\ Moved /\ SetupInv'
    BY <1>0, <2>1 DEF AliasInv, OneName, Moved, SetupInv
  <2>3. CASE Return(t, "open", 0, "Fail")
    BY <1>0, <1>3, <2>2, <2>3, SteadyAlias DEF Return
  <2>4. ASSUME NEW op, NEW x \in Res, Fresh(x), Goes(t, Opened(op, x)) PROVE AliasInv'
    <3>1. call' = [call EXCEPT ![t] = Opened(op, x)]
      BY <2>4 DEF Goes
    <3>2. Opened(op, x).held = x /\ x # NoRes
      BY TableAssumption DEF Opened
    <3>3. \A u \in Threads \ {t} : call'[u] = call[u] /\ call[u].held # x
      BY <1>0, <2>4, <3>1 DEF Fresh, Held
    <3>4. call'[t].held = x /\ \A fd \in Fds : map'[fd] # x
      BY <1>0, <2>1, <2>4, <3>1, <3>2 DEF Fresh
    <3>5. PushInv'
      BY <2>1, <3>2, <3>3, <3>4 DEF AliasInv, PushInv
    <3> QED
      BY <2>2, <3>5 DEF AliasInv
  <2> QED
    BY <1>6, <2>3, <2>4 DEF Open
<1>7. CASE Push(t)
  <2>1. CASE map' = map /\ call' = call
    <3>1. OneName' /\ Moved
      BY <2>1 DEF AliasInv, OneName, Moved
    <3> QED
      BY <1>0, <2>1, <3>1, SteadyAlias
  <2>2. CASE ~(map' = map /\ call' = call)
    <3>1. PICK k \in Fds :
            /\ FirstFree(k)
            /\ map' = [map EXCEPT ![k] = call[t].held]
            /\ Return(t, "open", k, "Ok")
      BY <1>7, <2>2 DEF Push, Panic, table
    <3>2. call' = [call EXCEPT ![t] = NoCall] /\ call[t].stage = "push"
      BY <1>7, <3>1 DEF Return, Push, At
    <3>3. /\ call[t].held # NoRes
          /\ \A fd \in Fds : map[fd] # call[t].held
          /\ \A u \in Threads \ {t} : call[u].held # call[t].held
      BY <3>2 DEF AliasInv, PushInv
    <3>4. \A f \in Fds : map'[f] = IF f = k THEN call[t].held ELSE map[f]
      BY <1>0, <3>1
    <3>5. \A u \in Threads : call'[u] = IF u = t THEN NoCall ELSE call[u]
      BY <1>0, <3>2
    <3>6. OneName'
      BY <3>3, <3>4 DEF AliasInv, OneName
    <3>7. PushInv'
      <4> SUFFICES ASSUME NEW u \in Threads, call'[u].stage = "push"
                   PROVE  /\ call'[u].held # NoRes
                          /\ \A fd \in Fds : map'[fd] # call'[u].held
                          /\ \A v \in Threads \ {u} : call'[v].held # call'[u].held
        BY DEF PushInv
      <4>1. u # t /\ call'[u] = call[u]
        BY <3>5 DEF NoCall
      <4>2. /\ call[u].held # NoRes
            /\ \A fd \in Fds : map[fd] # call[u].held
            /\ \A v \in Threads \ {u} : call[v].held # call[u].held
        BY <4>1 DEF AliasInv, PushInv
      <4>3. NoCall.held = NoRes
        BY DEF NoCall
      <4> QED
        BY <3>3, <3>4, <3>5, <4>1, <4>2, <4>3
    <3> QED
      BY <1>0, <3>6, <3>7 DEF AliasInv, SetupInv
  <2> QED
    BY <2>1, <2>2
<1> QED
  BY <1>1, <1>2, <1>4, <1>5, <1>6, <1>7 DEF ThreadStep

LEMMA ListenAlias ==
  ASSUME TypeInv, AliasInv, Listen \/ Start
  PROVE  AliasInv'
<1>1. CASE Start
  BY <1>1 DEF Start, AliasInv, OneName, PushInv, SetupInv
<1>2. CASE Listen
  <2>1. CASE UNCHANGED map
    BY <1>2, <2>1 DEF Listen, AliasInv, OneName, PushInv, SetupInv, TypeInv, TypeOK
  <2>2. CASE ~UNCHANGED map
    <3> DEFINE fd == IF Listens[pos].fd = NoFd THEN maxFd ELSE Listens[pos].fd
               x == Listens[pos].res
    <3>1. /\ map' = [map EXCEPT ![fd] = x] /\ pos' = pos + 1 /\ phase' = phase /\ call' = call
          /\ answer' = answer /\ phase = "setup" /\ pos \in DOMAIN Listens
      BY <1>2, <2>2, TableAssumption DEF Listen, TypeInv, TypeOK
    <3>2. call = [t \in Threads |-> NoCall] /\ answer = [t \in Threads |-> NoAnswer]
      BY <3>1 DEF AliasInv, SetupInv
    <3>3. \A f \in Fds : map'[f] = x \/ map'[f] = map[f]
      BY <3>1 DEF TypeInv, TypeOK
    <3>4. \A i \in DOMAIN Listens : i >= pos => \A f \in Fds : map[f] # Listens[i].res
      BY <3>1 DEF AliasInv, SetupInv
    <3>5. OneName'
      BY <3>1, <3>4, TypeInv DEF TypeInv, TypeOK, AliasInv, OneName
    <3>6. PushInv'
      BY <3>1, <3>2 DEF PushInv, NoCall
    <3>7. \A i \in DOMAIN Listens : i >= pos + 1 => \A f \in Fds : map'[f] # Listens[i].res
      <4> SUFFICES ASSUME NEW i \in DOMAIN Listens, i >= pos + 1, NEW f \in Fds
                   PROVE  map'[f] # Listens[i].res
        OBVIOUS
      <4>1. i # pos /\ i >= pos /\ Listens[i].res # x
        BY <3>1, TableAssumption
      <4> QED
        BY <3>3, <3>4, <4>1
    <3>8. SetupInv'
      BY <3>1, <3>2, <3>7 DEF SetupInv
    <3> QED
      BY <3>5, <3>6, <3>8 DEF AliasInv
  <2> QED
    BY <2>1, <2>2
<1> QED
  BY <1>1, <1>2

LEMMA InitAlias == Init => AliasInv
<1> SUFFICES ASSUME Init PROVE AliasInv
  OBVIOUS
<1>1. OneName
  BY TableAssumption DEF Init, OneName
<1>2. PushInv
  BY DEF Init, PushInv, NoCall
<1>3. SetupInv
  BY TableAssumption DEF Init, SetupInv
<1> QED
  BY <1>1, <1>2, <1>3 DEF AliasInv

LEMMA SpecAlias == Spec => []AliasInv
<1>1. TypeInv /\ AliasInv /\ [Next]_vars => AliasInv'
  <2>1. ASSUME AliasInv, UNCHANGED vars PROVE AliasInv'
    BY <2>1 DEF vars, AliasInv, OneName, PushInv, SetupInv
  <2> QED
    BY <2>1, ListenAlias, ThreadAlias DEF Next
<1> QED
  BY <1>1, InitAlias, SpecTypeInv, PTL DEF Spec

\* No resource ever has two descriptors, and none that is being pushed has one.
THEOREM NoAliasing == Spec => []NoAlias
<1>1. AliasInv => NoAlias
  BY DEF AliasInv, OneName, PushInv, NoAlias, Live
<1> QED
  BY <1>1, SpecAlias, PTL

\* Whatever the threads do, push takes no number that is in use.
THEOREM KeptEntries == Spec => EntriesKept
<1> DEFINE Keeps ==
      \A fd \in Fds :
          phase = "running" /\ map[fd] # NoRes /\ map'[fd] # map[fd] =>
            \E t \in Threads : \/ call[t].stage = "delete" /\ call[t].fd = fd
                               \/ call[t].stage = "renumber" /\ fd \in {call[t].fd, call[t].to}
<1>1. TypeInv /\ [Next]_vars => [Keeps]_vars
  <2> SUFFICES ASSUME TypeInv, [Next]_vars PROVE Keeps
    OBVIOUS
  <2>1. CASE map' = map \/ phase # "running"
    BY <2>1
  <2>2. ASSUME NEW t \in Threads, Renumber(t) \/ Delete(t) \/ Push(t) PROVE Keeps
    <3>0. map \in [Fds -> Res \cup {NoRes}]
      BY DEF TypeInv, TypeOK
    <3>1. CASE Renumber(t)
      BY <3>0, <3>1 DEF Renumber, Renumbered, At
    <3>2. CASE Delete(t)
      BY <3>0, <3>2 DEF Delete, At
    <3>3. CASE Push(t)
      BY <3>0, <3>3 DEF Push, FirstFree, table
    <3> QED
      BY <2>2, <3>1, <3>2, <3>3
  <2> QED
    BY <2>1, <2>2 DEF Next, vars, Listen, Start, ThreadStep, Spawn, Leave, Contains, IsFileStep,
         IsDirStep, Begin, UseFile, UseDir, Get, Finish, Open, table
<1> QED
  BY <1>1, SpecTypeInv, PTL DEF Spec, EntriesKept

-----------------------------------------------------------------------------
\* One guest thread

Sole == \A t, u \in Threads : t = u

\* Where m is the table, what a check of the call c found is still so.
Sound(c, m) ==
    /\ c.stage = "isFile" => c.op = "close" /\ c.kind = "file"
    /\ c.stage \in {"isFile", "renumber"} => m[c.fd] # NoRes
    /\ c.stage = "isDir" /\ c.op = "close" => m[c.fd] # NoRes /\ Kind[m[c.fd]] # "file"
    /\ c.stage = "delete" \/ (c.stage = "get" /\ c.op = "setTimes") =>
          m[c.fd] # NoRes /\ Kind[m[c.fd]] = c.kind

SoleInv == \A t \in Threads : Sound(call[t], map)

LEMMA SoleStep ==
  ASSUME Sole, TypeInv, SoleInv, NEW t \in Threads, ThreadStep(t)
  PROVE  SoleInv'
<1>0. call[t] \in Calls /\ call \in [Threads -> Calls] /\ Sound(call[t], map) /\ Threads = {t}
  BY DEF TypeInv, TypeOK, SoleInv, Sole
<1>1. \A m : Sound(NoCall, m)
  BY DEF Sound, NoCall
<1>2. SUFFICES Sound(call'[t], map')
  BY <1>0 DEF SoleInv
<1>3. CASE map' = map /\ call' = call
  BY <1>0, <1>3
<1>4. CASE call' = [call EXCEPT ![t] = NoCall]
  BY <1>0, <1>1, <1>4
<1>5. ASSUME NEW c, Goes(t, c), UNCHANGED table, Sound(c, map) PROVE Sound(call'[t], map')
  <2>1. call'[t] = c /\ map' = map
    BY <1>0, <1>5 DEF Goes, table
  <2> QED
    BY <1>5, <2>1
<1>6. CASE Spawn(t) \/ Leave(t)
  BY <1>3, <1>6 DEF Spawn, Leave, table
<1>7. CASE Contains(t)
  <2>1. \A fd, to : map[fd] # NoRes =>
            /\ Sound(Asked("close", fd, "isFile", "file", 0), map)
            /\ Sound(Asked("renumber", fd, "renumber", "file", to), map)
    BY DEF Sound, Asked
  <2> QED
    BY <1>4, <1>5, <1>7, <2>1 DEF Contains, Return
<1>8. CASE Renumber(t) \/ Finish(t)
  BY <1>4, <1>8 DEF Renumber, Finish, Return, Done
<1>9. CASE Delete(t)
  <2>1. IsKind(call[t].fd, call[t].kind)
    BY <1>0, <1>9 DEF Delete, At, Sound, IsKind
  <2> QED
    BY <1>4, <1>9, <2>1 DEF Delete, Return
<1>10. CASE IsFileStep(t)
  <2>1. ASSUME NEW op \in {"setTimes", "stat"}, NEW fd
        PROVE  Sound(Asked(op, fd, IF IsFile(fd) THEN AfterIs(op) ELSE "isDir", "file", 0), map)
    BY DEF Sound, Asked, IsFile, IsKind, AfterIs
  <2>2. ASSUME At(t, "isFile")
        PROVE  Sound([call[t] EXCEPT !.stage = IF IsFile(call[t].fd) THEN AfterIs(call[t].op) ELSE "isDir"], map)
    <3> DEFINE c == [call[t] EXCEPT !.stage = IF IsFile(call[t].fd) THEN AfterIs(call[t].op) ELSE "isDir"]
    <3>1. call[t].op = "close" /\ map[call[t].fd] # NoRes
      BY <1>0, <2>2 DEF At, Sound
    <3>2. call[t].kind = "file"
      BY <1>0, <2>2 DEF At, Sound
    <3>3. /\ c.op = "close" /\ c.fd = call[t].fd /\ c.kind = call[t].kind
          /\ c.stage = IF IsFile(call[t].fd) THEN "delete" ELSE "isDir"
      BY <1>0, <3>1 DEF Calls, AfterIs
    <3> HIDE DEF c
    <3>4. Sound(c, map)
      BY <3>1, <3>2, <3>3 DEF Sound, IsFile, IsKind
    <3> QED
      BY <3>4 DEF c
  <2> QED
    BY <1>5, <1>10, <2>1, <2>2 DEF IsFileStep
<1>11. CASE IsDirStep(t)
  <2>1. ASSUME IsKind(call[t].fd, "dir")
        PROVE  Sound([call[t] EXCEPT !.stage = AfterIs(call[t].op), !.kind = "dir"], map)
    BY <1>0, <2>1 DEF Calls, AfterIs, Sound, IsKind
  <2> QED
    BY <1>4, <1>5, <1>11, <2>1 DEF IsDirStep, Return, Done
<1>12. CASE Begin(t)
  <2>1. \A fd, k : /\ Sound(Asked("use", fd, "get", k, 0), map)
                   /\ Sound(Asked("accept", fd, "get", k, 0), map)
                   /\ Sound(Asked("openAt", fd, "get", k, 0), map)
    BY DEF Sound, Asked
  <2> QED
    BY <1>4, <1>5, <1>12, <2>1 DEF Begin, UseFile, UseDir, Return
<1>13. CASE Get(t)
  <2>1. Sound([call[t] EXCEPT !.stage = IF call[t].op \in Opens THEN "open" ELSE "busy",
                              !.held = map[call[t].fd]], map)
    BY <1>0 DEF Calls, Sound
  <2> QED
    BY <1>3, <1>4, <1>5, <1>13, <2>1 DEF Get, Return, Done, Panic, table
<1>14. CASE Open(t)
  <2>1. \A op, x : Sound(Opened(op, x), map)
    BY DEF Sound, Opened
  <2> QED
    BY <1>4, <1>5, <1>14, <2>1 DEF Open, Return
<1>15. CASE Push(t)
  BY <1>3, <1>4, <1>15 DEF Push, Return, Panic, table
<1> QED
  BY <1>6, <1>7, <1>8, <1>9, <1>10, <1>11, <1>12, <1>13, <1>14, <1>15 DEF ThreadStep

LEMMA SpecSole ==
  ASSUME Sole
  PROVE  Spec => []SoleInv
<1>1. \A m : Sound(NoCall, m)
  BY DEF Sound, NoCall
<1>2. Init => SoleInv
  BY <1>1 DEF Init, SoleInv
<1>3. TypeInv /\ AliasInv /\ SoleInv /\ [Next]_vars => SoleInv'
  <2>1. ASSUME SoleInv, UNCHANGED vars PROVE SoleInv'
    BY <2>1 DEF vars, SoleInv
  <2>2. ASSUME AliasInv, Listen \/ Start PROVE SoleInv'
    <3>1. phase = "setup" /\ call' = call
      BY <2>2 DEF Listen, Start
    <3>2. \A t \in Threads : call'[t] = NoCall
      BY <2>2, <3>1 DEF AliasInv, SetupInv
    <3> QED
      BY <1>1, <3>2 DEF SoleInv
  <2> QED
    BY <2>1, <2>2, SoleStep DEF Next
<1> QED
  BY <1>2, <1>3, SpecTypeInv, SpecAlias, PTL DEF Spec

\* With one guest thread fd_filestat_set_times never panics: what it was told of
\* its descriptor still holds when it asks for the entry.
THEOREM EntryChecked ==
  ASSUME Sole
  PROVE  Spec => []CheckedEntry
<1>1. SoleInv => CheckedEntry
  BY DEF SoleInv, Sound, CheckedEntry
<1> QED
  BY <1>1, SpecSole, PTL

\* The step of the abstract specification that a step of the table is.
LEMMA SetupAtomic ==
  ASSUME TypeInv, AliasInv, Listen \/ Start
  PROVE  [Abstract!Next]_<<map, answer>>
<1>1. CASE Start
  BY <1>1 DEF Start
<1>2. CASE Listen
  <2>1. CASE UNCHANGED map
    BY <1>2, <2>1 DEF Listen
  <2>2. CASE ~UNCHANGED map
    <3> DEFINE fd == IF Listens[pos].fd = NoFd THEN maxFd ELSE Listens[pos].fd
    <3>1. /\ map' = [map EXCEPT ![fd] = Listens[pos].res] /\ answer' = answer
          /\ phase = "setup" /\ pos \in 1 .. Len(Listens)
      BY <1>2, <2>2, TableAssumption DEF Listen, TypeInv, TypeOK
    <3>2. Listens[pos] \in [res : Res, fd : Fds \cup {NoFd}]
      BY <3>1, ElementOfSeq, TableAssumption
    <3>3. fd \in Fds /\ Listens[pos].res \in Res
      BY <3>2 DEF TypeInv, TypeOK
    <3>4. answer = [t \in Threads |-> Abstract!NoAnswer]
      BY <3>1 DEF AliasInv, SetupInv, NoAnswer, Abstract!NoAnswer
    <3> HIDE DEF fd
    <3>5. Abstract!Grant
      BY <3>1, <3>3, <3>4 DEF Abstract!Grant
    <3> QED
      BY <3>5 DEF Abstract!Next
  <2> QED
    BY <2>1, <2>2
<1> QED
  BY <1>1, <1>2

LEMMA ThreadAtomic ==
  ASSUME TypeInv, AliasInv, SoleInv, NEW t \in Threads, ThreadStep(t)
  PROVE  [Abstract!Next]_<<map, answer>>
<1>0. /\ call[t] \in Calls /\ map \in [Fds -> Res \cup {NoRes}] /\ Sound(call[t], map)
      /\ Names \subseteq Fds
  BY TableAssumption DEF TypeInv, TypeOK, SoleInv
<1>1. CASE UNCHANGED <<map, answer>>
  BY <1>1
<1>2. ASSUME Return(t, "open", 0, "Fail"), map' = map PROVE Abstract!Next
  BY <1>2 DEF Return, Abstract!Next, Abstract!Open, Abstract!Answers
<1>3. CASE Contains(t)
  <2>1. CASE UNCHANGED answer
    BY <1>1, <1>3, <2>1 DEF Contains, table
  <2>2. ASSUME NEW fd \in Fds, map[fd] = NoRes, map' = map,
               Return(t, "close", fd, Absent) \/ Return(t, "renumber", fd, "Badf")
        PROVE  Abstract!Next
    <3>1. map' = [map EXCEPT ![fd] = NoRes]
      BY <1>0, <2>2
    <3>2. Abstract!Close(t) \/ Abstract!Renumber(t)
      BY <2>2, <3>1 DEF Return, Absent, Abstract!Close, Abstract!Renumber, Abstract!Answers
    <3> QED
      BY <3>2 DEF Abstract!Next
  <2> QED
    BY <1>0, <1>3, <2>1, <2>2 DEF Contains, Goes, table
<1>4. CASE Renumber(t)
  <2> DEFINE from == call[t].fd
             to == call[t].to
  <2>1. from \in Fds /\ to \in Fds /\ map[from] # NoRes
    BY <1>0, <1>4 DEF Calls, Renumber, At, Sound
  <2>2. map' = [[map EXCEPT ![from] = NoRes] EXCEPT ![to] = map[from]] /\ Return(t, "renumber", from, "Ok")
    BY <1>4, <2>1 DEF Renumber, Renumbered
  <2> HIDE DEF from, to
  <2>3. map' = [fd \in Fds |-> IF fd = to THEN map[from] ELSE IF fd = from THEN NoRes ELSE map[fd]]
    BY <1>0, <2>1, <2>2
  <2>4. Abstract!Renumber(t)
    BY <2>1, <2>2, <2>3 DEF Return, Abstract!Renumber, Abstract!Answers
  <2> QED
    BY <2>4 DEF Abstract!Next
<1>5. CASE Delete(t)
  <2> DEFINE fd == call[t].fd
  <2>1. fd \in Fds /\ map[fd] # NoRes /\ IsKind(fd, call[t].kind)
    BY <1>0, <1>5 DEF Calls, Delete, At, Sound, IsKind
  <2>2. map' = [map EXCEPT ![fd] = NoRes] /\ Return(t, "close", fd, "Ok")
    BY <1>5, <2>1 DEF Delete
  <2> HIDE DEF fd
  <2>3. Abstract!Close(t)
    BY <2>1, <2>2 DEF Return, Abstract!Close, Abstract!Answers
  <2> QED
    BY <2>3 DEF Abstract!Next
<1>6. CASE Spawn(t) \/ Leave(t) \/ IsFileStep(t) \/ Finish(t)
  BY <1>1, <1>6 DEF Spawn, Leave, IsFileStep, Finish, Goes, Done, table
<1>7. CASE IsDirStep(t)
  <2>1. call[t].op = "close" => IsKind(call[t].fd, "dir")
    <3>1. ASSUME call[t].op = "close" PROVE map[call[t].fd] \in Res /\ Kind[map[call[t].fd]] # "file"
      BY <1>0, <1>7, <3>1 DEF IsDirStep, At, Sound, Calls
    <3> QED
      BY <3>1, TableAssumption DEF IsKind
  <2> QED
    BY <1>1, <1>7, <2>1 DEF IsDirStep, Goes, Done, table
<1>8. CASE Begin(t) \/ Get(t) \/ Open(t)
  BY <1>1, <1>2, <1>8 DEF Begin, UseFile, UseDir, Get, Open, Goes, Done, Panic, table
<1>9. CASE Push(t)
  <2>1. CASE UNCHANGED <<map, answer>>
    BY <2>1
  <2>2. CASE ~UNCHANGED <<map, answer>>
    <3>1. PICK k \in Fds : /\ FirstFree(k)
                           /\ map' = [map EXCEPT ![k] = call[t].held]
                           /\ Return(t, "open", k, "Ok")
      BY <1>9, <2>2 DEF Push, Panic, table
    <3>2. /\ call[t].held \in Res /\ map[k] = NoRes
          /\ \A fd \in Fds : map[fd] # call[t].held
      BY <1>0, <1>9, <3>1 DEF Push, At, AliasInv, PushInv, Calls, FirstFree
    <3>3. Abstract!Open(t)
      BY <3>1, <3>2 DEF Return, Abstract!Open, Abstract!Answers
    <3> QED
      BY <3>3 DEF Abstract!Next
  <2> QED
    BY <2>1, <2>2
<1> QED
  BY <1>3, <1>4, <1>5, <1>6, <1>7, <1>8, <1>9 DEF ThreadStep

\* With one guest thread the calls that change the table implement Descriptors:
\* each takes effect at once, whatever the checks it makes before.
THEOREM TableAtomic ==
  ASSUME Sole
  PROVE  Spec => AtomicTable
<1>1. Init => Abstract!Init
  <2>1. Init => TypeOK
    BY InitTypeInv DEF TypeInv
  <2> QED
    BY <2>1 DEF Init, TypeOK, NoAnswer, Abstract!Init, Abstract!NoAnswer
<1>2. TypeInv /\ AliasInv /\ SoleInv /\ [Next]_vars => [Abstract!Next]_<<map, answer>>
  BY SetupAtomic, ThreadAtomic DEF Next, vars
<1>3. Abstract!vars = <<map, answer>>
  BY DEF Abstract!vars
<1> QED
  BY <1>1, <1>2, SpecTypeInv, SpecAlias, SpecSole, PTL DEF Spec, AtomicTable, Abstract!Spec, Abstract!vars

-----------------------------------------------------------------------------
\* Descriptors that keep their meaning

\* The guest never renumbers, next_key panics before it wraps, and no listener
\* takes a number that next_key has still to give.
Counting == "renumber" \notin Ops /\ Overflow = "panic" /\ Listens = <<>>

Watched == {"isFile", "isDir", "delete", "get"}

\* Where m is the table and n is next_key, the call c sees what it saw, or nothing.
Same(c, m, n) ==
    /\ c.stage # "renumber"
    /\ c.stage \in Watched /\ c.seen # NoRes => c.fd < n /\ m[c.fd] \in {c.seen, NoRes}

Above == \A fd \in Fds : fd >= next => map[fd] = NoRes

SameInv == Above /\ \A t \in Threads : Same(call[t], map, next)

\* A step that enters nothing in the table disturbs no other call.
LEMMA SameSteady ==
  ASSUME TypeInv, SameInv, NEW t \in Threads, next' = next,
         \A fd \in Fds : map'[fd] \in {map[fd], NoRes},
         \/ UNCHANGED call
         \/ \E c : call' = [call EXCEPT ![t] = c] /\ Same(c, map', next)
  PROVE  SameInv'
<1>1. Above'
  BY DEF SameInv, Above
<1>2. \A u \in Threads : call[u].fd \in Fds /\ Same(call[u], map, next)
  BY DEF TypeInv, TypeOK, Calls, SameInv
<1>3. \A u \in Threads : Same(call[u], map', next')
  BY <1>2 DEF Same
<1>4. CASE UNCHANGED call
  BY <1>1, <1>3, <1>4 DEF SameInv
<1>5. CASE \E c : call' = [call EXCEPT ![t] = c] /\ Same(c, map', next)
  <2>1. PICK c : call' = [call EXCEPT ![t] = c] /\ Same(c, map', next)
    BY <1>5
  <2>2. \A u \in Threads : call'[u] = IF u = t THEN c ELSE call[u]
    BY <2>1 DEF TypeInv, TypeOK
  <2> QED
    BY <1>1, <1>3, <2>1, <2>2 DEF SameInv
<1> QED
  BY <1>4, <1>5

LEMMA SameStep ==
  ASSUME Counting, TypeInv, SameInv, NEW t \in Threads, ThreadStep(t)
  PROVE  SameInv'
<1>0. /\ call[t] \in Calls /\ map \in [Fds -> Res \cup {NoRes}] /\ next \in Fds
      /\ call \in [Threads -> Calls] /\ Same(call[t], map, next) /\ Above
      /\ Names \subseteq Fds
  BY TableAssumption DEF TypeInv, TypeOK, SameInv
<1>1. \A m, n : Same(NoCall, m, n)
  BY DEF Same, NoCall, Watched
<1>2. ASSUME NEW c, Goes(t, c), UNCHANGED table, Same(c, map, next) PROVE SameInv'
  <2>1. map' = map /\ next' = next /\ call' = [call EXCEPT ![t] = c]
    BY <1>2 DEF Goes, table
  <2> QED
    BY <1>2, <2>1, SameSteady
<1>3. ASSUME UNCHANGED table, UNCHANGED call \/ call' = [call EXCEPT ![t] = NoCall] PROVE SameInv'
  <2>1. map' = map /\ next' = next
    BY <1>3 DEF table
  <2> QED
    BY <1>1, <1>3, <2>1, SameSteady
<1>4. ASSUME NEW op, NEW fd \in Fds, NEW stage, NEW kind, NEW to, stage # "renumber"
      PROVE  Same(Asked(op, fd, stage, kind, to), map, next)
  <2>1. map[fd] # NoRes => fd < next
    BY <1>0, TableAssumption DEF Above, Fds
  <2> QED
    BY <1>4, <2>1 DEF Same, Asked
<1>5. CASE Contains(t)
  BY <1>0, <1>2, <1>3, <1>4, <1>5 DEF Counting, Contains, Return, Idle
<1>6. CASE Renumber(t)
  BY <1>0, <1>6 DEF Renumber, At, Same
<1>7. CASE Delete(t)
  <2>1. /\ \A fd \in Fds : map'[fd] \in {map[fd], NoRes}
        /\ next' = next
    BY <1>0, <1>7 DEF Delete
  <2>2. UNCHANGED call \/ call' = [call EXCEPT ![t] = NoCall]
    BY <1>7 DEF Delete, Return, Panic
  <2> QED
    BY <1>1, <2>1, <2>2, SameSteady
<1>8. CASE IsFileStep(t)
  <2>1. ASSUME NEW op \in {"setTimes", "stat"}, NEW fd \in Names
        PROVE  Same(Asked(op, fd, IF IsFile(fd) THEN AfterIs(op) ELSE "isDir", "file", 0), map, next)
    <3>1. (IF IsFile(fd) THEN AfterIs(op) ELSE "isDir") # "renumber"
      BY DEF AfterIs
    <3> QED
      BY <1>0, <1>4, <3>1
  <2>2. ASSUME At(t, "isFile")
        PROVE  Same([call[t] EXCEPT !.stage = IF IsFile(call[t].fd) THEN AfterIs(call[t].op) ELSE "isDir"],
                    map, next)
    BY <1>0, <2>2 DEF At, Same, Watched, Calls, AfterIs
  <2> QED
    BY <1>2, <1>8, <2>1, <2>2 DEF IsFileStep
<1>9. CASE IsDirStep(t)
  <2>1. Same([call[t] EXCEPT !.stage = AfterIs(call[t].op), !.kind = "dir"], map, next)
    BY <1>0, <1>9 DEF IsDirStep, At, Same, Watched, Calls, AfterIs
  <2> QED
    BY <1>2, <1>3, <1>9, <2>1 DEF IsDirStep, Return, Done
<1>10. CASE Begin(t)
  BY <1>0, <1>2, <1>3, <1>4, <1>10 DEF Begin, UseFile, UseDir, Return
<1>11. CASE Get(t)
  <2>1. Same([call[t] EXCEPT !.stage = IF call[t].op \in Opens THEN "open" ELSE "busy",
                             !.held = map[call[t].fd]], map, next)
    BY <1>0 DEF Calls, Same, Watched
  <2> QED
    BY <1>2, <1>3, <1>11, <2>1 DEF Get, Return, Done, Panic
<1>12. CASE Open(t)
  <2>1. \A op, x : Same(Opened(op, x), map, next)
    BY DEF Same, Opened, Watched
  <2> QED
    BY <1>2, <1>3, <1>12, <2>1 DEF Open, Return
<1>13. CASE Spawn(t) \/ Leave(t) \/ Finish(t)
  BY <1>3, <1>13 DEF Spawn, Leave, Finish, Done
<1>14. CASE Push(t)
  <2>1. CASE UNCHANGED table /\ UNCHANGED call
    BY <1>3, <2>1
  <2>2. CASE ~(UNCHANGED table /\ UNCHANGED call)
    <3>1. PICK k \in Fds : /\ k >= next /\ k # MaxFd
                           /\ map' = [map EXCEPT ![k] = call[t].held]
                           /\ next' = NextKey(k)
                           /\ Return(t, "open", k, "Ok")
      BY <1>0, <1>14, <2>2, TableAssumption DEF Counting, Push, Panic, Fds
    <3>2. next' = k + 1 /\ next' > next /\ next \in Nat /\ k \in Nat
      BY <1>0, <3>1, TableAssumption DEF NextKey, Fds
    <3>3. \A fd \in Fds : map'[fd] = IF fd = k THEN call[t].held ELSE map[fd]
      BY <1>0, <3>1
    <3>4. Above'
      BY <1>0, <3>2, <3>3, TableAssumption DEF Above, Fds
    <3>5. \A u \in Threads : call'[u] = IF u = t THEN NoCall ELSE call[u]
      BY <1>0, <3>1 DEF Return
    <3>6. ASSUME NEW u \in Threads, u # t PROVE Same(call[u], map', next')
      <4>1. Same(call[u], map, next) /\ call[u].fd \in Fds
        BY <1>0 DEF SameInv, Calls
      <4>2. CASE call[u].stage \in Watched /\ call[u].seen # NoRes
        <5>1. call[u].fd < next /\ call[u].fd \in Nat /\ map[call[u].fd] \in {call[u].seen, NoRes}
          BY <4>1, <4>2, TableAssumption DEF Same, Fds
        <5>2. call[u].fd # k /\ call[u].fd < next'
          BY <3>1, <3>2, <5>1
        <5>3. map'[call[u].fd] = map[call[u].fd]
          BY <3>3, <4>1, <5>2
        <5> QED
          BY <4>1, <5>1, <5>2, <5>3 DEF Same
      <4>3. CASE ~(call[u].stage \in Watched /\ call[u].seen # NoRes)
        BY <4>1, <4>3 DEF Same
      <4> QED
        BY <4>2, <4>3
    <3> QED
      BY <1>1, <3>4, <3>5, <3>6 DEF SameInv
  <2> QED
    BY <2>1, <2>2
<1> QED
  BY <1>5, <1>6, <1>7, <1>8, <1>9, <1>10, <1>11, <1>12, <1>13, <1>14 DEF ThreadStep

\* A call never meets another resource than its descriptor named when it began,
\* whatever other threads close and open meanwhile: next_key gives no number twice.
THEOREM StableDescriptors ==
  ASSUME Counting
  PROVE  Spec => []DescriptorStable
<1>1. Init => SameInv
  <2>1. \A m, n : Same(NoCall, m, n)
    BY DEF Same, NoCall, Watched
  <2>2. Init => Above
    BY TableAssumption DEF Init, Above, Preopened, Fds
  <2> QED
    BY <2>1, <2>2 DEF Init, SameInv
<1>2. TypeInv /\ SameInv /\ [Next]_vars => SameInv'
  <2>1. ASSUME SameInv, UNCHANGED vars PROVE SameInv'
    BY <2>1 DEF vars, SameInv, Above
  <2>2. ASSUME TypeInv, Listen PROVE FALSE
    BY <2>2, TableAssumption DEF Counting, Listen, TypeInv, TypeOK
  <2>3. ASSUME SameInv, Start PROVE SameInv'
    BY <2>3 DEF Start, SameInv, Above
  <2> QED
    BY <2>1, <2>2, <2>3, SameStep DEF Next
<1>3. SameInv => DescriptorStable
  BY DEF SameInv, Same, DescriptorStable, Watched
<1> QED
  BY <1>1, <1>2, <1>3, SpecTypeInv, PTL DEF Spec

=============================================================================

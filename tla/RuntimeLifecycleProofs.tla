----------------------- MODULE RuntimeLifecycleProofs -----------------------
(***************************************************************************)
(* What RuntimeLifecycle promises for all limits, traps, exit statuses and *)
(* any number of guest threads.                                            *)
(***************************************************************************)
EXTENDS RuntimeLifecycle, TLAPS

-----------------------------------------------------------------------------
\* Types

\* The statuses that leave the guest are below 126, whoever asks for them.
TypeInv ==
    /\ TypeOK
    /\ ended.why = "exit" => ended.status < 126
    /\ stage = "report" => ended.by = "main"

LEMMA EndType ==
  ASSUME NEW by \in {"none", "parser", "host", "timer", "main", "thread"},
         NEW why \in {"none", "usage", "help", "arguments", "checksum", "panic", "timeout", "return", "trap", "exit",
                      "memory", "error"},
         NEW trap \in Traps \cup {"none"}, NEW status \in Nat
  PROVE  /\ End(by, why, trap, status) \in Ends
         /\ End(by, why, trap, status).by = by /\ End(by, why, trap, status).why = why
         /\ End(by, why, trap, status).trap = trap /\ End(by, why, trap, status).status = status
BY DEF End, Ends

\* The process exits with a code of eight bits.
LEMMA ExitType ==
  ASSUME TypeInv, NEW c \in 0 .. 255, NEW e \in Ends, e.why = "exit" => e.status < 126, Exit(c, e)
  PROVE  /\ stage' = "exited" /\ code' \in 0 .. 255 /\ ended' \in Ends
         /\ ended'.why = "exit" => ended'.status < 126
BY DEF Exit

LEMMA CodeType ==
  ASSUME NEW e \in Ends
  PROVE  CliExitCode(ErrorCode(e)) \in 0 .. 255
<1>1. \A c : CliExitCode(c) \in 0 .. 255
  BY DEF CliExitCode
<1> QED
  BY <1>1
LEMMA PanicType ==
  ASSUME Panic
  PROVE  /\ stage' = "exited" /\ code' = 101 /\ ended' \in Ends
         /\ ended'.by = "host" /\ ended'.why = "panic"
<1>1. End("host", "panic", "none", 0) \in Ends
  BY EndType
<1> QED
  BY <1>1, EndType DEF Panic, Exit

LEMMA InitType == Init => TypeInv
<1> SUFFICES ASSUME Init PROVE TypeInv
  OBVIOUS
<1>1. ended \in Ends /\ ended.why # "exit"
  BY EndType DEF Init
<1>2. fuel \in Limits(Nat) /\ used \in 0 .. MaxUsed /\ now \in 0 .. MaxTime
  BY LifeAssumption DEF Init, Limits
<1>4. waits \in BOOLEAN
  BY DEF Init
<1>3. stage = "load" /\ target = "none" /\ limit \in Limits(Times) /\ threads \subseteq Threads
        /\ code \in 0 .. 255 \cup {None}
  BY DEF Init, Limits
<1> QED
  BY <1>1, <1>2, <1>3, <1>4 DEF Init, TypeInv, TypeOK, HostStages

LEMMA HostType ==
  ASSUME TypeInv, HostStep
  PROVE  TypeInv'
<1> USE DEF TypeInv, TypeOK, HostStages, GuestStages
<1>0. /\ \A s : To(s) => stage' = s /\ ended' = ended /\ code' = code
      /\ configs' = configs <=> /\ file' = file /\ options' = options
                                /\ config' = config /\ limit' = limit
      /\ guest' = guest <=> /\ target' = target /\ fuel' = fuel
                            /\ used' = used /\ waits' = waits /\ threads' = threads
  BY DEF To, configs, guest
<1>1. CASE Load \/ LoggerInit
  <2>1. UNCHANGED <<configs, guest, now>>
    BY <1>1 DEF Load, LoggerInit
  <2>2. CASE To("logger") \/ To("options")
    BY <1>0, <2>1, <2>2
  <2>3. ASSUME NEW c \in {0, 2, 128, 255}, NEW by \in {"parser", "host"},
               NEW why \in {"usage", "help", "arguments", "checksum"},
               Exit(c, End(by, why, "none", 0))
        PROVE  TypeInv'
    <3>1. End(by, why, "none", 0) \in Ends /\ End(by, why, "none", 0).why # "exit"
      BY EndType, SMTT(20)
    <3> QED
      BY <1>0, <2>1, <2>3, <3>1 DEF Exit
  <2> QED
    BY <1>0, <1>1, <2>1, <2>2, <2>3, PanicType DEF Load, ParserExits, LoggerInit
<1>2. CASE ReadOptions
  <2>1. Merged \in Config
    BY DEF Merged, Config, Options
  <2>2. limit' \in Limits(Times) /\ UNCHANGED <<file, options, guest, now>>
    BY <1>2 DEF ReadOptions, Config
  <2>3. CASE To("timer") /\ config' = Merged
    BY <1>0, <2>1, <2>2, <2>3
  <2>4. CASE Panic /\ UNCHANGED config
    BY <1>0, <2>2, <2>4, PanicType
  <2> QED
    BY <1>2, <2>3, <2>4 DEF ReadOptions
<1>3. CASE StartTimer
  BY <1>0, <1>3 DEF StartTimer
<1>4. CASE TimerExpires
  <2>1. End("timer", "timeout", "none", 0) \in Ends /\ End("timer", "timeout", "none", 0).why # "exit"
    BY EndType, SMTT(20)
  <2> QED
    BY <1>0, <1>4, <2>1 DEF TimerExpires, Exit
<1>5. CASE MakeStore
  <2>1. StoreFuel \in Limits(Nat)
    BY LifeAssumption DEF StoreFuel, Config, Limits
  <2>2. CASE Panic /\ UNCHANGED fuel
    BY <1>0, <1>5, <2>2, PanicType DEF MakeStore
  <2>3. CASE To(IF config.version = 1 THEN "libraries" ELSE "link") /\ fuel' = StoreFuel
    BY <1>0, <1>5, <2>1, <2>3 DEF MakeStore
  <2> QED
    BY <1>5, <2>2, <2>3 DEF MakeStore
<1>6. CASE LoadModule \/ Prepare
  <2>1. CASE Panic /\ UNCHANGED target
    BY <1>0, <1>6, <2>1, PanicType DEF LoadModule, Prepare
  <2>2. CASE ~Panic
    BY <1>0, <1>6, <2>2 DEF LoadModule, Prepare
  <2> QED
    BY <1>0, <1>6, <2>1, <2>2 DEF LoadModule, Prepare
<1>7. CASE Report
  <2>1. (IF ended.why = "exit" THEN ended.status ELSE CliExitCode(ErrorCode(ended))) \in 0 .. 255
    BY CodeType DEF Ends
  <2> QED
    BY <1>0, <1>7, <2>1 DEF Report, Exit
<1> QED
  BY <1>1, <1>2, <1>3, <1>4, <1>5, <1>6, <1>7 DEF HostStep

LEMMA FailsType ==
  ASSUME TypeInv, NEW why \in {"return", "trap", "exit", "memory", "error"}, NEW trap \in Traps \cup {"none"},
         NEW status \in Nat, why = "exit" => status < 126, Fails(why, trap, status)
  PROVE  TypeInv'
<1>1. UNCHANGED <<configs, guest, now>>
  BY DEF Fails
<1>2. CASE Panic
  BY <1>1, <1>2, PanicType DEF configs, guest, TypeInv, TypeOK, HostStages
<1>3. CASE stage' = "report" /\ ended' = End("main", why, trap, status) /\ UNCHANGED code
  <2>1. ended' \in Ends /\ ended'.why = why /\ ended'.by = "main" /\ ended'.status = status
    BY <1>3, EndType, SMTT(20)
  <2> QED
    BY <1>1, <1>3, <2>1 DEF configs, guest, TypeInv, TypeOK, HostStages
<1> QED
  BY <1>2, <1>3 DEF Fails

LEMMA GuestType ==
  ASSUME TypeInv, GuestStep
  PROVE  TypeInv'
<1>1. CASE Run
  <2>1. Burnt(fuel) \in Limits(Nat)
    BY <1>1 DEF Run, Burnt, Limits, TypeInv, TypeOK
  <2>2. used' \in 0 .. MaxUsed
    BY <1>1, LifeAssumption DEF Run, TypeInv, TypeOK
  <2> QED
    BY <1>1, <2>1, <2>2 DEF Run, configs, TypeInv, TypeOK
<1>5. CASE HostReturns
  BY <1>5 DEF HostReturns, configs, TypeInv, TypeOK
<1>2. CASE Trap \/ OutOfFuel \/ Refused
  BY <1>2, FailsType, LifeAssumption DEF Trap, OutOfFuel, Refused
<1>3. CASE ProcExit
  BY <1>3, FailsType, LifeAssumption DEF ProcExit
<1>4. CASE Return
  <2>1. UNCHANGED <<configs, fuel, used, waits, now, threads>> /\ target' \in {target, "core"}
    BY <1>4 DEF Return
  <2>2. \/ ended' = ended /\ code' = code /\ stage' \in {"threads", "initialize", "entry"}
        \/ stage' = "report" /\ ended' = End("main", "return", "none", 0) /\ code' = code
    BY <1>4 DEF Return, To
  <2>3. ended' \in Ends /\ (ended'.why = "exit" => ended'.status < 126)
          /\ (stage' = "report" => ended'.by = "main")
    <3>1. End("main", "return", "none", 0) \in Ends /\ End("main", "return", "none", 0).why = "return"
            /\ End("main", "return", "none", 0).by = "main"
      BY EndType, SMTT(20)
    <3> QED
      BY <2>2, <3>1 DEF TypeInv, TypeOK
  <2> QED
    BY <2>1, <2>2, <2>3 DEF configs, TypeInv, TypeOK, HostStages, GuestStages
<1> QED
  BY <1>1, <1>2, <1>3, <1>4, <1>5 DEF GuestStep

LEMMA StopType ==
  ASSUME TypeInv, NEW why \in {"trap", "exit", "error"}, NEW trap \in Traps \cup {"none"}, NEW status \in Nat,
         why = "exit" => status < 126,
         Exit(ThreadCode(End("thread", why, trap, status)), End("thread", why, trap, status)),
         UNCHANGED <<configs, guest, now>>
  PROVE  TypeInv'
<1>1. ThreadCode(End("thread", why, trap, status)) \in 0 .. 255
  <2>1. /\ End("thread", why, trap, status).why = why
        /\ End("thread", why, trap, status).status = status
    BY EndType
  <2>2. CASE why = "exit"
    BY <2>1, <2>2 DEF ThreadCode
  <2>3. CASE why # "exit"
    BY <2>1, <2>3 DEF ThreadCode
  <2> QED
    BY <2>2, <2>3
<1>2. /\ stage' = "exited" /\ ended' \in Ends /\ ended'.why = why /\ ended'.status = status
      /\ code' = ThreadCode(End("thread", why, trap, status))
  BY EndType, SMTT(20) DEF Exit
<1> QED
  BY <1>1, <1>2 DEF configs, guest, TypeInv, TypeOK, HostStages

LEMMA ThreadType ==
  ASSUME TypeInv, NEW t \in Threads, ThreadReturns(t) \/ ThreadEnds(t)
  PROVE  TypeInv'
<1>1. CASE ThreadReturns(t)
  BY <1>1 DEF ThreadReturns, configs, TypeInv, TypeOK
<1>2. CASE ThreadEnds(t)
  BY <1>2, StopType, LifeAssumption DEF ThreadEnds
<1> QED
  BY <1>1, <1>2

LEMMA SpecTypeInv == Spec => []TypeInv
<1>1. TypeInv /\ [Next]_vars => TypeInv'
  <2>1. ASSUME TypeInv, UNCHANGED vars PROVE TypeInv'
    BY <2>1 DEF vars, TypeInv, TypeOK
  <2>2. ASSUME TypeInv, Spawn \/ Tick PROVE TypeInv'
    BY <2>2, LifeAssumption DEF Spawn, Tick, configs, guest, TypeInv, TypeOK
  <2> QED
    BY <2>1, <2>2, HostType, GuestType, ThreadType DEF Next
<1> QED
  BY <1>1, InitType, PTL DEF Spec

\* Every state of a run has its type; above all, the process only ever exits with
\* a code that fits eight bits.
THEOREM TypeCorrect == Spec => []TypeOK
<1>1. TypeInv => TypeOK
  BY DEF TypeInv
<1> QED
  BY <1>1, SpecTypeInv, PTL

-----------------------------------------------------------------------------
\* The exit code

CodeInv ==
    /\ stage # "exited" => code = None
    /\ stage \in {"load", "logger", "options"} => config = file
    /\ stage \in {"timer", "asleep"} => limit = file.runTime
    /\ stage = "report" => ended.why \in {"return", "trap", "exit", "memory", "error"}
    /\ ExitTruth

\* A step that ends nothing.
LEMMA QuietCode ==
  ASSUME CodeInv, stage # "exited", code' = code, stage' # "exited", UNCHANGED <<file, options>>,
         stage' \in {"load", "logger", "options"} => config' = file,
         stage' \in {"timer", "asleep"} => limit' = file.runTime,
         stage' = "report" => ended'.why \in {"return", "trap", "exit", "memory", "error"}
  PROVE  CodeInv'
BY DEF CodeInv, ExitTruth

\* A step that ends the process.
LEMMA ExitCodeInv ==
  ASSUME stage' = "exited", ExitTruth'
  PROVE  CodeInv'
BY DEF CodeInv

LEMMA HostCode ==
  ASSUME NEW c \in {101, 128, 255}, NEW why \in {"panic", "arguments", "checksum"},
         <<c, why>> \in {<<101, "panic">>, <<128, "checksum">>, <<255, "arguments">>},
         Exit(c, End("host", why, "none", 0))
  PROVE  CodeInv'
<1>1. stage' = "exited" /\ code' = c /\ ended'.by = "host" /\ ended'.why = why
  BY EndType DEF Exit
<1> QED
  BY <1>1, ExitCodeInv DEF ExitTruth

LEMMA ParserCode ==
  ASSUME ParserExits
  PROVE  CodeInv'
<1>1. /\ stage' = "exited" /\ ended'.by = "parser"
      /\ <<code', ended'.why>> \in {<<2, "usage">>, <<0, "help">>}
  BY EndType DEF ParserExits, Exit
<1> QED
  BY <1>1, ExitCodeInv DEF ExitTruth

LEMMA ReportCode ==
  ASSUME TypeInv, CodeInv, Report
  PROVE  CodeInv'
<1>1. /\ stage' = "exited" /\ ended' = ended
      /\ code' = IF ended.why = "exit" THEN ended.status ELSE CliExitCode(ErrorCode(ended))
  BY DEF Report, Exit
<1>2. ended.by = "main" /\ ended.why \in {"return", "trap", "exit", "memory", "error"}
  BY DEF Report, TypeInv, CodeInv
<1>3. CASE ended.why = "exit"
  BY <1>1, <1>3, ExitCodeInv DEF ExitTruth, Exits
<1>4. CASE ended.why = "trap" /\ ended.trap \in DOMAIN TrapCode
  <2>1. ErrorCode(ended) = TrapCode[ended.trap]
    BY <1>4 DEF ErrorCode
  <2>2. TrapCode[ended.trap] \in 1 .. 13
    BY <1>4 DEF TrapCode
  <2>3. code' = TrapCode[ended.trap]
    BY <1>1, <1>4, <2>1, <2>2 DEF CliExitCode
  <2> QED
    BY <1>1, <1>2, <1>4, <2>2, <2>3, ExitCodeInv DEF ExitTruth
<1>5. CASE \/ ended.why = "trap" /\ ended.trap \notin DOMAIN TrapCode
           \/ ended.why = "error"
  <2>1. ErrorCode(ended) = -1
    BY <1>5 DEF ErrorCode
  <2>2. code' = 255
    BY <1>1, <1>5, <2>1 DEF CliExitCode
  <2> QED
    BY <1>1, <1>2, <1>5, <2>2, ExitCodeInv DEF ExitTruth
<1>6. CASE ended.why = "return"
  <2>1. code' = 0
    BY <1>1, <1>6 DEF CliExitCode, ErrorCode
  <2> QED
    BY <1>1, <1>2, <1>6, <2>1, ExitCodeInv DEF ExitTruth
<1>7. CASE ended.why = "memory"
  <2>1. code' = 16
    BY <1>1, <1>7 DEF CliExitCode, ErrorCode
  <2> QED
    BY <1>1, <1>2, <1>7, <2>1, ExitCodeInv DEF ExitTruth
<1> QED
  BY <1>2, <1>3, <1>4, <1>5, <1>6, <1>7

LEMMA HostCodeInv ==
  ASSUME TypeInv, CodeInv, HostStep
  PROVE  CodeInv'
<1>1. CASE Load \/ LoggerInit
  <2>1. CASE To("logger") \/ To("options")
    BY <1>1, <2>1, QuietCode DEF CodeInv, Load, LoggerInit, To, configs
  <2> QED
    BY <1>1, <2>1, HostCode, ParserCode DEF Load, LoggerInit, Panic
<1>2. CASE ReadOptions
  <2>1. CASE To("timer")
    <3>1. limit' = file.runTime
      BY <1>2 DEF ReadOptions, CodeInv
    <3> QED
      BY <1>2, <2>1, <3>1, QuietCode DEF CodeInv, ReadOptions, To
  <2> QED
    BY <1>2, <2>1, HostCode DEF ReadOptions, Panic
<1>3. CASE StartTimer
  BY <1>3, QuietCode DEF CodeInv, StartTimer, To, configs
<1>4. CASE TimerExpires
  <2>1. stage' = "exited" /\ code' = 15 /\ ended'.by = "timer"
    BY <1>4, EndType DEF TimerExpires, Exit
  <2>2. file'.runTime = now'
    BY <1>4 DEF TimerExpires, CodeInv, configs
  <2> QED
    BY <2>1, <2>2, ExitCodeInv DEF ExitTruth
<1>5. CASE MakeStore \/ LoadModule \/ Prepare
  <2>1. CASE Panic
    BY <2>1, HostCode DEF Panic
  <2>2. CASE ~Panic
    BY <1>5, <2>2, QuietCode DEF CodeInv, MakeStore, LoadModule, Prepare, To, configs
  <2> QED
    BY <2>1, <2>2
<1> QED
  BY <1>1, <1>2, <1>3, <1>4, <1>5, ReportCode DEF HostStep

LEMMA GuestCodeInv ==
  ASSUME TypeInv, CodeInv, GuestStep
  PROVE  CodeInv'
<1>1. stage \in GuestStages
  BY DEF GuestStep, Run, HostReturns, Trap, OutOfFuel, ProcExit, Refused, Return, Running, InGuest
<1>2. CASE Run \/ HostReturns
  BY <1>1, <1>2, QuietCode DEF CodeInv, Run, HostReturns, configs, GuestStages
<1>3. ASSUME NEW why \in {"return", "trap", "exit", "memory", "error"}, NEW trap \in Traps \cup {"none"},
             NEW status \in Nat, Fails(why, trap, status)
      PROVE  CodeInv'
  <2>1. CASE Panic
    BY <2>1, HostCode DEF Panic
  <2>2. CASE stage' = "report" /\ ended' = End("main", why, trap, status) /\ UNCHANGED code
    BY <1>1, <1>3, <2>2, QuietCode, EndType DEF Fails, CodeInv, configs, GuestStages
  <2> QED
    BY <1>3, <2>1, <2>2 DEF Fails
<1>4. CASE Trap \/ OutOfFuel \/ Refused
  BY <1>3, <1>4, LifeAssumption DEF Trap, OutOfFuel, Refused
<1>5. CASE ProcExit
  BY <1>3, <1>5, LifeAssumption DEF ProcExit
<1>6. CASE Return
  <2>1. code' = code /\ UNCHANGED configs
    BY <1>6 DEF Return, To
  <2>2. \/ stage' \in {"threads", "initialize", "entry"}
        \/ stage' = "report" /\ ended'.why = "return"
    BY <1>6, EndType DEF Return, To
  <2> QED
    BY <1>1, <2>1, <2>2, QuietCode DEF CodeInv, configs, GuestStages
<1> QED
  BY <1>2, <1>4, <1>5, <1>6 DEF GuestStep

LEMMA ThreadCodeInv ==
  ASSUME TypeInv, CodeInv, NEW t \in Threads, ThreadReturns(t) \/ ThreadEnds(t)
  PROVE  CodeInv'
<1>1. CASE ThreadReturns(t)
  BY <1>1, QuietCode DEF CodeInv, ThreadReturns, Alive, configs
<1>2. ASSUME NEW why \in {"trap", "exit", "error"}, NEW trap \in Traps \cup {"none"}, NEW status \in Nat,
             Exit(ThreadCode(End("thread", why, trap, status)), End("thread", why, trap, status))
      PROVE  CodeInv'
  <2> DEFINE e == End("thread", why, trap, status)
  <2>1. e.by = "thread" /\ e.why = why /\ e.status = status
    BY EndType
  <2> HIDE DEF e
  <2>2. stage' = "exited" /\ code' = ThreadCode(e) /\ ended' = e
    BY <1>2 DEF Exit, e
  <2>3. CASE why = "exit"
    BY <2>1, <2>2, <2>3, ExitCodeInv DEF ExitTruth, Exits, ThreadCode
  <2>4. CASE why = "trap"
    BY <2>1, <2>2, <2>4, ExitCodeInv DEF ExitTruth, ThreadCode
  <2>5. CASE why = "error"
    BY <2>1, <2>2, <2>5, ExitCodeInv DEF ExitTruth, ThreadCode
  <2> QED
    BY <2>3, <2>4, <2>5
<1>3. CASE ThreadEnds(t)
  BY <1>2, <1>3, LifeAssumption DEF ThreadEnds
<1> QED
  BY <1>1, <1>3

\* However the threads race, the exit code names what ended the process: a trap
\* of the main thread, the status the guest asked for, the time limit, the command
\* line.  Two codes have two meanings: 2 is also a mistake in the command line,
\* 0 also the help.
THEOREM TrueExit == Spec => []ExitTruth
<1>1. Init => CodeInv
  BY DEF Init, CodeInv, ExitTruth
<1>2. TypeInv /\ CodeInv /\ [Next]_vars => CodeInv'
  <2>1. ASSUME CodeInv, UNCHANGED vars PROVE CodeInv'
    BY <2>1 DEF vars, CodeInv, ExitTruth, Exits
  <2>2. ASSUME CodeInv, Spawn \/ Tick PROVE CodeInv'
    BY <2>2, QuietCode DEF CodeInv, Spawn, Tick, InGuest, GuestStages, configs
  <2> QED
    BY <2>1, <2>2, HostCodeInv, GuestCodeInv, ThreadCodeInv DEF Next
<1>3. CodeInv => ExitTruth
  BY DEF CodeInv
<1> QED
  BY <1>1, <1>2, <1>3, SpecTypeInv, PTL DEF Spec

-----------------------------------------------------------------------------
\* Fuel

FuelInv ==
    /\ stage \in {"load", "logger", "options", "timer", "asleep", "engine"} => used = 0
    /\ stage \in GuestStages \cup {"link", "threads", "report"} /\ config.fuel # None =>
          fuel \in Nat /\ used + fuel <= config.fuel

\* The guest never runs more instructions than the configuration allows, over all
\* the stages in which it runs.
THEOREM BoundedFuel == Spec => []FuelBound
<1>1. Init => FuelInv
  BY DEF Init, FuelInv, GuestStages
<1>2. TypeInv /\ FuelInv /\ [Next]_vars => FuelInv'
  <2> SUFFICES ASSUME TypeInv, FuelInv, [Next]_vars PROVE FuelInv'
    OBVIOUS
  <2>0. config.fuel # None => config.fuel \in Nat
    BY LifeAssumption DEF TypeInv, TypeOK, Config, Limits
  <2>1. CASE stage' = "exited"
    BY <2>1 DEF FuelInv, GuestStages
  <2>2. CASE Load \/ LoggerInit \/ ReadOptions \/ StartTimer \/ TimerExpires \/ Report
    BY <2>1, <2>2 DEF Load, LoggerInit, ReadOptions, StartTimer, TimerExpires, Report, To, Exit, Panic,
       ParserExits, configs, guest, FuelInv, GuestStages
  <2>3. CASE MakeStore
    <3>1. CASE stage' # "exited"
      <4>1. used = 0 /\ fuel' = config.fuel /\ used' = used /\ config' = config
        BY <2>3, <3>1 DEF MakeStore, Panic, Exit, StoreFuel, configs, FuelInv
      <4>2. stage' \in {"libraries", "link"}
        BY <2>3, <3>1 DEF MakeStore, Panic, Exit, To
      <4> QED
        BY <2>0, <4>1, <4>2 DEF FuelInv
    <3> QED
      BY <2>1, <3>1
  <2>4. CASE Run
    <3>1. config.fuel # None => used' + fuel' <= config.fuel /\ fuel' \in Nat
      <4> SUFFICES ASSUME config.fuel # None PROVE used' + fuel' <= config.fuel /\ fuel' \in Nat
        OBVIOUS
      <4>1. fuel \in Nat /\ used + fuel <= config.fuel /\ fuel # 0 /\ fuel # None
        BY <2>4, LifeAssumption DEF Run, Running, InGuest, FuelInv
      <4>2. fuel' = fuel - 1 /\ used' \in {used, used + 1} /\ used \in Nat
        BY <2>4, <4>1, LifeAssumption DEF Run, Burnt, TypeInv, TypeOK
      <4> QED
        BY <2>0, <4>1, <4>2
    <3> QED
      BY <2>4, <3>1 DEF Run, Running, InGuest, configs, FuelInv, GuestStages
  <2>5. CASE LoadModule \/ Prepare \/ HostReturns \/ Trap \/ OutOfFuel \/ ProcExit \/ Refused \/ Return \/ Spawn \/ Tick
    <3>1. /\ UNCHANGED <<config, fuel, used>>
          /\ \/ stage' = stage
             \/ stage \in GuestStages \cup {"link", "threads"}
      BY <2>5 DEF LoadModule, Prepare, HostReturns, Trap, OutOfFuel, ProcExit, Refused, Return, Spawn, Tick,
         Fails, Running, InGuest, configs, guest
    <3>2. \/ stage' \in {stage, "exited"}
          \/ stage' \in GuestStages \cup {"threads", "report"}
      BY <2>5 DEF LoadModule, Prepare, HostReturns, Trap, OutOfFuel, ProcExit, Refused, Return, Spawn, Tick,
         Fails, Panic, Exit, To, GuestStages
    <3>3. CASE stage' = stage
      BY <3>1, <3>3 DEF FuelInv
    <3>4. CASE stage' # stage /\ stage' \in GuestStages \cup {"threads", "report"}
      <4>1. stage \in GuestStages \cup {"link", "threads"} /\ stage' \notin {"load", "logger", "options",
                                                            "timer", "asleep", "engine"}
        BY <3>1, <3>4 DEF GuestStages
      <4> QED
        BY <3>1, <4>1 DEF FuelInv
    <3> QED
      BY <2>1, <3>2, <3>3, <3>4
  <2>6. ASSUME NEW t \in Threads, ThreadReturns(t) \/ ThreadEnds(t) PROVE FuelInv'
    BY <2>1, <2>6 DEF ThreadReturns, ThreadEnds, Exit, configs, FuelInv
  <2>7. CASE UNCHANGED vars
    BY <2>7 DEF vars, FuelInv
  <2> QED
    BY <2>2, <2>3, <2>4, <2>5, <2>6, <2>7 DEF Next, HostStep, GuestStep
<1>3. TypeInv /\ FuelInv => FuelBound
  <2> SUFFICES ASSUME TypeInv, FuelInv, config.fuel # None,
                      stage \in GuestStages \cup {"threads", "report"}
               PROVE  used <= config.fuel
    BY DEF FuelBound
  <2>1. config.fuel \in Nat
    BY LifeAssumption DEF TypeInv, TypeOK, Config, Limits
  <2>2. used \in Nat
    BY LifeAssumption DEF TypeInv, TypeOK
  <2>3. fuel \in Nat /\ used + fuel <= config.fuel
    BY DEF FuelInv
  <2> QED
    BY <2>1, <2>2, <2>3
<1> QED
  BY <1>1, <1>2, <1>3, SpecTypeInv, PTL DEF Spec

=============================================================================

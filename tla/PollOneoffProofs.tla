-------------------------- MODULE PollOneoffProofs --------------------------
(***************************************************************************)
(* Theorems of PollOneoff, for every set of threads, files and requests,   *)
(* every clock and every number of calls: its types, that calls report     *)
(* what they should (SomeEvent, WakeTruth), and that the timeout of        *)
(* poll(2) reaches the deadline (PanicUnclocked).                          *)
(***************************************************************************)
EXTENDS PollOneoff, FiniteSetTheorems, SequenceTheorems, WellFoundedInduction, TLAPS

-----------------------------------------------------------------------------
\* Clocks

\* earliest_clock_deadline: a set of deadlines that is not empty has a least one.
LEMMA LeastExists ==
    ASSUME NEW D \in SUBSET Nat, D # {}
    PROVE  Least(D) \in D /\ \A e \in D : Least(D) <= e
<1> DEFINE R == {p \in Nat \X Nat : p[1] < p[2]}
<1>1. IsWellFoundedOn(R, Nat)
  BY NatLessThanWellFounded DEF OpToRel
<1>2. PICK d \in D : \A e \in D : <<e, d>> \notin R
  BY <1>1, WFMin
<1>3. \A e \in D : d <= e
  <2> TAKE e \in D
  <2>1. d \in Nat /\ e \in Nat
    OBVIOUS
  <2>2. ~(e < d)
    BY <1>2, <2>1
  <2> QED BY <2>1, <2>2
<1> QED BY <1>3 DEF Least

\* With a clock among the subscriptions, the earliest deadline is that of one of
\* them, and no clock has an earlier one.
LEMMA EarliestOfClocks ==
    ASSUME NEW c \in Calls, HasClock(c)
    PROVE  /\ EarliestDeadline(c) \in Nat
           /\ \E s \in ClocksOf(c.subs) : Deadline(c, s) = EarliestDeadline(c)
           /\ \A s \in ClocksOf(c.subs) : EarliestDeadline(c) <= Deadline(c, s)
<1> DEFINE D == Deadlines(c.subs, c.start)
<1>1. \A s \in ClocksOf(c.subs) : s \in Clocks
  BY DEF Calls, ClocksOf, Subscriptions, FileSubs, Clocks
<1>2. c.start \in Nat
  BY DEF Calls
<1>3. \A s \in ClocksOf(c.subs) : DeadlineFrom(c.start, s) \in Nat
  BY <1>1, <1>2 DEF DeadlineFrom, Clocks
<1>4. D \in SUBSET Nat /\ D # {}
  BY <1>3 DEF Deadlines, HasClock
<1>5. Least(D) \in D /\ \A e \in D : Least(D) <= e
  BY <1>4, LeastExists
<1> QED BY <1>4, <1>5 DEF EarliestDeadline, Deadlines, Deadline

\* The timeout of poll(2), rounded up, is not before the earliest deadline.
LEMMA TimeoutReaches ==
    ASSUME NEW c \in Calls, HasClock(c), now \in Nat
    PROVE  /\ PollTimeout(c) \in Nat
           /\ EarliestDeadline(c) <= now + PollTimeout(c) * TicksPerMs
<1> DEFINE d == EarliestDeadline(c)
           w == IF d >= now THEN d - now ELSE 0
<1>1. d \in Nat /\ w \in Nat
  BY EarliestOfClocks
<1>2. TicksPerMs \in Nat \ {0}
  BY PollAssumption
<1> HIDE DEF d, w
<1>3. w \div TicksPerMs \in Nat /\ w < (w \div TicksPerMs + 1) * TicksPerMs
  <2>1. w = TicksPerMs * (w \div TicksPerMs) + (w % TicksPerMs)
    BY <1>1, <1>2
  <2>2. w \div TicksPerMs \in Nat /\ w % TicksPerMs \in 0 .. TicksPerMs - 1
    BY <1>1, <1>2
  <2>3. (w \div TicksPerMs + 1) * TicksPerMs = TicksPerMs * (w \div TicksPerMs) + TicksPerMs
    BY <1>2, <2>2
  <2> QED BY <1>1, <1>2, <2>1, <2>2, <2>3
<1>4. PollTimeout(c) = w \div TicksPerMs + 1
  BY DEF PollTimeout, d, w
<1>5. d <= now + w
  BY <1>1 DEF w
<1>6. (w \div TicksPerMs + 1) * TicksPerMs \in Nat
  BY <1>2, <1>3
<1> QED BY <1>1, <1>3, <1>4, <1>5, <1>6 DEF d

-----------------------------------------------------------------------------
\* What a stage of a call says of the rest of it, on platform b at time n with
\* the conditions k of the files.

Working == {"sleep", "enter", "poll", "lock", "recv", "immediate", "again", "results"}
Waiting == {"lock", "recv", "immediate"}

Elapsed(c, n) == HasClock(c) /\ EarliestDeadline(c) <= n

\* Every wait with a clock reaches its earliest deadline.
WaitSound(c, n) ==
    /\ c.stage = "sleep" => \A s \in c.subs : s.u = "clock" /\ Deadline(c, s) <= c.until
    /\ c.stage = "poll" /\ HasClock(c) => Elapsed(c, c.until)
    /\ c.stage \in Waiting /\ c.mode = "timeout" => Elapsed(c, n + c.wait)
    /\ c.stage \in Waiting /\ c.mode = "immediate" => Elapsed(c, n)
    /\ c.stage \in Waiting /\ c.mode = "infinite" => ~HasClock(c)
    /\ c.stage = "again" => Elapsed(c, c.until)
    /\ c.stage = "panicked" => ~HasClock(c)

\* Who goes on without a clock has something to report.
AskSound(c, b) ==
    /\ c.stage \in Working => c.subs # {}
    /\ c.stage = "poll" => ~NotPollable(c.subs)
    /\ c.stage \in Waiting \cup {"again"} => b # "unix"
    /\ c.stage \in {"lock", "recv"} => StdinReads(c) # {}
    /\ c.stage = "immediate" /\ c.mode = "infinite" /\ StdinReads(c) # {} => c.done # {}

Happened(c, b) ==
    /\ c.done # {}
    /\ b = "unix" => \E e \in c.done : e[1] \in c.seen

ReportSound(c, b, n) ==
    /\ c.stage = "results" => Elapsed(c, n) \/ Happened(c, b)
    /\ c.stage = "answered" /\ c.result = "ok" =>
        /\ c.events # {}
        /\ \A e \in c.events : e[1].u = "clock" => Deadline(c, e[1]) <= n
        /\ b = "unix" => \E e \in c.events : e[1].u = "clock" \/ e[1] \in c.seen

\* seen is at least what is to be seen now.
SeenSound(c, b, k) ==
    b = "unix" /\ c.stage \notin {"idle", "answered"} =>
        \A s \in FilesOf(c.subs) : Sees(s, k) => s \in c.seen

Sound(c, b, n, k) ==
    /\ WaitSound(c, n)
    /\ AskSound(c, b)
    /\ ReportSound(c, b, n)
    /\ SeenSound(c, b, k)

IInv == TypeOK /\ \A t \in Threads : Sound(call[t], build, now, cond)

-----------------------------------------------------------------------------
\* How invariants of a call carry over

\* What is said of the clocks depends on the subscriptions and the start only.
LEMMA SameClocks ==
    ASSUME NEW c, NEW d, d.subs = c.subs, d.start = c.start
    PROVE  /\ HasClock(d) <=> HasClock(c)
           /\ EarliestDeadline(d) = EarliestDeadline(c)
           /\ \A s : Deadline(d, s) = Deadline(c, s)
           /\ StdinReads(d) = StdinReads(c)
           /\ \A n : Elapsed(d, n) <=> Elapsed(c, n)
BY DEF HasClock, EarliestDeadline, Deadline, StdinReads, Elapsed

\* Time passes and data is consumed: nothing becomes false of a call.
LEMMA SoundLater ==
    ASSUME NEW c \in Calls, NEW b, NEW n \in Nat, NEW m \in Nat, n <= m,
           NEW k, NEW l, \A f \in Files : l[f] \subseteq k[f],
           Sound(c, b, n, k)
    PROVE  Sound(c, b, m, l)
<1>1. c.wait \in Nat /\ c.start \in Nat
  BY DEF Calls
<1>2. ASSUME NEW i \in Nat, NEW j \in Nat, i <= j, Elapsed(c, i) PROVE Elapsed(c, j)
  <2>1. EarliestDeadline(c) \in Nat
    BY <1>2, EarliestOfClocks DEF Elapsed
  <2> QED BY <1>2, <2>1 DEF Elapsed
<1>3. WaitSound(c, m)
  <2>1. n + c.wait \in Nat /\ m + c.wait \in Nat /\ n + c.wait <= m + c.wait
    BY <1>1
  <2> QED BY <1>2, <2>1 DEF Sound, WaitSound
<1>4. ReportSound(c, b, m)
  <2>1. ASSUME NEW e \in c.events, e[1].u = "clock", Deadline(c, e[1]) <= n
        PROVE  Deadline(c, e[1]) <= m
    <3>1. e[1] \in Subscriptions
      BY DEF Calls
    <3>2. e[1] \in Clocks
      BY <2>1, <3>1 DEF Subscriptions, FileSubs
    <3>3. Deadline(c, e[1]) \in Nat
      BY <1>1, <3>2 DEF Deadline, DeadlineFrom, Clocks
    <3> QED BY <2>1, <3>3
  <2> QED BY <1>2, <2>1 DEF Sound, ReportSound
<1>5. SeenSound(c, b, l)
  <2>1. ASSUME NEW s \in FilesOf(c.subs), Sees(s, l) PROVE Sees(s, k)
    <3>1. s.file \in Files \cup {NoFile}
      BY DEF Calls, FilesOf, Subscriptions, Clocks, FileSubs
    <3> QED BY <2>1, <3>1 DEF Sees
  <2> QED BY <2>1 DEF Sound, SeenSound
<1> QED BY <1>3, <1>4, <1>5 DEF Sound

\* More is seen: nothing becomes false.
LEMMA SoundSeen ==
    ASSUME NEW c \in Calls, NEW S \in SUBSET FileSubs, NEW b, NEW n \in Nat, NEW k,
           Sound(c, b, n, k)
    PROVE  Sound([c EXCEPT !.seen = @ \cup S], b, n, k)
<1> DEFINE d == [c EXCEPT !.seen = @ \cup S]
<1>1. /\ d.stage = c.stage /\ d.subs = c.subs /\ d.start = c.start /\ d.until = c.until
      /\ d.mode = c.mode /\ d.wait = c.wait /\ d.done = c.done /\ d.events = c.events
      /\ d.result = c.result /\ d.seen = c.seen \cup S
  BY DEF Calls
<1> HIDE DEF d
<1>2. WaitSound(d, n)
  BY <1>1, SameClocks DEF Sound, WaitSound
<1>3. AskSound(d, b)
  BY <1>1, SameClocks DEF Sound, AskSound
<1>4. ReportSound(d, b, n)
  BY <1>1, SameClocks DEF Sound, ReportSound, Happened
<1>5. SeenSound(d, b, k)
  BY <1>1 DEF Sound, SeenSound
<1> QED BY <1>2, <1>3, <1>4, <1>5 DEF Sound, d

\* One call moves, with STDIN_POLL in step with its stage.
LockStep(t, d) ==
    \/ lock' = lock /\ (d.stage = "recv" <=> At(t, "recv"))
    \/ lock = NoThread /\ lock' = t /\ d.stage = "recv"
    \/ lock = t /\ lock' = NoThread /\ d.stage # "recv"

Moves(t) ==
    \E d \in Calls : Goes(t, d) /\ Sound(d, build, now, cond) /\ LockStep(t, d)

\* A step that leaves STDIN_POLL alone.
LEMMA MovesTo ==
    ASSUME NEW t, NEW d \in Calls, Goes(t, d), Sound(d, build, now, cond),
           lock' = lock, ~At(t, "recv"), d.stage # "recv"
    PROVE  Moves(t)
BY DEF Moves, LockStep

\* Outside the calls only counters and the worker change, within their types.
PlainStep ==
    /\ UNCHANGED <<build, now, cond>>
    /\ calls' \in 0 .. MaxCalls /\ signals' \in 0 .. MaxSignals
    /\ requests' \in Nat /\ worker' \in {"idle", "waiting"} /\ notify' \in Seq({"ok", "io"})

\* A step in which one call moves keeps the invariant.
LEMMA MoveKeeps ==
    ASSUME IInv, NEW t \in Threads, Moves(t), PlainStep
    PROVE  IInv'
<1> PICK d \in Calls : Goes(t, d) /\ Sound(d, build, now, cond) /\ LockStep(t, d)
  BY DEF Moves
<1> USE DEF IInv, TypeOK
<1>1. \A u \in Threads : call'[u] = IF u = t THEN d ELSE call[u]
  BY DEF Goes
<1>2. call' \in [Threads -> Calls]
  BY <1>1 DEF Goes
<1>3. \A u \in Threads : Sound(call'[u], build, now, cond)
  BY <1>1
<1>4. (\A u \in Threads : Sound(call[u], build, now, cond))'
  BY <1>3 DEF PlainStep
<1>5. lock' \in Threads \cup {NoThread} /\ \A u \in Threads : call'[u].stage = "recv" <=> lock' = u
  BY <1>1, PollAssumption DEF LockStep, At
<1> QED BY <1>2, <1>4, <1>5 DEF PlainStep, At

-----------------------------------------------------------------------------
\* The steps of a call

\* A call that moves to a new stage is of the type.
LEMMA StageTypes ==
    ASSUME NEW c \in Calls, NEW stage \in Stages, NEW until \in Nat
    PROVE  [c EXCEPT !.stage = stage, !.until = until] \in Calls
BY DEF Calls

\* What does not succeed promises nothing.
LEMMA RefusalSound ==
    ASSUME NEW c \in Calls, NEW result \in Results, result # "ok",
           NEW b, NEW n \in Nat, NEW k
    PROVE  /\ Answered(c, result, {}) \in Calls
           /\ Answered(c, result, {}).stage = "answered"
           /\ Sound(Answered(c, result, {}), b, n, k)
<1> DEFINE d == Answered(c, result, {})
<1>1. d \in Calls /\ d.stage = "answered" /\ d.result = result
  BY DEF Calls, Answered, NoCall, Stages, Results, Modes
<1> HIDE DEF d
<1> QED
  BY <1>1 DEF Sound, WaitSound, AskSound, ReportSound, SeenSound, Waiting, Working, d

\* A thread outside poll_oneoff promises nothing.
LEMMA NoCallSound ==
    ASSUME NEW b, NEW n \in Nat, NEW k
    PROVE  NoCall \in Calls /\ NoCall.stage = "idle" /\ Sound(NoCall, b, n, k)
<1>1. NoCall \in Calls /\ NoCall.stage = "idle"
  BY DEF Calls, NoCall, Stages, Results, Modes
<1> QED
  BY <1>1 DEF Sound, WaitSound, AskSound, ReportSound, SeenSound, Waiting, Working

\* A refusal is no success.
LEMMA RefusalsTypes ==
    ASSUME NEW subs
    PROVE  Refusals(subs) \subseteq Results \ {"ok"}
BY DEF Refusals, Results

\* The call starts: it is refused, it sleeps, or it goes to a scheduler.
LEMMA BeginMoves ==
    ASSUME IInv, NEW t \in Threads, Begin(t)
    PROVE  Moves(t) /\ PlainStep
<1> USE DEF IInv, TypeOK
<1>1. PlainStep
  <2>1. UNCHANGED <<build, now, cond>> /\ signals' = signals /\ calls < MaxCalls
        /\ calls' = calls + 1 /\ requests' = requests /\ worker' = worker /\ notify' = notify
    BY DEF Begin, outside, stdinPoll
  <2>2. calls' \in 0 .. MaxCalls
    BY <2>1, PollAssumption
  <2> QED BY <2>1, <2>2 DEF PlainStep
<1>2. lock' = lock /\ At(t, "idle") /\ ~At(t, "recv")
  BY DEF Begin, stdinPoll, At
<1>3. PICK subs \in Requests[t] :
        LET c == [NoCall EXCEPT !.subs = subs, !.until = now,
                                !.start = IF ClocksOf(subs) = {} THEN 0 ELSE now,
                                !.seen = SeenOf(subs, cond)]
        IN  CASE subs = {} -> Goes(t, Answered(c, "inval", {}))
              [] IsSleep(subs) ->
                    \E s \in subs : Goes(t, [c EXCEPT !.stage = "sleep", !.until = now + s.timeout])
              [] ~IsSleep(subs) /\ Refusals(subs) # {} ->
                    \E e \in Refusals(subs) : Goes(t, Answered(c, e, {}))
              [] OTHER -> Goes(t, [c EXCEPT !.stage = "enter"])
  BY DEF Begin
<1>4. subs \in SUBSET Subscriptions /\ IsFiniteSet(subs)
  BY PollAssumption
<1> DEFINE c == [NoCall EXCEPT !.subs = subs, !.until = now,
                               !.start = IF ClocksOf(subs) = {} THEN 0 ELSE now,
                               !.seen = SeenOf(subs, cond)]
<1>5. SeenOf(subs, cond) \in SUBSET FileSubs
  BY <1>4 DEF SeenOf, FilesOf, Subscriptions, Clocks
<1>6. /\ c \in Calls /\ c.subs = subs /\ c.stage = "idle" /\ c.until = now
      /\ c.start = IF ClocksOf(subs) = {} THEN 0 ELSE now
      /\ c.seen = SeenOf(subs, cond)
  BY <1>4, <1>5 DEF Calls, NoCall, Stages, Results, Modes
<1>7. SeenSound([c EXCEPT !.stage = "enter"], build, cond)
      /\ \A u : SeenSound([c EXCEPT !.stage = "sleep", !.until = u], build, cond)
  BY <1>6 DEF SeenSound, SeenOf, Calls
<1>8. \/ subs = {} /\ Goes(t, Answered(c, "inval", {}))
      \/ IsSleep(subs) /\ \E s \in subs : Goes(t, [c EXCEPT !.stage = "sleep", !.until = now + s.timeout])
      \/ \E e \in Refusals(subs) : Goes(t, Answered(c, e, {}))
      \/ subs # {} /\ Goes(t, [c EXCEPT !.stage = "enter"])
  BY <1>3
<1> HIDE DEF c
<1> SUFFICES Moves(t)
  BY <1>1
<1>9. CASE Goes(t, Answered(c, "inval", {}))
  <2>1. Answered(c, "inval", {}) \in Calls /\ Answered(c, "inval", {}).stage = "answered"
        /\ Sound(Answered(c, "inval", {}), build, now, cond)
    BY <1>6, RefusalSound DEF Results
  <2> QED BY <1>2, <1>9, <2>1, MovesTo
<1>10. CASE \E e \in Refusals(subs) : Goes(t, Answered(c, e, {}))
  <2> PICK e \in Refusals(subs) : Goes(t, Answered(c, e, {}))
    BY <1>10
  <2>1. Answered(c, e, {}) \in Calls /\ Answered(c, e, {}).stage = "answered"
        /\ Sound(Answered(c, e, {}), build, now, cond)
    BY <1>6, RefusalSound, RefusalsTypes
  <2> QED BY <1>2, <2>1, MovesTo
<1>11. CASE IsSleep(subs) /\
            \E s \in subs : Goes(t, [c EXCEPT !.stage = "sleep", !.until = now + s.timeout])
  <2> PICK s \in subs : Goes(t, [c EXCEPT !.stage = "sleep", !.until = now + s.timeout])
    BY <1>11
  <2> DEFINE d == [c EXCEPT !.stage = "sleep", !.until = now + s.timeout]
  <2>1. s \in Clocks /\ ~s.abs /\ s.timeout \in Nat
    BY <1>4, <1>11 DEF IsSleep, Subscriptions, Clocks, FileSubs
  <2>2. subs = {s}
    <3>1. PICK x : subs = {x}
      BY <1>4, <1>11, FS_Singleton DEF IsSleep
    <3> QED BY <3>1
  <2>3. /\ d \in Calls /\ d.stage = "sleep" /\ d.subs = subs /\ d.start = now
        /\ d.until = now + s.timeout
    <3>1. s \in ClocksOf(subs)
      BY <2>1 DEF ClocksOf, Clocks
    <3>2. now + s.timeout \in Nat /\ c.start = now
      BY <1>6, <2>1, <3>1
    <3>3. d \in Calls
      BY <1>6, <3>2, StageTypes DEF Stages
    <3>4. d.stage = "sleep" /\ d.subs = c.subs /\ d.start = c.start /\ d.until = now + s.timeout
      BY <1>6 DEF Calls
    <3> QED BY <1>6, <3>2, <3>3, <3>4
  <2>4. Deadline(d, s) <= d.until /\ s.u = "clock"
    BY <2>1, <2>3 DEF Deadline, DeadlineFrom, Clocks
  <2>5. SeenSound(d, build, cond)
    BY <1>7 DEF c
  <2> HIDE DEF d
  <2>6. Sound(d, build, now, cond)
    BY <2>2, <2>3, <2>4, <2>5 DEF Sound, WaitSound, AskSound, ReportSound, Waiting, Working
  <2> QED BY <1>2, <2>3, <2>6, MovesTo DEF d
<1>12. CASE subs # {} /\ Goes(t, [c EXCEPT !.stage = "enter"])
  <2> DEFINE d == [c EXCEPT !.stage = "enter"]
  <2>1. d \in Calls /\ d.stage = "enter" /\ d.subs = subs
    BY <1>6 DEF Calls, Stages
  <2>2. SeenSound(d, build, cond)
    BY <1>7 DEF c
  <2> HIDE DEF d
  <2>3. Sound(d, build, now, cond)
    BY <1>12, <2>1, <2>2 DEF Sound, WaitSound, AskSound, ReportSound, Waiting, Working
  <2> QED BY <1>2, <1>12, <2>1, <2>3, MovesTo DEF d
<1> QED BY <1>8, <1>9, <1>10, <1>11, <1>12

\* A step of a call that leaves the worker and STDIN_POLL alone.
LEMMA StepsPlain ==
    ASSUME IInv, NEW t \in Threads, NEW stage, Steps(t, stage), UNCHANGED stdinPoll,
           stage # "recv"
    PROVE  /\ PlainStep /\ lock' = lock
           /\ call[t] \in Calls /\ call[t].stage = stage /\ ~At(t, "recv")
           /\ Sound(call[t], build, now, cond) /\ now \in Nat
<1>1. UNCHANGED <<build, now, cond, signals, calls, lock, requests, worker, notify>>
  BY DEF Steps, outside, stdinPoll
<1>2. PlainStep
  BY <1>1 DEF PlainStep, IInv, TypeOK
<1> QED BY <1>1, <1>2 DEF Steps, At, IInv, TypeOK

\* A call that succeeds is as it should be if its events are.
LEMMA AnswerSound ==
    ASSUME NEW c \in Calls, NEW events \in SUBSET (Subscriptions \X Outcomes), events # {},
           NEW b, NEW n \in Nat, NEW k,
           \A e \in events : e[1].u = "clock" => Deadline(c, e[1]) <= n,
           b = "unix" => \E e \in events : e[1].u = "clock" \/ e[1] \in c.seen
    PROVE  /\ Answered(c, "ok", events) \in Calls
           /\ Answered(c, "ok", events).stage = "answered"
           /\ Sound(Answered(c, "ok", events), b, n, k)
<1> DEFINE d == Answered(c, "ok", events)
<1>1. d \in Calls
  BY DEF Calls, Answered, NoCall, Stages, Results, Modes
<1>2. /\ d.stage = "answered" /\ d.result = "ok" /\ d.events = events
      /\ d.subs = c.subs /\ d.start = c.start /\ d.seen = c.seen
  BY DEF Calls, Answered, NoCall
<1> HIDE DEF d
<1>3. ReportSound(d, b, n)
  BY <1>2, SameClocks DEF ReportSound
<1> QED
  BY <1>1, <1>2, <1>3 DEF Sound, WaitSound, AskSound, SeenSound, Waiting, Working, d

\* A single timer is over: its deadline is past.
LEMMA SleptMoves ==
    ASSUME IInv, NEW t \in Threads, Slept(t)
    PROVE  Moves(t) /\ PlainStep
<1> DEFINE c == call[t]
           events == c.subs \X {"ok"}
<1>1. Steps(t, "sleep") /\ UNCHANGED stdinPoll /\ c.until <= now
      /\ Goes(t, Answered(c, "ok", events))
  BY DEF Slept
<1>2. /\ PlainStep /\ lock' = lock /\ c \in Calls /\ c.stage = "sleep" /\ ~At(t, "recv")
      /\ Sound(c, build, now, cond) /\ now \in Nat
  BY <1>1, StepsPlain
<1>3. c.subs # {} /\ \A s \in c.subs : s.u = "clock" /\ Deadline(c, s) <= c.until
  BY <1>2 DEF Sound, WaitSound, AskSound, Working
<1>4. c.subs \subseteq Subscriptions /\ c.start \in Nat /\ c.until \in Nat
  BY <1>2 DEF Calls
<1> HIDE DEF c
<1>5. \A s \in c.subs : Deadline(c, s) <= now
  <2> TAKE s \in c.subs
  <2>1. s \in Clocks
    BY <1>3, <1>4 DEF Subscriptions, FileSubs
  <2>2. Deadline(c, s) \in Nat
    BY <1>4, <2>1 DEF Deadline, DeadlineFrom, Clocks
  <2> QED BY <1>1, <1>2, <1>3, <1>4, <2>2
<1>6. events \in SUBSET (Subscriptions \X Outcomes) /\ events # {}
      /\ \A e \in events : e[1] \in c.subs /\ e[1].u = "clock"
  <2>1. PICK s \in c.subs : TRUE
    BY <1>3
  <2>2. <<s, "ok">> \in events
    BY <2>1
  <2>3. \A e \in events : e[1] \in c.subs /\ e[2] = "ok"
    OBVIOUS
  <2>4. events \subseteq Subscriptions \X Outcomes
    BY <1>4 DEF Outcomes
  <2> QED BY <1>3, <2>2, <2>3, <2>4
<1> HIDE DEF events
<1>7. Answered(c, "ok", events) \in Calls /\ Answered(c, "ok", events).stage = "answered"
      /\ Sound(Answered(c, "ok", events), build, now, cond)
  BY <1>2, <1>5, <1>6, AnswerSound
<1> QED BY <1>1, <1>2, <1>7, MovesTo

\* results(): a clock is past or a file was completed.
LEMMA ReportMoves ==
    ASSUME IInv, NEW t \in Threads, Report(t)
    PROVE  Moves(t) /\ PlainStep
<1> DEFINE c == call[t]
           events == PollResults(c)
<1>1. Steps(t, "results") /\ UNCHANGED stdinPoll /\ Goes(t, Answered(c, "ok", events))
  BY DEF Report
<1>2. /\ PlainStep /\ lock' = lock /\ c \in Calls /\ c.stage = "results" /\ ~At(t, "recv")
      /\ Sound(c, build, now, cond) /\ now \in Nat
  BY <1>1, StepsPlain
<1>3. Elapsed(c, now) \/ Happened(c, build)
  BY <1>2 DEF Sound, ReportSound
<1>4. c.subs \subseteq Subscriptions /\ c.start \in Nat /\ c.done \subseteq FileSubs \X Outcomes
  BY <1>2 DEF Calls
<1> HIDE DEF c
<1>5. events \in SUBSET (Subscriptions \X Outcomes)
  BY <1>4 DEF PollResults, ClocksOf, Subscriptions, Outcomes
<1>6. \A e \in events : e[1].u = "clock" => Deadline(c, e[1]) <= now
  <2> TAKE e \in events
  <2>1. CASE e \in c.done
    <3>1. e[1] \in FileSubs
      BY <1>4, <2>1
    <3> QED BY <3>1 DEF FileSubs
  <2>2. CASE e \notin c.done
    BY <2>2 DEF PollResults
  <2> QED BY <2>1, <2>2
<1>7. events # {} /\ (build = "unix" => \E e \in events : e[1].u = "clock" \/ e[1] \in c.seen)
  <2>1. CASE Elapsed(c, now)
    <3>1. PICK s \in ClocksOf(c.subs) : Deadline(c, s) <= now
      BY <1>2, <2>1, EarliestOfClocks DEF Elapsed
    <3>2. <<s, "ok">> \in events /\ s.u = "clock"
      BY <3>1 DEF PollResults, ClocksOf
    <3> QED BY <3>2
  <2>2. CASE Happened(c, build)
    BY <2>2 DEF Happened, PollResults
  <2> QED BY <1>3, <2>1, <2>2
<1> HIDE DEF events
<1>8. Answered(c, "ok", events) \in Calls /\ Answered(c, "ok", events).stage = "answered"
      /\ Sound(Answered(c, "ok", events), build, now, cond)
  BY <1>2, <1>5, <1>6, <1>7, AnswerSound
<1> QED BY <1>1, <1>2, <1>8, MovesTo

\* The guest goes on.
LEMMA ReturnMoves ==
    ASSUME IInv, NEW t \in Threads, Return(t)
    PROVE  Moves(t) /\ PlainStep
<1>1. Steps(t, "answered") /\ UNCHANGED stdinPoll /\ Goes(t, NoCall)
  BY DEF Return
<1>2. PlainStep /\ lock' = lock /\ ~At(t, "recv") /\ now \in Nat
  BY <1>1, StepsPlain
<1>3. NoCall \in Calls /\ NoCall.stage = "idle" /\ Sound(NoCall, build, now, cond)
  BY <1>2, NoCallSound
<1> QED BY <1>1, <1>2, <1>3, MovesTo

\* A call may panic when it has no clock.
LEMMA PanicSound ==
    ASSUME NEW c \in Calls, ~HasClock(c), NEW b, NEW n \in Nat, NEW k,
           Sound(c, b, n, k), c.stage \notin {"idle", "answered"}
    PROVE  LET d == [c EXCEPT !.stage = "panicked"]
           IN  d \in Calls /\ d.stage = "panicked" /\ Sound(d, b, n, k)
<1> DEFINE d == [c EXCEPT !.stage = "panicked"]
<1>1. /\ d \in Calls /\ d.stage = "panicked"
      /\ d.subs = c.subs /\ d.start = c.start /\ d.seen = c.seen
  BY DEF Calls, Stages
<1> HIDE DEF d
<1>2. ~HasClock(d)
  BY <1>1, SameClocks
<1>3. SeenSound(d, b, k)
  BY <1>1 DEF Sound, SeenSound
<1> SUFFICES d \in Calls /\ d.stage = "panicked" /\ Sound(d, b, n, k)
  BY DEF d
<1> QED
  BY <1>1, <1>2, <1>3 DEF Sound, WaitSound, AskSound, ReportSound, Waiting, Working

-----------------------------------------------------------------------------
\* sync/sched/unix.rs

\* poll(2) is called with a timeout that reaches the deadline.
LEMMA UnixEnterMoves ==
    ASSUME IInv, NEW t \in Threads, UnixEnter(t)
    PROVE  Moves(t) /\ PlainStep
<1> DEFINE c == call[t]
           d == [c EXCEPT !.stage = "poll", !.until = now + PollTimeout(c) * TicksPerMs]
<1>1. Steps(t, "enter") /\ UNCHANGED stdinPoll /\ build = "unix"
  BY DEF UnixEnter
<1>2. /\ PlainStep /\ lock' = lock /\ c \in Calls /\ c.stage = "enter" /\ ~At(t, "recv")
      /\ Sound(c, build, now, cond) /\ now \in Nat
  BY <1>1, StepsPlain
<1>3. \/ Goes(t, Answered(c, "inval", {}))
      \/ Goes(t, Answered(c, "overflow", {}))
      \/ ~NotPollable(c.subs) /\ Goes(t, d)
  BY DEF UnixEnter, Answers
<1> SUFFICES Moves(t)
  BY <1>2
<1>4. ASSUME NEW e \in {"inval", "overflow"}, Goes(t, Answered(c, e, {})) PROVE Moves(t)
  <2>1. Answered(c, e, {}) \in Calls /\ Answered(c, e, {}).stage = "answered"
        /\ Sound(Answered(c, e, {}), build, now, cond)
    BY <1>2, RefusalSound DEF Results
  <2> QED BY <1>2, <1>4, <2>1, MovesTo
<1>5. CASE ~NotPollable(c.subs) /\ Goes(t, d)
  <2>1. /\ now + PollTimeout(c) * TicksPerMs \in Nat
        /\ HasClock(c) => EarliestDeadline(c) <= now + PollTimeout(c) * TicksPerMs
    <3>1. CASE HasClock(c)
      <4>1. PollTimeout(c) * TicksPerMs \in Nat
        BY <1>2, <3>1, TimeoutReaches, PollAssumption
      <4> QED BY <1>2, <3>1, <4>1, TimeoutReaches
    <3>2. CASE ~HasClock(c)
      <4>1. PollTimeout(c) = MaxPoll
        BY <3>2 DEF PollTimeout
      <4> QED BY <1>2, <3>2, <4>1, PollAssumption
    <3> QED BY <3>1, <3>2
  <2> HIDE DEF c
  <2>2. /\ d \in Calls /\ d.stage = "poll" /\ d.until = now + PollTimeout(c) * TicksPerMs
        /\ d.subs = c.subs /\ d.start = c.start /\ d.seen = c.seen
    BY <1>2, <2>1 DEF Calls, Stages
  <2> HIDE DEF d
  <2>3. WaitSound(d, now)
    BY <2>1, <2>2, SameClocks DEF WaitSound, Waiting, Elapsed
  <2>4. AskSound(d, build)
    BY <1>2, <1>5, <2>2 DEF Sound, AskSound, Waiting, Working
  <2>5. Sound(d, build, now, cond)
    BY <1>2, <2>2, <2>3, <2>4 DEF Sound, ReportSound, SeenSound
  <2> QED BY <1>2, <1>5, <2>2, <2>5, MovesTo
<1> QED BY <1>3, <1>4, <1>5

\* A signal sends the call back to the start of the loop.
LEMMA PollInterruptedMoves ==
    ASSUME IInv, NEW t \in Threads, PollInterrupted(t)
    PROVE  Moves(t) /\ PlainStep
<1> DEFINE c == call[t]
           d == [c EXCEPT !.stage = "enter", !.until = now]
<1>1. /\ c.stage = "poll" /\ Goes(t, d) /\ signals < MaxSignals /\ signals' = signals + 1
      /\ UNCHANGED <<build, now, cond, calls, lock, requests, worker, notify>>
  BY DEF PollInterrupted, At, stdinPoll
<1>2. c \in Calls /\ Sound(c, build, now, cond) /\ now \in Nat
  BY DEF IInv, TypeOK
<1>3. PlainStep
  <2>1. signals' \in 0 .. MaxSignals
    BY <1>1, PollAssumption DEF IInv, TypeOK
  <2> QED BY <1>1, <2>1 DEF PlainStep, IInv, TypeOK
<1> HIDE DEF c
<1>4. d \in Calls /\ d.stage = "enter" /\ d.subs = c.subs /\ d.seen = c.seen
  BY <1>2 DEF Calls, Stages
<1> HIDE DEF d
<1>5. Sound(d, build, now, cond)
  BY <1>1, <1>2, <1>4
     DEF Sound, WaitSound, AskSound, ReportSound, SeenSound, Waiting, Working
<1> QED BY <1>1, <1>3, <1>4, <1>5, MovesTo DEF At, c

\* poll(2) has found something that the call has seen.
LEMMA PollReadyMoves ==
    ASSUME IInv, NEW t \in Threads, PollReady(t)
    PROVE  Moves(t) /\ PlainStep
<1> DEFINE c == call[t]
           files == FilesOf(c.subs)
           done == {<<s, Outcome(Revents(s))>> : s \in files}
           d == [c EXCEPT !.stage = "results", !.until = now, !.done = done]
<1>1. Steps(t, "poll") /\ UNCHANGED stdinPoll /\ ~NothingReady(t)
      /\ (Goes(t, Answered(c, "failed", {})) \/ Goes(t, d))
  BY DEF PollReady, Answers
<1>2. /\ PlainStep /\ lock' = lock /\ c \in Calls /\ c.stage = "poll" /\ ~At(t, "recv")
      /\ Sound(c, build, now, cond) /\ now \in Nat
  BY <1>1, StepsPlain
<1> SUFFICES Moves(t)
  BY <1>2
<1>3. CASE Goes(t, Answered(c, "failed", {}))
  <2>1. Answered(c, "failed", {}) \in Calls /\ Answered(c, "failed", {}).stage = "answered"
        /\ Sound(Answered(c, "failed", {}), build, now, cond)
    BY <1>2, RefusalSound DEF Results
  <2> QED BY <1>2, <1>3, <2>1, MovesTo
<1>4. CASE Goes(t, d)
  <2>1. files \subseteq FileSubs
    BY <1>2 DEF Calls, FilesOf, Subscriptions, Clocks
  <2>2. PICK s \in files : Revents(s) # {}
    BY <1>1 DEF NothingReady
  <2>3. s.file # NoFile
    BY <1>2, <2>2, PollAssumption DEF Sound, AskSound, NotPollable
  <2>4. build = "unix" => s \in c.seen
    BY <1>2, <2>2, <2>3 DEF Sound, SeenSound, Sees, Revents
  <2>5. <<s, Outcome(Revents(s))>> \in done
    BY <2>2
  <2>6. done \in SUBSET (FileSubs \X Outcomes)
    BY <2>1 DEF Outcome, Outcomes
  <2> HIDE DEF c, done
  <2>7. /\ d \in Calls /\ d.stage = "results" /\ d.done = done
        /\ d.subs = c.subs /\ d.seen = c.seen
    BY <1>2, <2>6 DEF Calls, Stages
  <2> HIDE DEF d
  <2>8. Happened(d, build)
    BY <2>4, <2>5, <2>7 DEF Happened
  <2>9. Sound(d, build, now, cond)
    BY <1>2, <2>7, <2>8 DEF Sound, WaitSound, AskSound, ReportSound, SeenSound, Waiting, Working
  <2> QED BY <1>2, <1>4, <2>7, <2>9, MovesTo
<1> QED BY <1>1, <1>3, <1>4

\* poll(2) has found nothing: with a clock, its deadline is past.
LEMMA PollTimedOutMoves ==
    ASSUME IInv, NEW t \in Threads, PollTimedOut(t)
    PROVE  Moves(t) /\ PlainStep
<1> DEFINE c == call[t]
           d == [c EXCEPT !.stage = "results", !.until = now]
           p == [c EXCEPT !.stage = "panicked"]
<1>1. /\ Steps(t, "poll") /\ UNCHANGED stdinPoll /\ c.until <= now
      /\ \/ Elapsed(c, now) /\ Goes(t, d)
         \/ ~Elapsed(c, now) /\ Goes(t, p)
  BY DEF PollTimedOut, Panics, Elapsed
<1>2. /\ PlainStep /\ lock' = lock /\ c \in Calls /\ c.stage = "poll" /\ ~At(t, "recv")
      /\ Sound(c, build, now, cond) /\ now \in Nat
  BY <1>1, StepsPlain
<1> SUFFICES Moves(t)
  BY <1>2
<1> HIDE DEF c
<1>3. CASE Elapsed(c, now) /\ Goes(t, d)
  <2>1. d \in Calls /\ d.stage = "results" /\ d.subs = c.subs /\ d.start = c.start
        /\ d.seen = c.seen
    BY <1>2 DEF Calls, Stages
  <2> HIDE DEF d
  <2>2. Elapsed(d, now)
    BY <1>3, <2>1, SameClocks
  <2>3. Sound(d, build, now, cond)
    BY <1>2, <2>1, <2>2 DEF Sound, WaitSound, AskSound, ReportSound, SeenSound, Waiting, Working
  <2> QED BY <1>2, <1>3, <2>1, <2>3, MovesTo
<1>4. CASE ~Elapsed(c, now) /\ Goes(t, p)
  <2>1. ~HasClock(c)
    <3>1. SUFFICES ASSUME HasClock(c) PROVE FALSE
      OBVIOUS
    <3>2. EarliestDeadline(c) \in Nat /\ EarliestDeadline(c) <= c.until /\ c.until \in Nat
      BY <1>2, <3>1, EarliestOfClocks DEF Sound, WaitSound, Elapsed, Calls
    <3> QED BY <1>1, <1>2, <1>4, <3>1, <3>2 DEF Elapsed
  <2>2. p \in Calls /\ p.stage = "panicked" /\ Sound(p, build, now, cond)
    BY <1>2, <2>1, PanicSound
  <2> QED BY <1>2, <1>4, <2>2, MovesTo
<1> QED BY <1>1, <1>3, <1>4

-----------------------------------------------------------------------------
\* sync/sched/windows.rs

\* The mode and the length of the wait fit the clocks.
LEMMA WindowsEnterMoves ==
    ASSUME IInv, NEW t \in Threads, WindowsEnter(t)
    PROVE  Moves(t) /\ PlainStep
<1> DEFINE c == call[t]
           stage == IF StdinReads(c) # {} THEN "lock" ELSE "immediate"
           wait == IF WaitMode(c) = "timeout" THEN EarliestDeadline(c) - now ELSE 0
           d == [c EXCEPT !.stage = stage, !.mode = WaitMode(c), !.wait = wait, !.until = now]
<1>1. /\ Steps(t, "enter") /\ UNCHANGED stdinPoll /\ build = "windows"
      /\ (Goes(t, Answered(c, "inval", {})) \/ Goes(t, d))
  BY DEF WindowsEnter, Answers
<1>2. /\ PlainStep /\ lock' = lock /\ c \in Calls /\ c.stage = "enter" /\ ~At(t, "recv")
      /\ Sound(c, build, now, cond) /\ now \in Nat
  BY <1>1, StepsPlain
<1> SUFFICES Moves(t)
  BY <1>2
<1>3. CASE Goes(t, Answered(c, "inval", {}))
  <2>1. Answered(c, "inval", {}) \in Calls /\ Answered(c, "inval", {}).stage = "answered"
        /\ Sound(Answered(c, "inval", {}), build, now, cond)
    BY <1>2, RefusalSound DEF Results
  <2> QED BY <1>2, <1>3, <2>1, MovesTo
<1>4. CASE Goes(t, d)
  <2> HIDE DEF c
  <2>1. /\ WaitMode(c) \in Modes /\ wait \in Nat
        /\ WaitMode(c) = "infinite" => ~HasClock(c)
        /\ WaitMode(c) = "immediate" => Elapsed(c, now)
        /\ WaitMode(c) = "timeout" => Elapsed(c, now + wait)
    <3>1. CASE HasClock(c)
      <4>1. EarliestDeadline(c) \in Nat
        BY <1>2, <3>1, EarliestOfClocks
      <4>2. CASE EarliestDeadline(c) >= now
        <5>1. WaitMode(c) = "timeout" /\ wait = EarliestDeadline(c) - now
          BY <3>1, <4>2 DEF WaitMode
        <5> QED BY <1>2, <3>1, <4>1, <4>2, <5>1 DEF Elapsed, Modes
      <4>3. CASE ~(EarliestDeadline(c) >= now)
        <5>1. WaitMode(c) = "immediate" /\ wait = 0
          BY <3>1, <4>3 DEF WaitMode
        <5> QED BY <1>2, <3>1, <4>1, <4>3, <5>1 DEF Elapsed, Modes
      <4> QED BY <4>2, <4>3
    <3>2. CASE ~HasClock(c)
      <4>1. WaitMode(c) = "infinite" /\ wait = 0
        BY <3>2 DEF WaitMode
      <4> QED BY <3>2, <4>1 DEF Modes
    <3> QED BY <3>1, <3>2
  <2>2. c.subs # {}
    BY <1>2 DEF Sound, AskSound, Working
  <2>3. stage \in Stages /\ stage \in Waiting /\ stage # "recv" /\ stage # "poll"
        /\ (stage = "lock" <=> StdinReads(c) # {}) /\ (stage = "immediate" <=> StdinReads(c) = {})
    BY DEF Stages, Waiting
  <2> HIDE DEF stage, wait
  <2>4. /\ d \in Calls /\ d.stage = stage /\ d.mode = WaitMode(c) /\ d.wait = wait
        /\ d.subs = c.subs /\ d.start = c.start /\ d.seen = c.seen
    BY <1>2, <2>1, <2>3 DEF Calls
  <2> HIDE DEF d
  <2>5. WaitSound(d, now)
    BY <2>1, <2>3, <2>4, SameClocks DEF WaitSound, Waiting
  <2>6. AskSound(d, build)
    BY <1>1, <2>2, <2>3, <2>4, SameClocks DEF AskSound, Waiting
  <2>7. Sound(d, build, now, cond)
    BY <1>1, <2>3, <2>4, <2>5, <2>6 DEF Sound, ReportSound, SeenSound, Waiting
  <2> QED BY <1>2, <1>4, <2>3, <2>4, <2>7, MovesTo
<1> QED BY <1>1, <1>3, <1>4

\* The worker is asked.
LEMMA AskWorkerMoves ==
    ASSUME IInv, NEW t \in Threads, AskWorker(t)
    PROVE  Moves(t) /\ PlainStep
<1> DEFINE c == call[t]
           d == [c EXCEPT !.stage = "recv", !.until = now + c.wait]
<1>1. /\ c.stage = "lock" /\ Goes(t, d) /\ lock = NoThread /\ lock' = t
      /\ notify' = (IF notify = <<>> THEN notify ELSE Tail(notify))
      /\ requests' = requests + 1
      /\ UNCHANGED <<build, now, cond, signals, calls, worker>>
  BY DEF AskWorker, Steps, At, outside
<1>2. c \in Calls /\ Sound(c, build, now, cond) /\ now \in Nat
  BY DEF IInv, TypeOK
<1>3. PlainStep
  <2>1. notify' \in Seq({"ok", "io"})
    BY <1>1, HeadTailProperties DEF IInv, TypeOK
  <2>2. requests' \in Nat
    BY <1>1 DEF IInv, TypeOK
  <2> QED BY <1>1, <2>1, <2>2 DEF PlainStep, IInv, TypeOK
<1> HIDE DEF c
<1>4. /\ d \in Calls /\ d.stage = "recv" /\ d.mode = c.mode /\ d.wait = c.wait
      /\ d.subs = c.subs /\ d.start = c.start /\ d.seen = c.seen
  <2>1. now + c.wait \in Nat
    BY <1>2 DEF Calls
  <2> QED BY <1>2, <2>1 DEF Calls, Stages
<1> HIDE DEF d
<1>5. WaitSound(d, now)
  BY <1>1, <1>2, <1>4, SameClocks DEF Sound, WaitSound, Waiting
<1>6. AskSound(d, build)
  BY <1>1, <1>2, <1>4, SameClocks DEF Sound, AskSound, Waiting, Working
<1>7. Sound(d, build, now, cond)
  BY <1>1, <1>2, <1>4, <1>5, <1>6 DEF Sound, ReportSound, SeenSound
<1> QED BY <1>1, <1>3, <1>4, <1>7 DEF Moves, LockStep

\* The worker has answered: every subscription to stdin is completed.
LEMMA WorkerAnsweredMoves ==
    ASSUME IInv, NEW t \in Threads, WorkerAnswered(t)
    PROVE  Moves(t) /\ PlainStep
<1> DEFINE c == call[t]
           done == StdinReads(c) \X {Head(notify)}
           d == [c EXCEPT !.stage = "immediate", !.until = now, !.done = done]
<1>1. /\ c.stage = "recv" /\ At(t, "recv") /\ Goes(t, d) /\ lock' = NoThread
      /\ notify # <<>> /\ notify' = Tail(notify)
      /\ UNCHANGED <<build, now, cond, signals, calls, requests, worker>>
  BY DEF WorkerAnswered, Steps, At, outside, Released
<1>2. c \in Calls /\ Sound(c, build, now, cond) /\ now \in Nat /\ lock = t
      /\ notify \in Seq({"ok", "io"})
  BY <1>1 DEF IInv, TypeOK
<1>3. Head(notify) \in Outcomes /\ notify' \in Seq({"ok", "io"})
  BY <1>1, <1>2, HeadTailProperties DEF Outcomes
<1>4. PlainStep
  BY <1>1, <1>3 DEF PlainStep, IInv, TypeOK
<1>5. StdinReads(c) # {}
  BY <1>1, <1>2 DEF Sound, AskSound
<1> HIDE DEF c
<1>6. StdinReads(c) \subseteq FileSubs
  BY <1>2 DEF StdinReads, Calls, FilesOf, Subscriptions, Clocks
<1>7. done \in SUBSET (FileSubs \X Outcomes) /\ done # {}
  <2>1. PICK s \in StdinReads(c) : TRUE
    BY <1>5
  <2>2. <<s, Head(notify)>> \in done
    BY <2>1
  <2> QED BY <1>3, <1>6, <2>2
<1> HIDE DEF done
<1>8. /\ d \in Calls /\ d.stage = "immediate" /\ d.mode = c.mode /\ d.wait = c.wait
      /\ d.subs = c.subs /\ d.start = c.start /\ d.seen = c.seen /\ d.done = done
  BY <1>2, <1>7 DEF Calls, Stages
<1> HIDE DEF d
<1>9. WaitSound(d, now)
  BY <1>1, <1>2, <1>8, SameClocks DEF Sound, WaitSound, Waiting
<1>10. AskSound(d, build)
  BY <1>1, <1>2, <1>7, <1>8, SameClocks DEF Sound, AskSound, Waiting, Working
<1>11. Sound(d, build, now, cond)
  BY <1>1, <1>2, <1>8, <1>9, <1>10 DEF Sound, ReportSound, SeenSound
<1> QED BY <1>1, <1>2, <1>4, <1>8, <1>11 DEF Moves, LockStep

\* The wait for the worker is over.
LEMMA WorkerSilentMoves ==
    ASSUME IInv, NEW t \in Threads, WorkerSilent(t)
    PROVE  Moves(t) /\ PlainStep
<1> DEFINE c == call[t]
           d == [c EXCEPT !.stage = "immediate", !.until = now]
<1>1. /\ c.stage = "recv" /\ At(t, "recv") /\ Goes(t, d) /\ lock' = NoThread
      /\ c.mode # "infinite"
      /\ UNCHANGED <<build, now, cond, signals, calls, requests, worker, notify>>
  BY DEF WorkerSilent, Steps, At, outside, Released
<1>2. c \in Calls /\ Sound(c, build, now, cond) /\ now \in Nat /\ lock = t
  BY <1>1 DEF IInv, TypeOK
<1>3. PlainStep
  BY <1>1 DEF PlainStep, IInv, TypeOK
<1> HIDE DEF c
<1>4. /\ d \in Calls /\ d.stage = "immediate" /\ d.mode = c.mode /\ d.wait = c.wait
      /\ d.subs = c.subs /\ d.start = c.start /\ d.seen = c.seen
  BY <1>2 DEF Calls, Stages
<1> HIDE DEF d
<1>5. WaitSound(d, now)
  BY <1>1, <1>2, <1>4, SameClocks DEF Sound, WaitSound, Waiting
<1>6. AskSound(d, build)
  BY <1>1, <1>2, <1>4, SameClocks DEF Sound, AskSound, Waiting, Working
<1>7. Sound(d, build, now, cond)
  BY <1>1, <1>2, <1>4, <1>5, <1>6 DEF Sound, ReportSound, SeenSound
<1> QED BY <1>1, <1>2, <1>3, <1>4, <1>7 DEF Moves, LockStep

\* The other files are completed as they are; without any, and without a clock
\* that is due, the thread sleeps.
LEMMA ImmediateMoves ==
    ASSUME IInv, NEW t \in Threads, Immediate(t)
    PROVE  Moves(t) /\ PlainStep
<1> DEFINE c == call[t]
           others == FilesOf(c.subs) \ StdinReads(c)
           done == c.done \cup
                {<<s, IF s.u = "read" /\ s.file \notin Sized THEN "io" ELSE "ok">> : s \in others}
           a == [c EXCEPT !.stage = "again", !.until = now + c.wait]
           d == [c EXCEPT !.stage = "results", !.until = now, !.done = done]
<1>1. /\ Steps(t, "immediate") /\ UNCHANGED stdinPoll
      /\ \/ c.mode = "timeout" /\ Goes(t, a)
         \/ ~(done = {} /\ c.mode = "timeout") /\ Goes(t, d)
  BY DEF Immediate, SleepsAgain
<1>2. /\ PlainStep /\ lock' = lock /\ c \in Calls /\ c.stage = "immediate" /\ ~At(t, "recv")
      /\ Sound(c, build, now, cond) /\ now \in Nat
  BY <1>1, StepsPlain
<1> SUFFICES Moves(t)
  BY <1>2
<1> HIDE DEF c
<1>3. c.subs # {} /\ build # "unix"
  BY <1>2 DEF Sound, AskSound, Working, Waiting
<1>4. CASE c.mode = "timeout" /\ Goes(t, a)
  <2>1. now + c.wait \in Nat
    BY <1>2 DEF Calls
  <2>2. /\ a \in Calls /\ a.stage = "again" /\ a.until = now + c.wait
        /\ a.subs = c.subs /\ a.start = c.start /\ a.seen = c.seen
    BY <1>2, <2>1 DEF Calls, Stages
  <2> HIDE DEF a
  <2>3. Elapsed(a, a.until)
    BY <1>2, <1>4, <2>2, SameClocks DEF Sound, WaitSound, Waiting
  <2>4. Sound(a, build, now, cond)
    BY <1>2, <1>3, <2>2, <2>3 DEF Sound, WaitSound, AskSound, ReportSound, SeenSound, Waiting
  <2> QED BY <1>2, <1>4, <2>2, <2>4, MovesTo
<1>5. CASE ~(done = {} /\ c.mode = "timeout") /\ Goes(t, d)
  <2>1. FilesOf(c.subs) \subseteq FileSubs /\ c.done \in SUBSET (FileSubs \X Outcomes)
        /\ c.mode \in Modes
    BY <1>2 DEF Calls, FilesOf, Subscriptions, Clocks
  <2>2. done \in SUBSET (FileSubs \X Outcomes)
    BY <2>1 DEF Outcomes
  <2>3. done # {} \/ Elapsed(c, now)
    <3>1. CASE c.mode = "timeout"
      BY <1>5, <3>1
    <3>2. CASE c.mode = "immediate"
      BY <1>2, <3>2 DEF Sound, WaitSound, Waiting
    <3>3. CASE c.mode = "infinite"
      <4>1. ~HasClock(c)
        BY <1>2, <3>3 DEF Sound, WaitSound, Waiting
      <4>2. FilesOf(c.subs) # {}
        BY <1>3, <4>1 DEF HasClock, ClocksOf, FilesOf
      <4>3. CASE StdinReads(c) # {}
        BY <1>2, <3>3, <4>3 DEF Sound, AskSound
      <4>4. CASE StdinReads(c) = {}
        <5>1. PICK s \in others : TRUE
          BY <4>2, <4>4
        <5>2. <<s, IF s.u = "read" /\ s.file \notin Sized THEN "io" ELSE "ok">> \in done
          BY <5>1
        <5> QED BY <5>2
      <4> QED BY <4>3, <4>4
    <3> QED BY <2>1, <3>1, <3>2, <3>3 DEF Modes
  <2> HIDE DEF done
  <2>4. /\ d \in Calls /\ d.stage = "results" /\ d.done = done
        /\ d.subs = c.subs /\ d.start = c.start /\ d.seen = c.seen
    BY <1>2, <2>2 DEF Calls, Stages
  <2> HIDE DEF d
  <2>5. Elapsed(d, now) \/ Happened(d, build)
    BY <1>3, <2>3, <2>4, SameClocks DEF Happened
  <2>6. Sound(d, build, now, cond)
    BY <1>2, <1>3, <2>4, <2>5
       DEF Sound, WaitSound, AskSound, ReportSound, SeenSound, Waiting, Working
  <2> QED BY <1>2, <1>5, <2>4, <2>6, MovesTo
<1> QED BY <1>1, <1>4, <1>5

\* The sleep after the look at the files has reached the deadline.
LEMMA SleptAgainMoves ==
    ASSUME IInv, NEW t \in Threads, SleptAgain(t)
    PROVE  Moves(t) /\ PlainStep
<1> DEFINE c == call[t]
           d == [c EXCEPT !.stage = "results", !.until = now]
<1>1. Steps(t, "again") /\ UNCHANGED stdinPoll /\ c.until <= now /\ Goes(t, d)
  BY DEF SleptAgain
<1>2. /\ PlainStep /\ lock' = lock /\ c \in Calls /\ c.stage = "again" /\ ~At(t, "recv")
      /\ Sound(c, build, now, cond) /\ now \in Nat
  BY <1>1, StepsPlain
<1> HIDE DEF c
<1>3. d \in Calls /\ d.stage = "results" /\ d.subs = c.subs /\ d.start = c.start
      /\ d.seen = c.seen
  BY <1>2 DEF Calls, Stages
<1> HIDE DEF d
<1>4. Elapsed(c, c.until) /\ c.until \in Nat /\ c.subs # {}
  BY <1>2 DEF Sound, WaitSound, AskSound, Working, Calls
<1>5. Elapsed(d, now)
  <2>1. EarliestDeadline(c) \in Nat
    BY <1>2, <1>4, EarliestOfClocks DEF Elapsed
  <2>2. Elapsed(c, now)
    BY <1>1, <1>2, <1>4, <2>1 DEF Elapsed
  <2> QED BY <1>3, <2>2, SameClocks
<1>6. Sound(d, build, now, cond)
  BY <1>2, <1>3, <1>4, <1>5
     DEF Sound, WaitSound, AskSound, ReportSound, SeenSound, Waiting, Working
<1> QED BY <1>1, <1>2, <1>3, <1>6, MovesTo

-----------------------------------------------------------------------------
\* The worker, time and files

\* The worker takes a request or answers one.
LEMMA WorkerKeeps ==
    ASSUME IInv, WorkerTakes \/ WorkerNotifies
    PROVE  IInv'
<1> USE DEF IInv, TypeOK
<1>1. UNCHANGED <<build, now, cond, signals, call, calls, lock>>
  BY DEF WorkerTakes, WorkerNotifies, outside
<1>2. requests' \in Nat /\ worker' \in {"idle", "waiting"} /\ notify' \in Seq({"ok", "io"})
  <2>1. CASE WorkerTakes
    BY <2>1 DEF WorkerTakes
  <2>2. CASE WorkerNotifies
    <3>1. PICK r \in {"ok", "io"} : notify' = Append(notify, r)
      BY <2>2 DEF WorkerNotifies
    <3>2. notify' \in Seq({"ok", "io"})
      BY <3>1, AppendProperties
    <3> QED BY <2>2, <3>2 DEF WorkerNotifies
  <2> QED BY <2>1, <2>2
<1> QED BY <1>1, <1>2 DEF At

\* Time passes.
LEMMA TickKeeps ==
    ASSUME IInv, Tick
    PROVE  IInv'
<1> USE DEF IInv, TypeOK
<1>1. UNCHANGED <<build, cond, signals, call, calls, lock, requests, worker, notify>>
      /\ now' = now + 1
  BY DEF Tick, stdinPoll
<1>2. now' \in Nat /\ now <= now'
  BY <1>1
<1>3. \A u \in Threads : Sound(call[u], build, now', cond)
  BY <1>2, SoundLater
<1>4. (\A u \in Threads : Sound(call[u], build, now, cond))'
  BY <1>1, <1>3
<1> QED BY <1>1, <1>2, <1>4 DEF At

\* Data is consumed: less is to be seen.
LEMMA ConsumesKeeps ==
    ASSUME IInv, NEW f \in Files, NEW k \in Conditions, Consumes(f, k)
    PROVE  IInv'
<1> USE DEF IInv, TypeOK
<1>1. UNCHANGED <<build, now, signals, call, calls, lock, requests, worker, notify>>
      /\ cond' = [cond EXCEPT ![f] = @ \ {k}]
  BY DEF Consumes, stdinPoll
<1>2. cond' \in [Files -> SUBSET Conditions] /\ \A g \in Files : cond'[g] \subseteq cond[g]
  BY <1>1
<1>3. \A u \in Threads : Sound(call[u], build, now, cond')
  BY <1>2, SoundLater
<1>4. (\A u \in Threads : Sound(call[u], build, now, cond))'
  BY <1>1, <1>3
<1> QED BY <1>1, <1>2, <1>4 DEF At

\* Something happens to a file: every call in progress sees it.
LEMMA HappensKeeps ==
    ASSUME IInv, NEW f \in Files, NEW k \in Conditions, Happens(f, k)
    PROVE  IInv'
<1> USE DEF IInv, TypeOK
<1>1. UNCHANGED <<build, now, signals, calls, lock, requests, worker, notify>>
      /\ cond' = [cond EXCEPT ![f] = @ \cup {k}]
  BY DEF Happens, stdinPoll
<1>2. cond' \in [Files -> SUBSET Conditions]
  BY <1>1
<1>3. ASSUME NEW t \in Threads
      PROVE  /\ call'[t] \in Calls /\ call'[t].stage = call[t].stage
             /\ Sound(call'[t], build, now, cond')
  <2> DEFINE c == call[t]
             S == SeenOf(c.subs, cond')
             d == [c EXCEPT !.seen = @ \cup S]
  <2>1. c \in Calls /\ Sound(c, build, now, cond) /\ now \in Nat
    OBVIOUS
  <2>2. call'[t] = IF InCall(t) THEN d ELSE c
    BY DEF Happens
  <2>3. CASE InCall(t)
    <3> HIDE DEF c
    <3>1. S \in SUBSET FileSubs
      BY <2>1 DEF SeenOf, FilesOf, Calls, Subscriptions, Clocks
    <3>2. S = {s \in FilesOf(c.subs) : build = "unix" /\ Sees(s, cond')}
      BY DEF SeenOf
    <3> HIDE DEF S
    <3>3. d \in Calls /\ d.stage = c.stage /\ d.subs = c.subs /\ d.seen = c.seen \cup S
      BY <2>1, <3>1 DEF Calls
    <3>4. Sound(d, build, now, cond)
      BY <2>1, <3>1, SoundSeen
    <3> HIDE DEF d
    <3>5. SeenSound(d, build, cond')
      BY <3>2, <3>3 DEF SeenSound
    <3>6. Sound(d, build, now, cond')
      BY <3>4, <3>5 DEF Sound
    <3> QED BY <2>2, <2>3, <3>3, <3>6 DEF c
  <2>4. CASE ~InCall(t)
    <3>1. c.stage \in {"idle", "answered"}
      BY <2>4 DEF InCall
    <3>2. Sound(c, build, now, cond')
      BY <2>1, <3>1 DEF Sound, SeenSound
    <3> QED BY <2>1, <2>2, <2>4, <3>2
  <2> QED BY <2>3, <2>4
<1>4. call' \in [Threads -> Calls]
  <2>1. DOMAIN call' = Threads /\ call' = [t \in Threads |-> call'[t]]
    BY DEF Happens
  <2> QED BY <1>3, <2>1
<1>5. (\A t \in Threads : Sound(call[t], build, now, cond))'
  BY <1>1, <1>3
<1>6. (\A t \in Threads : At(t, "recv") <=> lock = t)'
  BY <1>1, <1>3 DEF At
<1> QED BY <1>1, <1>2, <1>4, <1>5, <1>6

-----------------------------------------------------------------------------
\* The inductive invariant

\* No call is in progress at first.
LEMMA InvInit == Init => IInv
<1> SUFFICES ASSUME Init PROVE IInv
  OBVIOUS
<1>1. TypeOK
  <2>1. call \in [Threads -> Calls] /\ \A t \in Threads : call[t] = NoCall
    BY NoCallSound DEF Init
  <2>2. \A t \in Threads : ~At(t, "recv") /\ lock # t
    BY <2>1, NoCallSound, PollAssumption DEF Init, At
  <2>3. calls \in 0 .. MaxCalls /\ signals \in 0 .. MaxSignals
    BY PollAssumption DEF Init
  <2> QED BY <2>1, <2>2, <2>3 DEF Init, TypeOK
<1>2. \A t \in Threads : Sound(call[t], build, now, cond)
  BY NoCallSound DEF Init
<1> QED BY <1>1, <1>2 DEF IInv

\* One case per group of actions; the steps of a call are the lemmas above.
LEMMA InvNext == IInv /\ [Next]_vars => IInv'
<1> SUFFICES ASSUME IInv, [Next]_vars PROVE IInv'
  OBVIOUS
<1>1. CASE UNCHANGED vars
  BY <1>1 DEF vars, IInv, TypeOK, At
<1>2. ASSUME NEW t \in Threads, Begin(t) \/ PollInterrupted(t) \/ Proceeds(t) PROVE IInv'
  <2>1. Moves(t) /\ PlainStep
    BY <1>2, BeginMoves, SleptMoves, ReportMoves, ReturnMoves, UnixEnterMoves,
       PollInterruptedMoves, PollReadyMoves, PollTimedOutMoves, WindowsEnterMoves,
       AskWorkerMoves, WorkerAnsweredMoves, WorkerSilentMoves, ImmediateMoves, SleptAgainMoves
       DEF Proceeds
  <2> QED BY <2>1, MoveKeeps
<1>3. CASE WorkerTakes \/ WorkerNotifies
  BY <1>3, WorkerKeeps
<1>4. CASE Tick
  BY <1>4, TickKeeps
<1>5. ASSUME NEW f \in Files, NEW k \in Conditions, Happens(f, k) \/ Consumes(f, k) PROVE IInv'
  BY <1>5, HappensKeeps, ConsumesKeeps
<1> QED BY <1>1, <1>2, <1>3, <1>4, <1>5 DEF Next

\* The invariant holds in every state.
LEMMA InvAlways == Spec => []IInv
BY InvInit, InvNext, PTL DEF Spec

\* The types, and that STDIN_POLL is held exactly by the thread that waits for an
\* answer of the worker.
THEOREM PollTypes == Spec => []TypeOK
<1>1. IInv => TypeOK
  BY DEF IInv
<1> QED BY <1>1, InvAlways, PTL

\* A call of poll_oneoff that succeeds reports an event, with either scheduler.
THEOREM SomeEventAlways == Spec => []SomeEvent
<1>1. IInv => SomeEvent
  BY DEF IInv, Sound, ReportSound, SomeEvent, At
<1> QED BY <1>1, InvAlways, PTL

\* What a call reports of clocks is past, and with poll(2) one of its events has
\* happened.
THEOREM WakeTruthAlways == Spec => []WakeTruth
<1>1. IInv => WakeTruth
  <2> SUFFICES ASSUME IInv, NEW t \in Threads, At(t, "answered"), call[t].result = "ok"
               PROVE  LET c == call[t]
                          reported == {e[1] : e \in c.events}
                      IN  /\ \A s \in ClocksOf(reported) : Deadline(c, s) <= now
                          /\ build = "unix" => ClocksOf(reported) # {} \/ reported \cap c.seen # {}
    BY DEF WakeTruth
  <2> DEFINE c == call[t]
             reported == {e[1] : e \in c.events}
  <2>1. /\ \A e \in c.events : e[1].u = "clock" => Deadline(c, e[1]) <= now
        /\ build = "unix" => \E e \in c.events : e[1].u = "clock" \/ e[1] \in c.seen
    BY DEF IInv, Sound, ReportSound, At
  <2> HIDE DEF c
  <2>2. \A s \in ClocksOf(reported) : Deadline(c, s) <= now
    BY <2>1 DEF ClocksOf
  <2>3. ASSUME build = "unix" PROVE ClocksOf(reported) # {} \/ reported \cap c.seen # {}
    <3>1. PICK e \in c.events : e[1].u = "clock" \/ e[1] \in c.seen
      BY <2>1, <2>3
    <3>2. e[1] \in reported
      OBVIOUS
    <3> QED BY <3>1, <3>2 DEF ClocksOf
  <2> QED BY <2>2, <2>3 DEF c
<1> QED BY <1>1, InvAlways, PTL

\* expect("timer deadline is past") never fails: only a call without a clock panics.
THEOREM OnlyUnclockedPanic == Spec => []PanicUnclocked
<1>1. IInv => PanicUnclocked
  BY DEF IInv, Sound, WaitSound, PanicUnclocked, At
<1> QED BY <1>1, InvAlways, PTL

=============================================================================

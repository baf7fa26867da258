----------------------------- MODULE PollOneoff -----------------------------
(***************************************************************************)
(* poll_oneoff (crates/wasi-common/src/snapshots/preview_1.rs), the        *)
(* subscriptions and their results (sched.rs, sched/subscription.rs), and  *)
(* the two schedulers that wait for them: sync/sched/unix.rs is a loop     *)
(* around poll(2), sync/sched/windows.rs asks a worker thread for stdin    *)
(* and sleeps for the clocks.                                              *)
(*                                                                         *)
(* Time is counted in ticks, of which TicksPerMs are a millisecond, since  *)
(* deadlines are finer than the timeouts that poll(2) takes.  The guest    *)
(* passes a set of subscriptions; the position of one stands for its       *)
(* userdata.  How many bytes are ready is left out.                        *)
(***************************************************************************)
EXTENDS Naturals, Sequences, FiniteSets

CONSTANTS
    Threads,     \* guest threads
    NoThread,    \* nobody holds STDIN_POLL
    Files,       \* open files, sockets and pipes
    Stdin,       \* the one that is sync::stdio::Stdin
    NoFile,      \* what a descriptor names that get_file refuses
    Pollable,    \* files whose pollable() is Some
    Sized,       \* files whose num_ready_bytes() succeeds
    Conds,       \* Conds[f]: what may happen to file f
    Requests,    \* Requests[t]: the sets of subscriptions that thread t passes
    Builds,      \* the platforms the program is built for
    TicksPerMs,  \* ticks of the clock in a millisecond
    MaxPoll,     \* c_int::MAX, the longest timeout of poll(2)
    MaxCalls,    \* bound: calls of all threads
    MaxSignals,  \* bound: signals that interrupt poll(2)
    MaxLate      \* bound: ticks by which a thread is late after a wait

Conditions == {"IN", "OUT", "HUP", "ERR"}
Clocks == [u : {"clock"}, id : {"monotonic", "realtime", "other"}, abs : BOOLEAN, timeout : Nat]
FileSubs == [u : {"read", "write"}, file : Files \cup {NoFile}]
Subscriptions == Clocks \cup FileSubs

ASSUME PollAssumption ==
    /\ NoThread \notin Threads /\ NoFile \notin Files /\ Stdin \in Files
    /\ Pollable \subseteq Files /\ Sized \subseteq Files /\ Stdin \in Pollable
    /\ Conds \in [Files -> SUBSET Conditions]
    /\ DOMAIN Requests = Threads
    /\ \A t \in Threads : \A r \in Requests[t] : r \subseteq Subscriptions /\ IsFiniteSet(r)
    /\ Builds \subseteq {"unix", "windows"}
    /\ TicksPerMs \in Nat \ {0} /\ MaxPoll \in Nat \ {0}
    /\ MaxCalls \in Nat /\ MaxSignals \in Nat /\ MaxLate \in Nat

VARIABLES
    build,      \* the platform
    now,        \* the monotonic clock
    cond,       \* cond[f]: what poll(2) would say of f
    call,       \* call[t]: the call that thread t is in
    calls,      \* how many calls have begun
    signals,    \* how many signals have come
    lock,       \* who holds STDIN_POLL
    requests,   \* the channel to the worker: unit messages, so their number
    worker,     \* the worker: "idle", or "waiting" in fill_buf with stdin locked
    notify      \* the channel back, answers of the worker

vars == <<build, now, cond, call, calls, signals, lock, requests, worker, notify>>
stdinPoll == <<lock, requests, worker, notify>>
outside == <<build, now, cond, signals>>

-----------------------------------------------------------------------------

Stages == {"idle", "sleep", "enter", "poll", "lock", "recv", "immediate", "again",
           "results", "answered", "panicked"}
Results == {"none", "ok", "inval", "notsup", "badf", "overflow", "failed"}
Outcomes == {"ok", "hangup", "io"}
Modes == {"timeout", "infinite", "immediate"}

ClocksOf(subs) == {s \in subs : s.u = "clock"}
FilesOf(subs) == {s \in subs : s.u # "clock"}

\* start: when the clocks were read; until: when a wait ends, or since when a
\* stage could go on; mode, wait: WaitMode; done: the subscriptions completed;
\* events: what was reported; seen: history, the file subscriptions of the call
\* that have occurred since it began.
Calls == [stage : Stages, subs : SUBSET Subscriptions, start : Nat, until : Nat, mode : Modes,
          wait : Nat, done : SUBSET (FileSubs \X Outcomes),
          events : SUBSET (Subscriptions \X Outcomes), seen : SUBSET FileSubs, result : Results]

NoCall == [stage |-> "idle", subs |-> {}, start |-> 0, until |-> 0, mode |-> "infinite",
           wait |-> 0, done |-> {}, events |-> {}, seen |-> {}, result |-> "none"]

At(t, stage) == call[t].stage = stage
Panicked == \E t \in Threads : At(t, "panicked")
InCall(t) == call[t].stage \notin {"idle", "answered"}

\* STDIN_POLL is held exactly by a thread that waits for the worker.
TypeOK ==
    /\ build \in Builds /\ now \in Nat /\ requests \in Nat
    /\ cond \in [Files -> SUBSET Conditions]
    /\ call \in [Threads -> Calls]
    /\ calls \in 0 .. MaxCalls /\ signals \in 0 .. MaxSignals
    /\ worker \in {"idle", "waiting"} /\ notify \in Seq({"ok", "io"})
    /\ lock \in Threads \cup {NoThread}
    /\ \A t \in Threads : At(t, "recv") <=> lock = t

Init ==
    /\ build \in Builds /\ now = 0
    /\ cond = [f \in Files |-> {}]
    /\ call = [t \in Threads |-> NoCall] /\ calls = 0 /\ signals = 0
    /\ lock = NoThread /\ requests = 0 /\ worker = "idle" /\ notify = <<>>

-----------------------------------------------------------------------------
\* Subscriptions

\* The clock is created with the context, at time 0.
DeadlineFrom(start, s) == (IF s.abs THEN 0 ELSE start) + s.timeout
Deadline(c, s) == DeadlineFrom(c.start, s)

Deadlines(subs, start) == {DeadlineFrom(start, s) : s \in ClocksOf(subs)}
Least(D) == CHOOSE d \in D : \A e \in D : d <= e

EarliestDeadline(c) == Least(Deadlines(c.subs, c.start))

HasClock(c) == ClocksOf(c.subs) # {}

\* A clock has a result when its deadline is past, a file when it was completed.
PollResults(c) == c.done \cup {<<s, "ok">> : s \in {k \in ClocksOf(c.subs) : Deadline(c, k) <= now}}

\* What poll_oneoff says at once of subscriptions it cannot use.
Refusals(subs) ==
    {"inval" : s \in {k \in ClocksOf(subs) : k.id = "other"}}
        \cup {"notsup" : s \in {k \in ClocksOf(subs) : k.id = "realtime" /\ k.abs}}
        \cup {"badf" : s \in {k \in FilesOf(subs) : k.file = NoFile}}

\* A single relative timer, of any clock.
IsSleep(subs) == Cardinality(subs) = 1 /\ \A s \in subs : s.u = "clock" /\ ~s.abs

\* Something the subscription is about has happened to its file.
Sees(s, conds) ==
    /\ s.file # NoFile
    /\ conds[s.file] \cap {IF s.u = "read" THEN "IN" ELSE "OUT", "HUP", "ERR"} # {}

\* No property asks for it on the other platform.
SeenOf(subs, conds) == {s \in FilesOf(subs) : build = "unix" /\ Sees(s, conds)}

-----------------------------------------------------------------------------
\* Steps of a call

Answered(c, result, events) ==
    [NoCall EXCEPT !.stage = "answered", !.subs = c.subs, !.start = c.start, !.seen = c.seen,
                   !.result = result, !.events = events]

Goes(t, c) == call' = [call EXCEPT ![t] = c]
Answers(t, result) == Goes(t, Answered(call[t], result, {}))
Panics(t) == Goes(t, [call[t] EXCEPT !.stage = "panicked"])

Steps(t, stage) == ~Panicked /\ At(t, stage) /\ UNCHANGED <<outside, calls>>

Begin(t) ==
    /\ ~Panicked /\ At(t, "idle") /\ calls < MaxCalls
    /\ calls' = calls + 1
    /\ \E subs \in Requests[t] :
        LET c == [NoCall EXCEPT !.subs = subs, !.until = now,
                                !.start = IF ClocksOf(subs) = {} THEN 0 ELSE now,
                                !.seen = SeenOf(subs, cond)]
        IN  CASE subs = {} -> Goes(t, Answered(c, "inval", {}))
              [] IsSleep(subs) ->
                    \E s \in subs : Goes(t, [c EXCEPT !.stage = "sleep", !.until = now + s.timeout])
              [] ~IsSleep(subs) /\ Refusals(subs) # {} ->
                    \E e \in Refusals(subs) : Goes(t, Answered(c, e, {}))
              [] OTHER -> Goes(t, [c EXCEPT !.stage = "enter"])
    /\ UNCHANGED <<outside, stdinPoll>>

Slept(t) ==
    /\ Steps(t, "sleep") /\ call[t].until <= now
    /\ Goes(t, Answered(call[t], "ok", call[t].subs \X {"ok"}))
    /\ UNCHANGED stdinPoll

Report(t) ==
    /\ Steps(t, "results")
    /\ Goes(t, Answered(call[t], "ok", PollResults(call[t])))
    /\ UNCHANGED stdinPoll

\* The guest goes on.
Return(t) ==
    /\ Steps(t, "answered")
    /\ Goes(t, NoCall)
    /\ UNCHANGED stdinPoll

-----------------------------------------------------------------------------
\* sync/sched/unix.rs

\* Mutation: the timeout is rounded down.
PollTimeoutFloor(c) ==
    IF HasClock(c)
    THEN (IF EarliestDeadline(c) >= now THEN EarliestDeadline(c) - now ELSE 0) \div TicksPerMs
    ELSE MaxPoll

\* The timeout in milliseconds, rounded up.
PollTimeout(c) ==
    IF HasClock(c)
    THEN (IF EarliestDeadline(c) >= now THEN EarliestDeadline(c) - now ELSE 0) \div TicksPerMs + 1
    ELSE MaxPoll

\* Mutation: IN and OUT are confused.
ReventsSwapped(s) == cond[s.file] \cap {IF s.u = "read" THEN "OUT" ELSE "IN", "HUP", "ERR"}

Revents(s) == cond[s.file] \cap {IF s.u = "read" THEN "IN" ELSE "OUT", "HUP", "ERR"}

NotPollable(subs) == \E s \in FilesOf(subs) : s.file \notin Pollable

UnixEnter(t) ==
    /\ build = "unix" /\ Steps(t, "enter")
    /\ LET c == call[t]
       IN  CASE NotPollable(c.subs) -> Answers(t, "inval")
             [] ~NotPollable(c.subs) /\ PollTimeout(c) > MaxPoll -> Answers(t, "overflow")
             [] OTHER -> Goes(t, [c EXCEPT !.stage = "poll",
                                           !.until = now + PollTimeout(c) * TicksPerMs])
    /\ UNCHANGED stdinPoll

NothingReady(t) == \A s \in FilesOf(call[t].subs) : Revents(s) = {}

\* EINTR: the loop computes the timeout anew.
PollInterrupted(t) ==
    /\ ~Panicked /\ At(t, "poll") /\ NothingReady(t) /\ signals < MaxSignals
    /\ signals' = signals + 1
    /\ Goes(t, [call[t] EXCEPT !.stage = "enter", !.until = now])
    /\ UNCHANGED <<build, now, cond, calls, stdinPoll>>

Outcome(revents) ==
    IF "ERR" \in revents THEN "io" ELSE IF "HUP" \in revents THEN "hangup" ELSE "ok"

\* ready > 0: every file subscription is completed, also one without an event.
\* One num_ready_bytes that fails is the result of the call.
PollReady(t) ==
    /\ Steps(t, "poll") /\ ~NothingReady(t)
    /\ LET subs == FilesOf(call[t].subs)
       IN  IF \E s \in subs : s.u = "read" /\ s.file \notin Sized
           THEN Answers(t, "failed")
           ELSE Goes(t, [call[t] EXCEPT !.stage = "results", !.until = now,
                                        !.done = {<<s, Outcome(Revents(s))>> : s \in subs}])
    /\ UNCHANGED stdinPoll

\* ready = 0: expect("timed out"), then expect("timer deadline is past").
PollTimedOut(t) ==
    /\ Steps(t, "poll") /\ NothingReady(t) /\ call[t].until <= now
    /\ IF HasClock(call[t]) /\ EarliestDeadline(call[t]) <= now
       THEN Goes(t, [call[t] EXCEPT !.stage = "results", !.until = now])
       ELSE Panics(t)
    /\ UNCHANGED stdinPoll

-----------------------------------------------------------------------------
\* sync/sched/windows.rs

IsStdinRead(s) == s.u = "read" /\ s.file = Stdin
StdinReads(c) == {s \in FilesOf(c.subs) : IsStdinRead(s)}

\* Mutation: a deadline that is past is none.
WaitModeLost(c) == IF HasClock(c) /\ EarliestDeadline(c) >= now THEN "timeout" ELSE "infinite"

WaitMode(c) ==
    IF ~HasClock(c) THEN "infinite"
    ELSE IF EarliestDeadline(c) >= now THEN "timeout" ELSE "immediate"

WindowsEnter(t) ==
    /\ build = "windows" /\ Steps(t, "enter")
    /\ LET c == call[t]
       IN  IF NotPollable(c.subs)
           THEN Answers(t, "inval")
           ELSE Goes(t, [c EXCEPT
                    !.stage = IF StdinReads(c) # {} THEN "lock" ELSE "immediate",
                    !.mode = WaitMode(c),
                    !.wait = IF WaitMode(c) = "timeout" THEN EarliestDeadline(c) - now ELSE 0,
                    !.until = now])
    /\ UNCHANGED stdinPoll

\* StdinPoll::poll: one answer to an earlier request is thrown away, and the
\* worker is asked.  The worker takes from one channel and sends to the other, so
\* nothing it does between the two shows.
AskWorker(t) ==
    /\ Steps(t, "lock") /\ lock = NoThread
    /\ lock' = t
    /\ notify' = IF notify = <<>> THEN notify ELSE Tail(notify)
    /\ requests' = requests + 1
    /\ Goes(t, [call[t] EXCEPT !.stage = "recv", !.until = now + call[t].wait])
    /\ UNCHANGED worker

\* Mutation: the guard outlives the wait.
ReleasedLate(t) == t

\* The guard of STDIN_POLL ends with the statement.
Released(t) == NoThread

\* The answer goes to every subscription to stdin.
WorkerAnswered(t) ==
    /\ Steps(t, "recv") /\ notify # <<>>
    /\ notify' = Tail(notify)
    /\ lock' = Released(t)
    /\ Goes(t, [call[t] EXCEPT !.stage = "immediate", !.until = now,
                               !.done = StdinReads(call[t]) \X {Head(notify)}])
    /\ UNCHANGED <<requests, worker>>

\* NotReady or TimedOut.  The answer to the request will come later.
WorkerSilent(t) ==
    /\ Steps(t, "recv") /\ notify = <<>>
    /\ call[t].mode # "infinite" /\ call[t].until <= now
    /\ lock' = Released(t)
    /\ Goes(t, [call[t] EXCEPT !.stage = "immediate", !.until = now])
    /\ UNCHANGED <<requests, worker, notify>>

SleepsAgain(c, done) == done = {} /\ c.mode = "timeout"

\* Other files are completed without a look at what has happened to them.  If
\* nothing is ready the thread sleeps, also after a wait for the worker.
Immediate(t) ==
    /\ Steps(t, "immediate")
    /\ LET c == call[t]
           done == c.done \cup
                {<<s, IF s.u = "read" /\ s.file \notin Sized THEN "io" ELSE "ok">> :
                    s \in FilesOf(c.subs) \ StdinReads(c)}
       IN  Goes(t, IF SleepsAgain(c, done)
                   THEN [c EXCEPT !.stage = "again", !.until = now + c.wait]
                   ELSE [c EXCEPT !.stage = "results", !.until = now, !.done = done])
    /\ UNCHANGED stdinPoll

SleptAgain(t) ==
    /\ Steps(t, "again") /\ call[t].until <= now
    /\ Goes(t, [call[t] EXCEPT !.stage = "results", !.until = now])
    /\ UNCHANGED stdinPoll

\* StdinPoll::event_loop
WorkerTakes ==
    /\ ~Panicked /\ worker = "idle" /\ requests > 0
    /\ worker' = "waiting" /\ requests' = requests - 1
    /\ UNCHANGED <<outside, call, calls, lock, notify>>

WorkerNotifies ==
    /\ ~Panicked /\ worker = "waiting" /\ cond[Stdin] \ {"OUT"} # {}
    /\ worker' = "idle"
    /\ notify' = Append(notify, IF "ERR" \in cond[Stdin] THEN "io" ELSE "ok")
    /\ UNCHANGED <<outside, call, calls, lock, requests>>

-----------------------------------------------------------------------------
\* Time and files

\* The threads whose next step is due at a known time.
Due == {t \in Threads :
            call[t].stage \in {"sleep", "enter", "poll", "immediate", "again", "results"}
                \/ (At(t, "recv") /\ call[t].mode # "infinite")}

Tick ==
    /\ ~Panicked /\ Due # {}
    /\ \A t \in Due : now < call[t].until + MaxLate
    /\ now' = now + 1
    /\ UNCHANGED <<build, cond, call, calls, signals, stdinPoll>>

\* Data or room arrives, the peer hangs up, an error is pending.
Happens(f, k) ==
    /\ ~Panicked /\ k \in Conds[f] \ cond[f]
    /\ cond' = [cond EXCEPT ![f] = @ \cup {k}]
    /\ call' = [t \in Threads |->
                    IF InCall(t)
                    THEN [call[t] EXCEPT !.seen = @ \cup SeenOf(call[t].subs, cond')]
                    ELSE call[t]]
    /\ UNCHANGED <<build, now, calls, signals, stdinPoll>>

\* A thread that is not in poll_oneoff reads or writes.  The lock of stdin is with
\* the worker while it waits.
Consumes(f, k) ==
    /\ ~Panicked /\ k \in cond[f] \cap {"IN", "OUT"}
    /\ f = Stdin => worker = "idle"
    /\ cond' = [cond EXCEPT ![f] = @ \ {k}]
    /\ UNCHANGED <<build, now, call, calls, signals, stdinPoll>>

-----------------------------------------------------------------------------

Proceeds(t) ==
    \/ Slept(t) \/ Report(t) \/ Return(t)
    \/ UnixEnter(t) \/ PollReady(t) \/ PollTimedOut(t)
    \/ WindowsEnter(t) \/ AskWorker(t) \/ WorkerAnswered(t) \/ WorkerSilent(t)
    \/ Immediate(t) \/ SleptAgain(t)

Next ==
    \/ \E t \in Threads : Begin(t) \/ PollInterrupted(t) \/ Proceeds(t)
    \/ WorkerTakes \/ WorkerNotifies
    \/ Tick
    \/ \E f \in Files, k \in Conditions : Happens(f, k) \/ Consumes(f, k)

Spec == Init /\ [][Next]_vars

\* Threads of the operating system run, and time passes; nothing makes data come.
FairSpec == Spec /\ WF_vars(Tick) /\ WF_vars(WorkerTakes) /\ WF_vars(WorkerNotifies)
                 /\ \A t \in Threads : WF_vars(Proceeds(t))

-----------------------------------------------------------------------------
\* Properties

\* A call that succeeds reports an event: the schedulers return to poll_oneoff
\* only when some subscription has a result (unix.rs:52-79, windows.rs:114-120),
\* and results() does not lose it.
SomeEvent == \A t \in Threads :
    At(t, "answered") /\ call[t].result = "ok" => call[t].events # {}

\* A clock is reported only when its deadline is past, and a call does not end for
\* nothing: with poll(2), one of the events it reports has happened since it began.
WakeTruth == \A t \in Threads :
    At(t, "answered") /\ call[t].result = "ok" =>
        LET c == call[t]
            reported == {e[1] : e \in c.events}
        IN  /\ \A s \in ClocksOf(reported) : Deadline(c, s) <= now
            /\ build = "unix" => ClocksOf(reported) # {} \/ reported \cap c.seen # {}

\* "timer deadline is past" (unix.rs:77) never fails: the rounded timeout reaches
\* the deadline whatever signals come.  The only panic is "timed out" (unix.rs:75),
\* of a call without a clock after the longest timeout.
PanicUnclocked == \A t \in Threads : At(t, "panicked") => ~HasClock(call[t])

\* A call that has a clock ends, also when another thread waits for stdin without
\* one: unless that thread holds STDIN_POLL (windows.rs:71), for which nothing but
\* data ends the wait.
PollsEnd == \A t \in Threads :
    InCall(t) /\ HasClock(call[t]) ~>
        \/ ~InCall(t) \/ Panicked
        \/ \E u \in Threads : lock = u /\ ~HasClock(call[u])

=============================================================================

---------------------------- MODULE HttpDriver ----------------------------
(* The built-in http driver, http_driver/reqwest_driver.rs: responses under *)
(* handles, their headers, and their bodies read piece by piece.            *)
(*                                                                          *)
(* A caller is a guest of the process; the handles belong to the process.   *)
(* What happens between two awaits is one action. The bytes of a body are   *)
(* numbered 1, 2, ... in the order the peer sends them.                     *)
EXTENDS DriverParameters, Integers, Sequences

VARIABLES
    ctx,        \* get_ctx(): handle -> entry
    maxHandle,  \* MAX_HANDLE
    call,       \* caller -> the call it is in
    made,       \* calls begun
    given,      \* history: for each handle the bytes its readers have got
    short,      \* history: handles of which a reader got less than it asked
    closed      \* history: handles whose close has succeeded

vars == <<ctx, maxHandle, call, made, given, short, closed>>

\* The handles that guests pass: bounded like the calls that give them.
Handles == 1 .. MaxCalls

\* HttpCtx: a response whose body is unread, or a stream with the rest of
\* its last chunk (<<>>: None). pos is how much of the body has arrived, and
\* broken that the connection has failed or its time is over.
Entries == [kind : {"response", "stream"}, pos : 0 .. Length,
            broken : BOOLEAN, buffer : Seq(1 .. Length)]
NewResponse == [kind |-> "response", pos |-> 0, broken |-> FALSE, buffer |-> <<>>]

\* A call waits for the response ("send") or for a chunk ("next"), in which
\* case it holds the stream; "gone" is a guest that its host call has killed.
Stages == {"idle", "send", "next", "gone"}
Calls == [stage : Stages, fd : Nat, size : {0} \cup Sizes,
          got : Seq(1 .. Length), state : Entries]
Idle == [stage |-> "idle", fd |-> 0, size |-> 0, got |-> <<>>, state |-> NewResponse]
Gone == [Idle EXCEPT !.stage = "gone"]

Init ==
    /\ ctx = << >>
    /\ maxHandle = 0
    /\ call = [c \in Callers |-> Idle]
    /\ made = 0
    /\ given = <<>>
    /\ short = {}
    /\ closed = {}

Put(h, e) == [x \in DOMAIN ctx \cup {h} |-> IF x = h THEN e ELSE ctx[x]]
Remove(h) == [x \in DOMAIN ctx \ {h} |-> ctx[x]]

\* A guest is in one call at a time.
Begin(c) ==
    /\ call[c] = Idle
    /\ made < MaxCalls
    /\ made' = made + 1

-----------------------------------------------------------------------------
(* http_req. *)

\* The url, the permission or the options are refused before anything is sent.
ReqRefused(c) ==
    /\ Begin(c)
    /\ UNCHANGED <<ctx, maxHandle, call, given, short, closed>>

ReqSend(c) ==
    /\ Begin(c)
    /\ call' = [call EXCEPT ![c] = [Idle EXCEPT !.stage = "send"]]
    /\ UNCHANGED <<ctx, maxHandle, given, short, closed>>

ReqFailed(c) ==
    /\ call[c].stage = "send"
    /\ call' = [call EXCEPT ![c] = Idle]
    /\ UNCHANGED <<ctx, maxHandle, made, given, short, closed>>

\* Mutation: the handle is read before it is increased.
NewHandleBefore == maxHandle

\* increase_fd.
NewHandle == maxHandle + 1

ReqDone(c) ==
    /\ call[c].stage = "send"
    /\ maxHandle' = NewHandle
    /\ ctx' = Put(maxHandle', NewResponse)
    /\ call' = [call EXCEPT ![c] = Idle]
    /\ given' = Append(given, <<>>)
    /\ UNCHANGED <<made, short, closed>>

-----------------------------------------------------------------------------
(* http_read_header and http_close. *)

\* The headers of a response, or an error: nothing changes.
ReadHeader(c) ==
    /\ Begin(c)
    /\ UNCHANGED <<ctx, maxHandle, call, given, short, closed>>

\* A header longer than the guest's buffer: copy_from_slice panics.
HeaderPanic(c, h) ==
    /\ Begin(c)
    /\ h \in DOMAIN ctx
    /\ ctx[h].kind = "response"
    /\ call' = [call EXCEPT ![c] = Gone]
    /\ UNCHANGED <<ctx, maxHandle, given, short, closed>>

\* Mutation: a close of a body that is being read succeeds.
ClosableAll == 1 .. maxHandle

\* The handles that a close accepts: a body that is being read is not there.
Closable == DOMAIN ctx

Close(c, h) ==
    /\ Begin(c)
    /\ h \in Closable
    /\ ctx' = Remove(h)
    /\ closed' = closed \cup {h}
    /\ UNCHANGED <<maxHandle, call, given, short>>

\* InvalidHandle, for a close or a read.
Invalid(c, h) ==
    /\ Begin(c)
    /\ h \notin DOMAIN ctx
    /\ UNCHANGED <<ctx, maxHandle, call, given, short, closed>>

-----------------------------------------------------------------------------
(* http_read_body: the entry leaves the map, stream_read fills the buffer,  *)
(* and the entry goes back.                                                 *)

\* read_call: how many of the bytes in `piece` go where `room` is left.
Fitting(piece, room) == IF Len(piece) < room THEN Len(piece) ELSE room
Taken(piece, room) == SubSeq(piece, 1, Fitting(piece, room))
\* Mutation: the rest of a chunk is cut one byte late.
RestLate(piece, room) == SubSeq(piece, Fitting(piece, room) + 2, Len(piece))

Rest(piece, room) == SubSeq(piece, Fitting(piece, room) + 1, Len(piece))

\* Mutation: stream_read returns with whatever the first piece has given.
FullEarly(got, size) == got # <<>>

\* stream_read returns once the buffer is full.
Full(got, size) == Len(got) = size

\* The end of http_read_body of handle h.
Return(c, h, got, size, e) ==
    /\ ctx' = Put(h, e)
    /\ call' = [call EXCEPT ![c] = Idle]
    /\ given' = [given EXCEPT ![h] = @ \o got]
    /\ short' = IF Len(got) < size THEN short \cup {h} ELSE short
    /\ UNCHANGED <<maxHandle, closed>>

\* The call takes the stream along and waits for a chunk.
Await(c, h, got, size, e) ==
    /\ ctx' = Remove(h)
    /\ call' = [call EXCEPT ![c] = [stage |-> "next", fd |-> h, size |-> size,
                                    got |-> got, state |-> e]]
    /\ UNCHANGED <<maxHandle, given, short, closed>>

\* The response becomes a stream; what is left of the last chunk comes first.
ReadBody(c, h, size) ==
    /\ Begin(c)
    /\ h \in DOMAIN ctx
    /\ LET buffer == ctx[h].buffer
           got == Taken(buffer, size)
           e == [ctx[h] EXCEPT !.kind = "stream", !.buffer = Rest(buffer, size)]
       IN IF buffer # <<>> /\ Full(got, size)
          THEN Return(c, h, got, size, e)
          ELSE Await(c, h, got, size, e)

\* The next n bytes of the body.
Chunk(pos, n) == [i \in 1 .. n |-> pos + i]

\* A chunk arrives: it fills the buffer, and its rest stays with the stream.
ChunkArrives(c, n) ==
    /\ call[c].stage = "next"
    /\ ~call[c].state.broken
    /\ call[c].state.pos + n <= Length
    /\ LET k == call[c]
           chunk == Chunk(k.state.pos, n)
           room == k.size - Len(k.got)
           got == k.got \o Taken(chunk, room)
           e == [k.state EXCEPT !.pos = @ + n, !.buffer = Rest(chunk, room)]
       IN IF Full(got, k.size)
          THEN Return(c, k.fd, got, k.size, e)
          ELSE /\ call' = [call EXCEPT ![c].got = got, ![c].state = e]
               /\ UNCHANGED <<ctx, maxHandle, given, short, closed>>
    /\ UNCHANGED made

\* The stream is over, or fails: the reader gets what there is so far.
StreamEnds(c) ==
    /\ call[c].stage = "next"
    /\ call[c].state.broken \/ call[c].state.pos = Length
    /\ Return(c, call[c].fd, call[c].got, call[c].size, call[c].state)
    /\ UNCHANGED made

StreamFails(c) ==
    /\ call[c].stage = "next"
    /\ Return(c, call[c].fd, call[c].got, call[c].size,
              [call[c].state EXCEPT !.broken = TRUE])
    /\ UNCHANGED made

\* The process ends and another one is started: a map without entries.
Restart ==
    /\ ctx' = << >>
    /\ maxHandle' = 0
    /\ call' = [c \in Callers |-> Idle]
    /\ given' = <<>>
    /\ short' = {}
    /\ closed' = {}
    /\ UNCHANGED made

-----------------------------------------------------------------------------
Step(c) ==
    \/ ReqRefused(c) \/ ReqSend(c) \/ ReqFailed(c) \/ ReqDone(c)
    \/ ReadHeader(c)
    \/ \E h \in Handles :
          HeaderPanic(c, h) \/ Close(c, h) \/ Invalid(c, h)
          \/ \E size \in Sizes : ReadBody(c, h, size)
    \/ \E n \in 1 .. Length : ChunkArrives(c, n)
    \/ StreamEnds(c) \/ StreamFails(c)

Next == Restart \/ \E c \in Callers : Step(c)

Spec == Init /\ [][Next]_vars

-----------------------------------------------------------------------------
(* Properties. *)

Held == {call[c].fd : c \in {d \in Callers : call[d].stage = "next"}}

\* The types of the variables; handles are numbers that increase_fd has given.
TypeOK ==
    /\ maxHandle \in Nat
    /\ made \in 0 .. MaxCalls
    /\ DOMAIN ctx \subseteq 1 .. maxHandle
    /\ \A h \in DOMAIN ctx : ctx[h] \in Entries
    /\ call \in [Callers -> Calls]
    /\ given \in [1 .. maxHandle -> Seq(1 .. Length)]
    /\ short \subseteq 1 .. maxHandle
    /\ closed \subseteq 1 .. maxHandle

\* A handle that was given out and not closed is in the map or with the one
\* call that reads it, never in both, never lost, and a closed one in
\* neither: http_read_body takes the entry out across its awaits and puts it
\* back, and a close that comes in between must not succeed.
HandleKept ==
    /\ (1 .. maxHandle) \ closed = DOMAIN ctx \cup Held
    /\ DOMAIN ctx \cap Held = {}
    /\ \A c, d \in Callers :
          call[c].stage = "next" /\ call[d].stage = "next" /\ call[c].fd = call[d].fd
          => c = d

\* The stream of handle h, wherever it is.
StreamAt(h, e, got) == given[h] \o got \o e.buffer = Chunk(0, e.pos)

\* Readers get the bytes of a body in order, each of them once: what they
\* have, what the read in progress has, and the rest of the chunk are what
\* has arrived, over any number of reads and sizes of chunks.
BodyInOrder ==
    /\ \A h \in DOMAIN ctx : StreamAt(h, ctx[h], <<>>)
    /\ \A c \in Callers : call[c].stage = "next" =>
          StreamAt(call[c].fd, call[c].state, call[c].got)

Exhausted(e) == e.buffer = <<>> /\ (e.broken \/ e.pos = Length)

\* A read that returns less than was asked for is the last one to return
\* anything: guests take it for the end of the body.
ShortIsLast ==
    /\ \A h \in DOMAIN ctx : h \in short => Exhausted(ctx[h])
    /\ \A c \in Callers : call[c].stage = "next" /\ call[c].fd \in short =>
          Exhausted(call[c].state) /\ call[c].got = <<>>

=============================================================================

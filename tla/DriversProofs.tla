--------------------------- MODULE DriversProofs ---------------------------
(* Proofs about the drivers that keep handles. First the http driver by     *)
(* itself, for any number of guests, any length of the bodies and any sizes *)
(* of chunks and buffers. Then Drivers: what holds of the http driver also  *)
(* holds beside the cgi driver, and the properties of the cgi driver; the   *)
(* invariant ties what a listing has in hand to the rows of the database,   *)
(* statement by statement, and counts the listings that have yet to take a  *)
(* handle. Last the ipfs and the s3 driver by themselves (AnswerDrivers).   *)
EXTENDS Drivers, AnswerDrivers, SequenceTheorems, FiniteSetTheorems, WellFoundedInduction, TLAPS

Bytes == 1 .. Length

-----------------------------------------------------------------------------
(* Pieces of a body. *)

\* What fits into the buffer and what does not are the two parts of a piece.
LEMMA TakenRest ==
    ASSUME NEW S, NEW piece \in Seq(S), NEW room \in Nat
    PROVE  /\ Taken(piece, room) \in Seq(S)
           /\ Rest(piece, room) \in Seq(S)
           /\ Taken(piece, room) \o Rest(piece, room) = piece
           /\ Len(Taken(piece, room)) = Fitting(piece, room)
           /\ Len(Rest(piece, room)) = Len(piece) - Fitting(piece, room)
           /\ Fitting(piece, room) \in 0 .. room
<1> DEFINE k == Fitting(piece, room)
<1>1. k \in 0 .. Len(piece) /\ k <= room
  BY LenProperties DEF Fitting
<1>2. /\ Taken(piece, room) \in Seq(S)
      /\ Len(Taken(piece, room)) = k
      /\ \A i \in 1 .. k : Taken(piece, room)[i] = piece[i]
  BY <1>1 DEF Taken
<1>3. /\ Rest(piece, room) \in Seq(S)
      /\ Len(Rest(piece, room)) = Len(piece) - k
      /\ \A i \in 1 .. Len(piece) - k : Rest(piece, room)[i] = piece[k + i]
  BY <1>1 DEF Rest
<1>4. Taken(piece, room) \o Rest(piece, room) = piece
  <2> DEFINE t == Taken(piece, room)
             r == Rest(piece, room)
  <2> HIDE DEF t, r, k
  <2>1. t \o r \in Seq(S) /\ Len(t \o r) = Len(piece)
    <3>1. t \in Seq(S) /\ r \in Seq(S) /\ Len(t) = k /\ Len(r) = Len(piece) - k
      BY <1>2, <1>3 DEF t, r
    <3>2. t \o r \in Seq(S) /\ Len(t \o r) = Len(t) + Len(r)
      BY <3>1, ConcatProperties
    <3>3. Len(piece) \in Nat /\ k \in Nat
      BY <1>1, LenProperties
    <3> QED
      BY <3>1, <3>2, <3>3
  <2>2. ASSUME NEW i \in 1 .. Len(piece) PROVE (t \o r)[i] = piece[i]
    <3>1. Len(piece) \in Nat /\ k \in Nat
      BY <1>1, LenProperties
    <3>2. (t \o r)[i] = IF i <= k THEN t[i] ELSE r[i - k]
      BY <1>1, <1>2, <1>3, <3>1, ConcatProperties DEF t, r
    <3>3. CASE i <= k
      BY <1>2, <3>1, <3>2, <3>3 DEF t
    <3>4. CASE ~(i <= k)
      <4>1. i - k \in 1 .. Len(piece) - k /\ k + (i - k) = i
        BY <3>1, <3>4
      <4> QED
        BY <1>3, <3>2, <3>4, <4>1 DEF r
    <3> QED
      BY <3>3, <3>4
  <2> QED
    BY <2>1, <2>2, SeqEqual DEF t, r
<1> QED
  BY <1>1, <1>2, <1>3, <1>4

\* The bytes up to p and the n after them are the bytes up to p + n.
LEMMA ChunkJoin ==
    ASSUME NEW p \in Nat, NEW n \in Nat
    PROVE  /\ Chunk(p, n) \in Seq(Nat)
           /\ Len(Chunk(p, n)) = n
           /\ Chunk(0, p) \o Chunk(p, n) = Chunk(0, p + n)
<1>1. \A q, m \in Nat : /\ Chunk(q, m) \in Seq(Nat)
                        /\ Len(Chunk(q, m)) = m
                        /\ \A i \in 1 .. m : Chunk(q, m)[i] = q + i
  BY DEF Chunk
<1> DEFINE a == Chunk(0, p)
           b == Chunk(p, n)
<1>2. /\ a \in Seq(Nat) /\ Len(a) = p /\ \A i \in 1 .. p : a[i] = i
      /\ b \in Seq(Nat) /\ Len(b) = n /\ \A i \in 1 .. n : b[i] = p + i
      /\ Chunk(0, p + n) \in Seq(Nat) /\ Len(Chunk(0, p + n)) = p + n
      /\ \A i \in 1 .. p + n : Chunk(0, p + n)[i] = i
  <2>1. 0 \in Nat /\ p + n \in Nat /\ \A i \in Int : 0 + i = i
    OBVIOUS
  <2>2. a \in Seq(Nat) /\ Len(a) = p /\ \A i \in 1 .. p : a[i] = i
    BY <1>1, <2>1
  <2>3. b \in Seq(Nat) /\ Len(b) = n /\ \A i \in 1 .. n : b[i] = p + i
    BY <1>1
  <2>4. /\ Chunk(0, p + n) \in Seq(Nat) /\ Len(Chunk(0, p + n)) = p + n
        /\ \A i \in 1 .. p + n : Chunk(0, p + n)[i] = i
    BY <1>1, <2>1
  <2> QED
    BY <2>2, <2>3, <2>4
<1> HIDE DEF a, b
<1>3. a \o b \in Seq(Nat) /\ Len(a \o b) = p + n
  BY <1>2, ConcatProperties, ZenonT(30)
<1>4. ASSUME NEW i \in 1 .. p + n PROVE (a \o b)[i] = i
  <2>1. (a \o b)[i] = IF i <= p THEN a[i] ELSE b[i - p]
    <3>1. \A j \in 1 .. Len(a) + Len(b) :
             (a \o b)[j] = IF j <= Len(a) THEN a[j] ELSE b[j - Len(a)]
      <4>1. a \in Seq(Nat) /\ b \in Seq(Nat)
        BY <1>2
      <4> QED
        BY <4>1, ConcatProperties, Zenon
    <3> QED
      BY <1>2, <3>1
  <2>2. CASE i <= p
    BY <1>2, <2>1, <2>2
  <2>3. CASE ~(i <= p)
    <3>1. i - p \in 1 .. n /\ p + (i - p) = i
      BY <2>3
    <3> QED
      BY <1>2, <2>1, <2>3, <3>1
  <2> QED
    BY <2>2, <2>3
<1>5. a \o b = Chunk(0, p + n)
  BY <1>2, <1>3, <1>4, SeqEqual
<1> QED
  BY <1>2, <1>5 DEF a, b

-----------------------------------------------------------------------------
(* The inductive invariant. *)

\* A call that waits for a chunk has used up the last one, and has not got
\* more than it asked for.
CallShape ==
    \A c \in Callers : call[c].stage = "next" =>
        call[c].state.buffer = <<>> /\ Len(call[c].got) <= call[c].size

IInv == TypeOK /\ HandleKept /\ BodyInOrder /\ ShortIsLast /\ CallShape

Reading(c) == call[c].stage = "next"

\* The fields of a call.
LEMMA CallTypes ==
    ASSUME NEW k \in Calls
    PROVE  /\ k \in Calls /\ k.state \in Entries /\ k.got \in Seq(Bytes)
           /\ k.size \in Nat /\ k.state.pos \in Nat
<1>1. k.state \in Entries /\ k.got \in Seq(Bytes)
  BY DEF Calls, Bytes
<1>2. k.size \in {0} \cup Sizes
  BY DEF Calls
<1>3. k.state.pos \in 0 .. Length
  BY <1>1 DEF Entries
<1>4. k.size \in Nat
  <2>1. Sizes \subseteq Nat
    BY HandleAssumption
  <2> DEFINE m == k.size
  <2>2. m \in {0} \cup Sizes
    BY <1>2
  <2> HIDE DEF m
  <2>3. m \in Nat
    BY <2>1, <2>2
  <2> QED
    BY <2>3 DEF m
<1> QED
  BY <1>1, <1>3, <1>4, HandleAssumption

\* Only the number of calls changes.
LEMMA QuietKeeps ==
    ASSUME IInv, made' \in 0 .. MaxCalls,
           UNCHANGED <<ctx, maxHandle, call, given, short, closed>>
    PROVE  IInv'
<1>1. TypeOK'
  BY DEF IInv, TypeOK
<1>2. HandleKept'
  BY DEF IInv, HandleKept, Held
<1>3. BodyInOrder'
  BY DEF IInv, BodyInOrder, StreamAt
<1>4. ShortIsLast'
  BY DEF IInv, ShortIsLast
<1>5. CallShape'
  BY DEF IInv, CallShape
<1> QED
  BY <1>1, <1>2, <1>3, <1>4, <1>5 DEF IInv

\* A call that does not read becomes another one that does not.
LEMMA CallKeeps ==
    ASSUME IInv, made' \in 0 .. MaxCalls, NEW c \in Callers, NEW k \in Calls,
           call' = [call EXCEPT ![c] = k],
           ~Reading(c), k.stage # "next",
           UNCHANGED <<ctx, maxHandle, given, short, closed>>
    PROVE  IInv'
<1>1. TypeOK'
  BY DEF IInv, TypeOK
<1>2. \A d \in Callers : IF d = c THEN ~Reading(d)' /\ ~Reading(d) ELSE call'[d] = call[d]
  BY DEF IInv, TypeOK, Reading
<1>3. Held' = Held
  BY <1>2 DEF Held, Reading
<1>4. HandleKept'
  BY <1>2, <1>3 DEF IInv, HandleKept, Reading
<1>5. BodyInOrder'
  BY <1>2 DEF IInv, BodyInOrder, StreamAt, Reading
<1>6. ShortIsLast'
  BY <1>2 DEF IInv, ShortIsLast, Reading
<1>7. CallShape'
  BY <1>2 DEF IInv, CallShape, Reading
<1> QED
  BY <1>1, <1>4, <1>5, <1>6, <1>7 DEF IInv

LEMMA IdleCalls == Idle \in Calls /\ Gone \in Calls /\ NewResponse \in Entries
<1>1. <<>> \in Seq(Bytes)
  OBVIOUS
<1>2. NewResponse \in Entries
  BY <1>1, HandleAssumption DEF NewResponse, Entries, Bytes
<1> QED
  BY <1>1, <1>2 DEF Idle, Gone, Calls, Stages, Bytes

\* A read of handle h returns, from the map or from a wait for a chunk.
LEMMA ReturnKeeps ==
    ASSUME IInv, made' \in 0 .. MaxCalls,
           NEW c \in Callers, NEW h \in 1 .. maxHandle, NEW got \in Seq(Bytes),
           NEW size \in Nat, NEW e \in Entries,
           Return(c, h, got, size, e),
           \/ ~Reading(c) /\ h \in DOMAIN ctx
           \/ Reading(c) /\ call[c].fd = h,
           StreamAt(h, e, got),
           Len(got) < size \/ h \in short => Exhausted(e)
    PROVE  IInv'
<1>1. /\ ctx' = Put(h, e)
      /\ call' = [call EXCEPT ![c] = Idle]
      /\ given' = [given EXCEPT ![h] = @ \o got]
      /\ short' \in {short, short \cup {h}}
      /\ h \in short' => Exhausted(e)
      /\ maxHandle' = maxHandle /\ closed' = closed
  BY DEF Return
<1>2. /\ DOMAIN ctx' = DOMAIN ctx \cup {h}
      /\ ctx'[h] = e
      /\ \A x \in DOMAIN ctx : x # h => ctx'[x] = ctx[x]
  BY <1>1 DEF Put
<1>3. \A d \in Callers : IF d = c THEN ~Reading(d)' ELSE call'[d] = call[d]
  BY <1>1 DEF IInv, TypeOK, Reading, Idle
<1>4. \A d \in Callers : d # c /\ Reading(d) => call[d].fd # h /\ call[d].fd \in 1 .. maxHandle
  BY DEF IInv, HandleKept, Held, Reading
<1>5. /\ given[h] \in Seq(Bytes) /\ given[h] \o got \in Seq(Bytes)
      /\ given'[h] = given[h] \o got
      /\ \A x \in 1 .. maxHandle : x # h => given'[x] = given[x]
      /\ given' \in [1 .. maxHandle -> Seq(Bytes)]
  <2>1. given \in [1 .. maxHandle -> Seq(Bytes)]
    BY DEF IInv, TypeOK, Bytes
  <2>2. given[h] \in Seq(Bytes) /\ given[h] \o got \in Seq(Bytes)
    BY <2>1, ConcatProperties
  <2> QED
    BY <1>1, <2>1, <2>2
<1>6. TypeOK'
  <2>1. call' \in [Callers -> Calls]
    BY <1>1, IdleCalls DEF IInv, TypeOK
  <2>2. DOMAIN ctx' \subseteq 1 .. maxHandle /\ \A x \in DOMAIN ctx' : ctx'[x] \in Entries
    BY <1>2 DEF IInv, TypeOK
  <2>3. short' \subseteq 1 .. maxHandle
    BY <1>1 DEF IInv, TypeOK
  <2> QED
    BY <1>1, <1>5, <2>1, <2>2, <2>3 DEF IInv, TypeOK, Bytes
<1>7. HandleKept'
  <2>1. Held' = Held \ {h}
    BY <1>3, <1>4 DEF Held, Reading, IInv, HandleKept
  <2>2. h \in DOMAIN ctx \cup Held
    BY DEF Held, Reading
  <2> QED
    BY <1>1, <1>2, <1>3, <2>1, <2>2 DEF IInv, HandleKept, Reading
<1>8. BodyInOrder'
  <2>1. StreamAt(h, e, <<>>)'
    <3>1. given'[h] \o <<>> = given[h] \o got
      BY <1>5, ConcatEmptySeq
    <3> QED
      BY <3>1 DEF StreamAt
  <2>2. \A x \in DOMAIN ctx : x # h => StreamAt(x, ctx[x], <<>>)'
    BY <1>2, <1>5 DEF IInv, BodyInOrder, StreamAt, TypeOK
  <2>3. \A d \in Callers : Reading(d)' => StreamAt(call[d].fd, call[d].state, call[d].got)'
    BY <1>3, <1>4, <1>5, ZenonT(30) DEF IInv, BodyInOrder, StreamAt, Reading
  <2> QED
    <3>1. \A x \in DOMAIN ctx' : StreamAt(x, ctx[x], <<>>)'
      BY <1>2, <2>1, <2>2 DEF StreamAt
    <3> QED
      BY <2>3, <3>1 DEF BodyInOrder, Reading
<1>9. ShortIsLast'
  <2>1. \A x \in DOMAIN ctx' : x \in short' => Exhausted(ctx'[x])
    BY <1>1, <1>2 DEF IInv, ShortIsLast
  <2>2. \A d \in Callers : Reading(d)' /\ call'[d].fd \in short' =>
            Exhausted(call'[d].state) /\ call'[d].got = <<>>
    BY <1>1, <1>3, <1>4 DEF IInv, ShortIsLast, Reading
  <2> QED
    BY <2>1, <2>2 DEF ShortIsLast, Reading, Exhausted
<1>10. CallShape'
  BY <1>3 DEF IInv, CallShape, Reading
<1> QED
  BY <1>6, <1>7, <1>8, <1>9, <1>10 DEF IInv

\* A read that has used up the rest of the last chunk takes the stream along.
LEMMA AwaitKeeps ==
    ASSUME IInv, made' \in 0 .. MaxCalls,
           NEW c \in Callers, NEW h \in DOMAIN ctx, NEW got \in Seq(Bytes),
           NEW size \in Sizes, NEW e \in Entries,
           Await(c, h, got, size, e), ~Reading(c),
           e.buffer = <<>>, Len(got) <= size,
           StreamAt(h, e, got),
           h \in short => Exhausted(e) /\ got = <<>>
    PROVE  IInv'
<1> DEFINE k == [stage |-> "next", fd |-> h, size |-> size, got |-> got, state |-> e]
<1>1. /\ ctx' = Remove(h)
      /\ call' = [call EXCEPT ![c] = k]
      /\ maxHandle' = maxHandle /\ given' = given /\ short' = short /\ closed' = closed
  BY DEF Await
<1>2. /\ DOMAIN ctx' = DOMAIN ctx \ {h}
      /\ \A x \in DOMAIN ctx : x # h => ctx'[x] = ctx[x]
  BY <1>1 DEF Remove
<1>3. h \in 1 .. maxHandle /\ h \in Nat /\ h \notin Held
  BY DEF IInv, TypeOK, HandleKept
<1>4. k \in Calls
  BY <1>3, HandleAssumption DEF Calls, Stages, Bytes
<1>5. /\ call'[c] = k
      /\ \A d \in Callers : d # c => call'[d] = call[d]
  BY <1>1 DEF IInv, TypeOK
<1>6. TypeOK'
  BY <1>1, <1>2, <1>4 DEF IInv, TypeOK
<1>7. HandleKept'
  <2>1. Held' = Held \cup {h}
    BY <1>5 DEF Held, Reading
  <2>2. \A d \in Callers : d # c /\ Reading(d) => call[d].fd # h
    BY <1>3 DEF Held, Reading
  <2> QED
    BY <1>1, <1>2, <1>3, <1>5, <2>1, <2>2 DEF IInv, HandleKept, Reading
<1>8. BodyInOrder'
  <2>1. \A x \in DOMAIN ctx' : StreamAt(x, ctx[x], <<>>)'
    BY <1>1, <1>2 DEF IInv, BodyInOrder, StreamAt
  <2>2. \A d \in Callers : Reading(d)' => StreamAt(call[d].fd, call[d].state, call[d].got)'
    <3>1. /\ k.fd = h /\ k.state = e /\ k.got = got
      OBVIOUS
    <3>2. StreamAt(call[c].fd, call[c].state, call[c].got)'
      BY <1>1, <1>5, <3>1 DEF StreamAt
    <3>3. \A d \in Callers : d # c /\ Reading(d)' =>
              StreamAt(call[d].fd, call[d].state, call[d].got)'
      BY <1>1, <1>5 DEF IInv, BodyInOrder, StreamAt, Reading
    <3> QED
      BY <3>2, <3>3
  <2> QED
    BY <2>1, <2>2 DEF BodyInOrder, Reading
<1>9. ShortIsLast'
  BY <1>1, <1>2, <1>5 DEF IInv, ShortIsLast, Exhausted, Reading
<1>10. CallShape'
  BY <1>5 DEF IInv, CallShape, Reading
<1> QED
  BY <1>6, <1>7, <1>8, <1>9, <1>10 DEF IInv

\* A chunk has not filled the buffer: the call goes on waiting.
LEMMA WaitKeeps ==
    ASSUME IInv, made' = made,
           NEW c \in Callers, Reading(c),
           NEW got \in Seq(Bytes), NEW e \in Entries,
           call' = [call EXCEPT ![c].got = got, ![c].state = e],
           UNCHANGED <<ctx, maxHandle, given, short, closed>>,
           e.buffer = <<>>, Len(got) <= call[c].size,
           StreamAt(call[c].fd, e, got),
           call[c].fd \notin short
    PROVE  IInv'
<1> DEFINE k == [stage |-> "next", fd |-> call[c].fd, size |-> call[c].size,
                 got |-> got, state |-> e]
<1>1. call[c] \in Calls /\ call \in [Callers -> Calls]
  BY DEF IInv, TypeOK
<1>2. k \in Calls
  BY <1>1 DEF Calls, Stages, Bytes
<1>3. call'[c] = k
  BY <1>1 DEF Calls, Reading
<1>4. \A d \in Callers : d # c => call'[d] = call[d]
  BY <1>1
<1>5. call' \in [Callers -> Calls]
  BY <1>1, <1>2, <1>3, <1>4
<1> HIDE DEF k
<1>6. /\ k.stage = "next" /\ k.fd = call[c].fd /\ k.size = call[c].size
      /\ k.got = got /\ k.state = e
  BY DEF k
<1>7. TypeOK'
  BY <1>5 DEF IInv, TypeOK
<1>8. HandleKept'
  <2>1. \A d \in Callers : Reading(d)' <=> Reading(d)
    BY <1>3, <1>4, <1>6 DEF Reading
  <2>2. \A d \in Callers : Reading(d) => call'[d].fd = call[d].fd
    BY <1>3, <1>4, <1>6 DEF Reading
  <2>3. Held' = Held
    BY <2>1, <2>2 DEF Held, Reading
  <2> QED
    BY <2>1, <2>2, <2>3, ZenonT(30) DEF IInv, HandleKept, Reading
<1>9. BodyInOrder'
  <2>1. \A d \in Callers : Reading(d)' => StreamAt(call[d].fd, call[d].state, call[d].got)'
    BY <1>3, <1>4, <1>6 DEF IInv, BodyInOrder, StreamAt, Reading
  <2> QED
    BY <2>1 DEF IInv, BodyInOrder, StreamAt, Reading
<1>10. ShortIsLast'
  <2>1. \A d \in Callers : Reading(d)' /\ call'[d].fd \in short =>
            Exhausted(call'[d].state) /\ call'[d].got = <<>>
    <3>1. \A d \in Callers : d # c /\ Reading(d) /\ call[d].fd \in short =>
              Exhausted(call[d].state) /\ call[d].got = <<>>
      BY DEF IInv, ShortIsLast, Reading
    <3> QED
      BY <1>3, <1>4, <1>6, <3>1 DEF Reading
  <2>2. \A h \in DOMAIN ctx : h \in short => Exhausted(ctx[h])
    BY DEF IInv, ShortIsLast
  <2> QED
    BY <2>1, <2>2 DEF ShortIsLast, Exhausted, Reading
<1>11. CallShape'
  BY <1>3, <1>4, <1>6 DEF IInv, CallShape, Reading
<1> QED
  BY <1>7, <1>8, <1>9, <1>10, <1>11 DEF IInv

-----------------------------------------------------------------------------
(* The actions. *)

LEMMA BeginMade ==
    ASSUME IInv, NEW c \in Callers, Begin(c)
    PROVE  made' \in 0 .. MaxCalls /\ call[c] = Idle /\ ~Reading(c)
BY HandleAssumption DEF Begin, IInv, TypeOK, Reading, Idle

LEMMA RequestKeeps ==
    ASSUME IInv, NEW c \in Callers,
           ReqRefused(c) \/ ReqSend(c) \/ ReqFailed(c) \/ ReqDone(c)
    PROVE  IInv'
<1>1. CASE ReqRefused(c)
  BY <1>1, BeginMade, QuietKeeps DEF ReqRefused
<1>2. CASE ReqSend(c)
  <2>1. [Idle EXCEPT !.stage = "send"] \in Calls
    BY IdleCalls DEF Idle, Calls, Stages
  <2>2. [Idle EXCEPT !.stage = "send"].stage # "next"
    BY DEF Idle
  <2> QED
    BY <1>2, <2>1, <2>2, BeginMade, CallKeeps DEF ReqSend
<1>3. CASE ReqFailed(c)
  <2>1. Idle.stage # "next" /\ ~Reading(c) /\ made' \in 0 .. MaxCalls
    BY <1>3 DEF Idle, ReqFailed, Reading, IInv, TypeOK
  <2> QED
    BY <1>3, <2>1, IdleCalls, CallKeeps DEF ReqFailed
<1>4. CASE ReqDone(c)
  <2> DEFINE n == maxHandle + 1
  <2>1. /\ maxHandle' = n /\ ctx' = Put(n, NewResponse)
        /\ call' = [call EXCEPT ![c] = Idle]
        /\ given' = Append(given, <<>>)
        /\ made' = made /\ short' = short /\ closed' = closed
        /\ ~Reading(c)
    BY <1>4 DEF ReqDone, NewHandle, Reading
  <2>2. /\ maxHandle \in Nat /\ n \in Nat /\ 1 .. n = (1 .. maxHandle) \cup {n}
        /\ n \notin 1 .. maxHandle /\ n \notin DOMAIN ctx /\ n \notin short /\ n \notin closed
    BY DEF IInv, TypeOK
  <2>3. /\ DOMAIN ctx' = DOMAIN ctx \cup {n}
        /\ ctx'[n] = NewResponse
        /\ \A x \in DOMAIN ctx : ctx'[x] = ctx[x]
    BY <2>1, <2>2 DEF Put
  <2>4. /\ given' \in [1 .. n -> Seq(Bytes)]
        /\ given'[n] = <<>>
        /\ \A x \in 1 .. maxHandle : given'[x] = given[x]
    <3>1. given \in [1 .. maxHandle -> Seq(Bytes)]
      BY DEF IInv, TypeOK, Bytes
    <3>2. given \in Seq(Seq(Bytes)) /\ Len(given) = maxHandle
      BY <2>2, <3>1
    <3>3. <<>> \in Seq(Bytes)
      OBVIOUS
    <3>4. /\ Append(given, <<>>) \in Seq(Seq(Bytes))
          /\ Len(Append(given, <<>>)) = n
          /\ Append(given, <<>>)[n] = <<>>
          /\ \A x \in 1 .. maxHandle : Append(given, <<>>)[x] = given[x]
      BY <3>2, <3>3, AppendProperties
    <3> QED
      BY <2>1, <3>4, LenProperties
  <2>5. \A d \in Callers : IF d = c THEN ~Reading(d)' ELSE call'[d] = call[d]
    BY <2>1 DEF IInv, TypeOK, Reading, Idle
  <2> HIDE DEF n
  <2>6. TypeOK'
    <3>1. call' \in [Callers -> Calls]
      BY <2>1, IdleCalls DEF IInv, TypeOK
    <3>2. DOMAIN ctx' \subseteq 1 .. n /\ \A x \in DOMAIN ctx' : ctx'[x] \in Entries
      BY <2>2, <2>3, IdleCalls DEF IInv, TypeOK
    <3>3. short' \subseteq 1 .. n /\ closed' \subseteq 1 .. n /\ made' \in 0 .. MaxCalls
      BY <2>1, <2>2 DEF IInv, TypeOK
    <3> QED
      BY <2>1, <2>2, <2>4, <3>1, <3>2, <3>3 DEF TypeOK, Bytes
  <2>7. HandleKept'
    <3>1. Held' = Held
      BY <2>1, <2>5 DEF Held, Reading
    <3>2. n \notin Held
      BY <2>2 DEF IInv, HandleKept
    <3> QED
      BY <2>1, <2>2, <2>3, <2>5, <3>1, <3>2 DEF IInv, HandleKept, Reading
  <2>8. \A d \in Callers : Reading(d) => call[d].fd \in 1 .. maxHandle
    BY DEF IInv, HandleKept, Held, Reading
  <2>9. BodyInOrder'
    <3>1. given'[n] \o <<>> \o ctx'[n].buffer = Chunk(0, ctx'[n].pos)
      <4>1. Chunk(0, 0) = <<>>
        BY DEF Chunk
      <4>2. given'[n] \o <<>> \o <<>> = <<>>
        BY <2>4
      <4> QED
        BY <2>3, <4>1, <4>2 DEF NewResponse
    <3>2. \A x \in DOMAIN ctx : StreamAt(x, ctx[x], <<>>)'
      BY <2>3, <2>4 DEF IInv, BodyInOrder, StreamAt, TypeOK
    <3>3. \A d \in Callers : Reading(d)' => StreamAt(call[d].fd, call[d].state, call[d].got)'
      BY <2>4, <2>5, <2>8 DEF IInv, BodyInOrder, StreamAt, Reading
    <3>4. \A x \in DOMAIN ctx' : StreamAt(x, ctx[x], <<>>)'
      BY <2>3, <3>1, <3>2 DEF StreamAt
    <3> QED
      BY <3>3, <3>4 DEF BodyInOrder, Reading
  <2>10. ShortIsLast'
    BY <2>1, <2>2, <2>3, <2>5 DEF IInv, ShortIsLast, Exhausted, Reading
  <2>11. CallShape'
    BY <2>5 DEF IInv, CallShape, Reading
  <2> QED
    BY <2>6, <2>7, <2>9, <2>10, <2>11 DEF IInv
<1> QED
  BY <1>1, <1>2, <1>3, <1>4

LEMMA HandleCallKeeps ==
    ASSUME IInv, NEW c \in Callers, NEW h \in Handles,
           ReadHeader(c) \/ HeaderPanic(c, h) \/ Close(c, h) \/ Invalid(c, h)
    PROVE  IInv'
<1>1. CASE ReadHeader(c) \/ Invalid(c, h)
  BY <1>1, BeginMade, QuietKeeps DEF ReadHeader, Invalid
<1>2. CASE HeaderPanic(c, h)
  <2>1. Gone.stage # "next"
    BY DEF Gone, Idle
  <2> QED
    BY <1>2, <2>1, IdleCalls, BeginMade, CallKeeps DEF HeaderPanic
<1>3. CASE Close(c, h)
  <2>1. /\ h \in DOMAIN ctx /\ closed' = closed \cup {h}
        /\ maxHandle' = maxHandle /\ call' = call /\ given' = given /\ short' = short
        /\ made' \in 0 .. MaxCalls
    BY <1>3, BeginMade DEF Close, Closable
  <2>2. /\ DOMAIN ctx' = DOMAIN ctx \ {h}
        /\ \A x \in DOMAIN ctx' : ctx'[x] = ctx[x]
    BY <1>3 DEF Close, Remove
  <2>3. TypeOK'
    BY <2>1, <2>2 DEF IInv, TypeOK
  <2>4. HandleKept'
    <3>1. Held' = Held
      BY <2>1 DEF Held
    <3> QED
      BY <2>1, <2>2, <3>1 DEF IInv, HandleKept
  <2>5. BodyInOrder'
    BY <2>1, <2>2 DEF IInv, BodyInOrder, StreamAt
  <2>6. ShortIsLast'
    BY <2>1, <2>2 DEF IInv, ShortIsLast, Exhausted
  <2>7. CallShape'
    BY <2>1 DEF IInv, CallShape
  <2> QED
    BY <2>3, <2>4, <2>5, <2>6, <2>7 DEF IInv
<1> QED
  BY <1>1, <1>2, <1>3

LEMMA ReadBodyKeeps ==
    ASSUME IInv, NEW c \in Callers, NEW h \in Handles, NEW size \in Sizes,
           ReadBody(c, h, size)
    PROVE  IInv'
<1> DEFINE buffer == ctx[h].buffer
           got == Taken(buffer, size)
           e == [ctx[h] EXCEPT !.kind = "stream", !.buffer = Rest(buffer, size)]
<1>1. /\ h \in DOMAIN ctx /\ h \in 1 .. maxHandle
      /\ ctx[h] \in Entries /\ buffer \in Seq(Bytes)
      /\ size \in Nat
      /\ made' \in 0 .. MaxCalls /\ ~Reading(c)
      /\ given[h] \in Seq(Bytes)
  BY BeginMade, HandleAssumption DEF ReadBody, IInv, TypeOK, Entries, Bytes
<1>2. /\ got \in Seq(Bytes) /\ Rest(buffer, size) \in Seq(Bytes)
      /\ got \o Rest(buffer, size) = buffer
      /\ Len(got) = Fitting(buffer, size)
      /\ Len(Rest(buffer, size)) = Len(buffer) - Fitting(buffer, size)
      /\ Len(got) <= size
  <2> HIDE DEF buffer
  <2>1. /\ Taken(buffer, size) \in Seq(Bytes) /\ Rest(buffer, size) \in Seq(Bytes)
        /\ Taken(buffer, size) \o Rest(buffer, size) = buffer
        /\ Len(Taken(buffer, size)) = Fitting(buffer, size)
        /\ Len(Rest(buffer, size)) = Len(buffer) - Fitting(buffer, size)
        /\ Fitting(buffer, size) \in 0 .. size
    BY <1>1, TakenRest
  <2> QED
    BY <1>1, <2>1
<1>3. /\ e \in Entries /\ e.buffer = Rest(buffer, size)
      /\ e.pos = ctx[h].pos /\ e.broken = ctx[h].broken
  BY <1>1, <1>2 DEF Entries, Bytes
<1>4. StreamAt(h, e, got)
  <2>1. given[h] \o <<>> \o buffer = Chunk(0, ctx[h].pos)
    BY <1>1 DEF IInv, BodyInOrder, StreamAt
  <2>2. given[h] \o <<>> = given[h]
    BY <1>1, ConcatEmptySeq
  <2> HIDE DEF got, buffer, e
  <2>3. given[h] \o got \o Rest(buffer, size) = given[h] \o (got \o Rest(buffer, size))
    <3> DEFINE g == given[h]
               r == Rest(buffer, size)
    <3>1. g \in Seq(Bytes) /\ got \in Seq(Bytes) /\ r \in Seq(Bytes)
      BY <1>1, <1>2
    <3> HIDE DEF g, r
    <3>2. (g \o got) \o r = g \o (got \o r)
      BY <3>1, ConcatAssociative
    <3> QED
      BY <3>2 DEF g, r
  <2> QED
    BY <1>2, <1>3, <2>1, <2>2, <2>3 DEF StreamAt
<1>5. h \in short => buffer = <<>> /\ (ctx[h].broken \/ ctx[h].pos = Length)
  BY <1>1 DEF IInv, ShortIsLast, Exhausted
<1>6. CASE buffer # <<>> /\ Full(got, size)
  <2>1. Return(c, h, got, size, e)
    BY <1>6 DEF ReadBody
  <2>2. ~(Len(got) < size) /\ h \notin short
    BY <1>1, <1>5, <1>6 DEF Full
  <2> HIDE DEF got, buffer, e
  <2> QED
    BY <1>1, <1>2, <1>3, <1>4, <2>1, <2>2, ReturnKeeps
<1>7. CASE ~(buffer # <<>> /\ Full(got, size))
  <2>1. Await(c, h, got, size, e)
    BY <1>7 DEF ReadBody
  <2>2. Rest(buffer, size) = <<>>
    <3>1. CASE buffer = <<>>
      BY <1>2, <3>1, ConcatEqualIffEmpty
    <3>2. CASE ~Full(got, size)
      <4>1. Fitting(buffer, size) # size
        BY <1>2, <3>2 DEF Full
      <4>2. Fitting(buffer, size) = Len(buffer)
        BY <4>1 DEF Fitting
      <4>3. Len(Rest(buffer, size)) = 0
        BY <1>1, <1>2, <4>2, LenProperties
      <4> QED
        BY <1>2, <4>3, EmptySeq
    <3> QED
      BY <1>7, <3>1, <3>2
  <2>3. h \in short => Exhausted(e) /\ got = <<>>
    <3>1. h \in short => got = <<>>
      BY <1>2, <1>5, ConcatEqualIffEmpty
    <3> QED
      BY <1>3, <1>5, <2>2, <3>1 DEF Exhausted
  <2> HIDE DEF got, buffer, e
  <2> QED
    BY <1>1, <1>2, <1>3, <1>4, <2>1, <2>2, <2>3, AwaitKeeps
<1> QED
  BY <1>6, <1>7

LEMMA ChunkKeeps ==
    ASSUME IInv, NEW c \in Callers, NEW n \in 1 .. Length, ChunkArrives(c, n)
    PROVE  IInv'
<1> DEFINE k == call[c]
           chunk == Chunk(k.state.pos, n)
           room == k.size - Len(k.got)
           taken == Taken(chunk, room)
           got == k.got \o taken
           e == [k.state EXCEPT !.pos = @ + n, !.buffer = Rest(chunk, room)]
<1>1. /\ Reading(c) /\ ~k.state.broken /\ k.state.pos + n <= Length
      /\ made' = made /\ made' \in 0 .. MaxCalls
  BY DEF ChunkArrives, Reading, IInv, TypeOK
<1>2. /\ k \in Calls /\ k.state \in Entries /\ k.got \in Seq(Bytes)
      /\ k.size \in Nat /\ k.state.pos \in Nat
  <2>1. k \in Calls
    BY DEF IInv, TypeOK
  <2> HIDE DEF k
  <2> QED
    BY <2>1, CallTypes
<1>3. k.fd \in 1 .. maxHandle /\ given[k.fd] \in Seq(Bytes)
  <2>1. k.fd \in 1 .. maxHandle
    BY <1>1 DEF IInv, HandleKept, Held, Reading
  <2> QED
    BY <2>1 DEF IInv, TypeOK, Bytes
<1>4. k.state.buffer = <<>> /\ Len(k.got) <= k.size /\ Len(k.got) \in Nat /\ room \in Nat
  BY <1>1, <1>2, LenProperties DEF IInv, CallShape, Reading
<1>5. chunk \in Seq(Bytes) /\ Len(chunk) = n
  BY <1>1, <1>2, HandleAssumption, SMTT(20) DEF Chunk, Bytes
<1>6. /\ taken \in Seq(Bytes) /\ Rest(chunk, room) \in Seq(Bytes)
      /\ taken \o Rest(chunk, room) = chunk
      /\ Len(taken) = Fitting(chunk, room) /\ Fitting(chunk, room) \in 0 .. room
      /\ Len(Rest(chunk, room)) = n - Fitting(chunk, room)
  BY <1>4, <1>5, TakenRest
<1>7. got \in Seq(Bytes) /\ Len(got) = Len(k.got) + Fitting(chunk, room) /\ Len(got) <= k.size
  <2> HIDE DEF taken, chunk, room, k
  <2>1. k.got \o taken \in Seq(Bytes) /\ Len(k.got \o taken) = Len(k.got) + Len(taken)
    BY <1>2, <1>6, ConcatProperties
  <2>2. Fitting(chunk, room) <= room /\ Fitting(chunk, room) \in Nat
    BY <1>4, <1>6
  <2>3. room = k.size - Len(k.got)
    BY DEF room
  <2> QED
    BY <1>2, <1>4, <1>6, <2>1, <2>2, <2>3
<1>8. /\ e \in Entries /\ e.buffer = Rest(chunk, room) /\ e.pos = k.state.pos + n
  <2> DEFINE s == k.state
             u == [s EXCEPT !.pos = @ + n]
             r == Rest(chunk, room)
  <2>1. s \in Entries /\ s.pos + n \in 0 .. Length /\ r \in Seq(Bytes)
    <3>1. s \in Entries /\ r \in Seq(Bytes)
      BY <1>2, <1>6
    <3>2. s.pos \in Nat /\ s.pos + n <= Length
      BY <1>1, <1>2
    <3> HIDE DEF s, r, k, chunk, room
    <3> QED
      BY <3>1, <3>2, HandleAssumption
  <2>2. e = [u EXCEPT !.buffer = r]
    OBVIOUS
  <2> HIDE DEF s, r, e, chunk, room, k
  <2>3. u \in Entries /\ u.pos = s.pos + n
    BY <2>1 DEF Entries
  <2> HIDE DEF u
  <2>4. e \in Entries /\ e.buffer = r /\ e.pos = u.pos
    BY <2>1, <2>2, <2>3 DEF Entries, Bytes
  <2> QED
    BY <2>3, <2>4 DEF s, r
<1>9. StreamAt(k.fd, e, got)
  <2> DEFINE g == given[k.fd]
  <2>1. g \o k.got \o k.state.buffer = Chunk(0, k.state.pos)
    BY <1>1 DEF IInv, BodyInOrder, StreamAt, Reading
  <2>2. Chunk(0, k.state.pos) \o chunk = Chunk(0, k.state.pos + n)
    <3>1. k.state.pos \in Nat /\ n \in Nat
      BY <1>2
    <3> HIDE DEF k
    <3> QED
      BY <3>1, ChunkJoin
  <2> HIDE DEF taken, chunk, room, e, k, g
  <2>3. g \in Seq(Bytes)
    BY <1>3 DEF g
  <2>4. g \o k.got = Chunk(0, k.state.pos)
    <3>1. g \o k.got \in Seq(Bytes)
      BY <1>2, <2>3, ConcatProperties
    <3>2. (g \o k.got) \o <<>> = g \o k.got
      BY <3>1, ConcatEmptySeq
    <3> QED
      BY <1>4, <2>1, <3>2
  <2>5. (g \o (k.got \o taken)) \o Rest(chunk, room) = (g \o k.got) \o (taken \o Rest(chunk, room))
    <3> DEFINE a == k.got
               r == Rest(chunk, room)
    <3>1. a \in Seq(Bytes) /\ taken \in Seq(Bytes) /\ r \in Seq(Bytes)
      BY <1>2, <1>6
    <3> HIDE DEF a, r
    <3>2. (g \o (a \o taken)) \o r = (g \o a) \o (taken \o r)
      <4>1. g \o a \in Seq(Bytes)
        BY <2>3, <3>1, ConcatProperties
      <4>2. g \o (a \o taken) = (g \o a) \o taken
        BY <2>3, <3>1, ConcatAssociative, SMTT(20)
      <4>3. ((g \o a) \o taken) \o r = (g \o a) \o (taken \o r)
        <5> DEFINE ga == g \o a
        <5>1. ga \in Seq(Bytes)
          BY <4>1
        <5> HIDE DEF ga
        <5>2. (ga \o taken) \o r = ga \o (taken \o r)
          BY <3>1, <5>1, ConcatAssociative, SMTT(20)
        <5> QED
          BY <5>2 DEF ga
      <4> QED
        BY <4>2, <4>3
    <3> QED
      BY <3>2 DEF a, r
  <2>6. (g \o (k.got \o taken)) \o Rest(chunk, room) = Chunk(0, k.state.pos + n)
    BY <1>6, <2>2, <2>4, <2>5
  <2> QED
    BY <1>8, <2>6 DEF StreamAt, g
<1>10. k.fd \notin short
  BY <1>1, <1>2, HandleAssumption DEF IInv, ShortIsLast, Exhausted, Reading
<1>11. CASE Full(got, k.size)
  <2>1. Return(c, k.fd, got, k.size, e)
    BY <1>11 DEF ChunkArrives
  <2>2. call[c].fd = k.fd
    OBVIOUS
  <2> HIDE DEF got, taken, chunk, room, e, k
  <2>3. ~(Len(got) < k.size)
    BY <1>2, <1>11 DEF Full
  <2> QED
    BY <1>1, <1>2, <1>3, <1>7, <1>8, <1>9, <1>10, <2>1, <2>2, <2>3, ReturnKeeps
<1>12. CASE ~Full(got, k.size)
  <2>1. /\ call' = [call EXCEPT ![c].got = got, ![c].state = e]
        /\ UNCHANGED <<ctx, maxHandle, given, short, closed>>
    BY <1>12 DEF ChunkArrives
  <2>2. Rest(chunk, room) = <<>>
    <3>1. Fitting(chunk, room) # room
      <4>1. room = k.size - Len(k.got)
        OBVIOUS
      <4> HIDE DEF got, taken, chunk, room, e, k
      <4> QED
        BY <1>2, <1>4, <1>7, <1>12, <4>1 DEF Full
    <3>2. Fitting(chunk, room) = n
      BY <1>5, <3>1 DEF Fitting
    <3>3. Len(Rest(chunk, room)) = 0
      BY <1>6, <3>2, SMTT(20)
    <3> QED
      BY <1>6, <3>3, EmptySeq
  <2>3. e.buffer = <<>>
    BY <1>8, <2>2
  <2>4. k = call[c]
    OBVIOUS
  <2> HIDE DEF got, taken, chunk, room, e, k
  <2> QED
    BY <1>1, <1>7, <1>8, <1>9, <1>10, <2>1, <2>3, <2>4, WaitKeeps
<1> QED
  BY <1>11, <1>12

LEMMA StreamKeeps ==
    ASSUME IInv, NEW c \in Callers, StreamEnds(c) \/ StreamFails(c)
    PROVE  IInv'
<1> DEFINE k == call[c]
           failed == [k.state EXCEPT !.broken = TRUE]
<1>1. Reading(c) /\ made' \in 0 .. MaxCalls
  BY DEF StreamEnds, StreamFails, Reading, IInv, TypeOK
<1>2. /\ k.state \in Entries /\ k.got \in Seq(Bytes) /\ k.size \in Nat
  <2>1. k \in Calls
    BY DEF IInv, TypeOK
  <2> HIDE DEF k
  <2> QED
    BY <2>1, CallTypes
<1>3. k.fd \in 1 .. maxHandle
  BY <1>1 DEF IInv, HandleKept, Held, Reading
<1>4. k.state.buffer = <<>> /\ StreamAt(k.fd, k.state, k.got)
  BY <1>1 DEF IInv, CallShape, BodyInOrder, Reading
<1>5. CASE StreamEnds(c)
  <2>1. Return(c, k.fd, k.got, k.size, k.state) /\ Exhausted(k.state)
    BY <1>4, <1>5 DEF StreamEnds, Exhausted
  <2> QED
    BY <1>1, <1>2, <1>3, <1>4, <2>1, ReturnKeeps
<1>6. CASE StreamFails(c)
  <2>1. /\ failed \in Entries /\ failed.buffer = k.state.buffer
        /\ failed.pos = k.state.pos /\ failed.broken
    BY <1>2 DEF Entries
  <2>2. Return(c, k.fd, k.got, k.size, failed)
    BY <1>6 DEF StreamFails
  <2>3. Exhausted(failed) /\ StreamAt(k.fd, failed, k.got)
    BY <1>4, <2>1 DEF Exhausted, StreamAt
  <2> HIDE DEF failed
  <2> QED
    BY <1>1, <1>2, <1>3, <2>1, <2>2, <2>3, ReturnKeeps
<1> QED
  BY <1>5, <1>6

-----------------------------------------------------------------------------
(* Theorems. *)

LEMMA InitIInv == Init => IInv
<1> SUFFICES ASSUME Init PROVE IInv
  OBVIOUS
<1>1. DOMAIN ctx = {} /\ given \in [1 .. 0 -> Seq(Bytes)]
  BY DEF Init
<1>2. \A c \in Callers : call[c] = Idle
  BY DEF Init
<1>3. TypeOK
  BY <1>1, IdleCalls, HandleAssumption DEF Init, TypeOK, Bytes
<1>4. Held = {}
  BY <1>2 DEF Held, Idle
<1>5. HandleKept
  BY <1>1, <1>2, <1>4 DEF Init, HandleKept, Idle
<1>6. BodyInOrder /\ ShortIsLast /\ CallShape
  BY <1>1, <1>2 DEF BodyInOrder, ShortIsLast, CallShape, Idle
<1> QED
  BY <1>3, <1>5, <1>6 DEF IInv

LEMMA RestartKeeps == IInv /\ Restart => IInv'
<1> SUFFICES ASSUME IInv, Restart PROVE IInv'
  OBVIOUS
<1>1. DOMAIN ctx' = {} /\ given' \in [1 .. 0 -> Seq(Bytes)]
  BY DEF Restart
<1>2. \A c \in Callers : call'[c] = Idle
  BY DEF Restart
<1>3. TypeOK'
  BY <1>1, IdleCalls, HandleAssumption DEF Restart, TypeOK, Bytes, IInv
<1>4. Held' = {}
  BY <1>2 DEF Held, Idle
<1>5. HandleKept'
  BY <1>1, <1>2, <1>4 DEF Restart, HandleKept, Idle
<1>6. BodyInOrder' /\ ShortIsLast' /\ CallShape'
  BY <1>1, <1>2 DEF BodyInOrder, ShortIsLast, CallShape, Idle
<1> QED
  BY <1>3, <1>5, <1>6 DEF IInv

LEMMA NextKeeps == IInv /\ [Next]_vars => IInv'
<1> SUFFICES ASSUME IInv, [Next]_vars PROVE IInv'
  OBVIOUS
<1>1. CASE UNCHANGED vars
  <2>1. made' \in 0 .. MaxCalls /\ UNCHANGED <<ctx, maxHandle, call, given, short, closed>>
    BY <1>1 DEF vars, IInv, TypeOK
  <2> QED
    BY <2>1, QuietKeeps
<1>2. CASE Restart
  BY <1>2, RestartKeeps
<1>3. ASSUME NEW c \in Callers, Step(c) PROVE IInv'
  BY <1>3, RequestKeeps, HandleCallKeeps, ReadBodyKeeps, ChunkKeeps, StreamKeeps,
     QuietKeeps, BeginMade DEF Step, ReadHeader
<1> QED
  BY <1>1, <1>2, <1>3 DEF Next

\* What holds of every reachable state of the http driver.
THEOREM DriverInvariant == Spec => []IInv
BY InitIInv, NextKeeps, PTL DEF Spec

\* The variables keep their types; every handle in the map is a number that
\* increase_fd has given.
THEOREM HttpTypes == Spec => []TypeOK
BY DriverInvariant, PTL DEF IInv

\* A response that is not closed is in the map or with the one call that
\* reads it, and a closed one in neither: no close slips in between a
\* http_read_body that took the entry out and its putting it back.
THEOREM HandlesKept == Spec => []HandleKept
BY DriverInvariant, PTL DEF IInv

\* stream_read gives the bytes of a body in order and each of them once,
\* however they are cut into chunks and whatever the sizes of the buffers.
THEOREM BodiesInOrder == Spec => []BodyInOrder
BY DriverInvariant, PTL DEF IInv

\* After a read that returned less than was asked for no read of that handle
\* returns anything.
THEOREM ShortReadsLast == Spec => []ShortIsLast
BY DriverInvariant, PTL DEF IInv

-----------------------------------------------------------------------------
(* The http and the cgi driver together. *)

\* Types: a row of extension_meta, a listing in progress, an entry of get_ctx().
Rows == [id : Nat \ {0}, file : Files, alias : Aliases, md5 : Contents]
Works == [stage : Cgi!Stages, invalid : SUBSET Rows, update : SUBSET Rows, left : SUBSET Files,
          new : Seq(Cgi!Metas), vals : SUBSET Cgi!Metas, since : Nat]
Holdings == [kind : {"process", "list"}, file : Files \cup {""}, vals : SUBSET Cgi!Metas,
             pos : Nat]

RowsSound ==
    /\ rows \subseteq Rows
    /\ \A r, s \in rows : r.id = s.id => r = s
    /\ \E b \in Nat : \A r \in rows : r.id <= b

WorkSound(w) ==
    /\ w \in Works
    /\ IsFiniteSet(w.vals)
    /\ \A i \in DOMAIN w.new : w.new[i] \in w.vals

HoldingSound(e) == e \in Holdings /\ IsFiniteSet(e.vals)

CgiShape ==
    /\ RowsSound
    /\ cgiCall = [c \in Callers |-> cgiCall[c]]
    /\ \A c \in Callers : WorkSound(cgiCall[c])
    /\ \A h \in DOMAIN cgiCtx : HoldingSound(cgiCtx[h])
    /\ events \in Nat /\ made \in Nat /\ cgiMax \in Nat

\* A listing that has begun has yet to take its handle.
Busy(c) == cgiCall[c].stage \in {"scan", "save"}
Listers == {c \in Callers : Busy(c)}
HandlesLeft == IsFiniteSet(Listers) /\ cgiMax + Cardinality(Listers) <= made

\* What a listing has in hand are rows and answers of extensions.
WorkVerified(w, answered) ==
    \A r \in w.invalid \cup w.update \cup w.vals : <<r.file, r.alias>> \in answered

\* What a listing that is not stale has in hand is what the database will have:
\* each row is one that it will delete, one that it will update or one that it
\* reports, and what it reports has a row or will get one.
Listed(w, table) ==
    /\ \A r, s \in table : r.file = s.file => r = s
    /\ w.invalid \subseteq table
    /\ \A r \in table :
          \/ r \in w.invalid
          \/ \E u \in w.update : u.file = r.file
          \/ Cgi!Meta(r) \in w.vals
    /\ \A m \in w.vals :
          \/ \E i \in DOMAIN w.new : w.new[i] = m
          \/ \E u \in w.update : Cgi!Meta(u) = m
          \/ \E r \in table : Cgi!Meta(r) = m
    /\ \A u \in w.update : Cgi!Meta(u) \in w.vals /\ \E r \in table : r.file = u.file
    /\ \A m, n \in w.vals : m.file = n.file => m = n
    /\ \A m \in w.vals : m.file \notin w.left /\ \A r \in w.invalid : m.file # r.file
    /\ \A i \in DOMAIN w.new :
          /\ \A r \in table : r.file # w.new[i].file
          /\ \A j \in DOMAIN w.new : w.new[i].file = w.new[j].file => i = j

CgiInv ==
    /\ CgiShape
    /\ Cgi!TypeOK
    /\ HandlesLeft
    /\ Cgi!VerifiedOnly
    /\ \A c \in Callers : WorkVerified(cgiCall[c], verified)
    /\ \A c \in Callers : Busy(c) /\ c \notin stale => Listed(cgiCall[c], rows)

-----------------------------------------------------------------------------
(* Helpers. *)

LEMMA IdleWork ==
    /\ WorkSound(Cgi!Idle) /\ WorkSound(Cgi!Gone)
    /\ Cgi!Idle.stage = "idle" /\ Cgi!Gone.stage = "gone"
    /\ \A v : WorkVerified(Cgi!Idle, v) /\ WorkVerified(Cgi!Gone, v)
<1>1. IsFiniteSet({})
  BY FS_EmptySet
<1>2. <<>> \in Seq(Cgi!Metas) /\ DOMAIN <<>> = {}
  OBVIOUS
<1>3. Cgi!Idle \in Works /\ Cgi!Gone \in Works
  BY <1>2 DEF Cgi!Idle, Cgi!Gone, Works, Cgi!Stages
<1>4. Cgi!Idle.vals = {} /\ Cgi!Idle.new = <<>> /\ Cgi!Gone.vals = {} /\ Cgi!Gone.new = <<>>
  BY DEF Cgi!Idle, Cgi!Gone
<1>5. WorkSound(Cgi!Idle) /\ WorkSound(Cgi!Gone)
  BY <1>1, <1>2, <1>3, <1>4 DEF WorkSound
<1> QED
  BY <1>5 DEF Cgi!Idle, Cgi!Gone, WorkVerified

\* CgiDriver counts as this module does.
LEMMA CgiCardinality == \A S : Cgi!Cardinality(S) = Cardinality(S)
BY DEF Cgi!Cardinality, Cardinality

\* One call changes.
LEMMA OneCall ==
    ASSUME CgiShape, NEW c \in Callers, NEW w, WorkSound(w), cgiCall' = [cgiCall EXCEPT ![c] = w]
    PROVE  /\ cgiCall'[c] = w
           /\ \A d \in Callers : d # c => cgiCall'[d] = cgiCall[d]
           /\ cgiCall' = [d \in Callers |-> cgiCall'[d]]
           /\ \A d \in Callers : WorkSound(cgiCall'[d])
BY DEF CgiShape

\* A set of rows has a greatest id, or none.
LEMMA NewIds ==
    ASSUME RowsSound
    PROVE  /\ Cgi!NewId \in Nat \ {0}
           /\ \A r \in rows : r.id < Cgi!NewId
<1> DEFINE R == {p \in Nat \X Nat : p[1] < p[2]}
           Above == {k \in Nat : \A i \in Cgi!Ids : i <= k}
<1>1. Cgi!Ids \subseteq Nat /\ 0 \in Cgi!Ids
  BY DEF Cgi!Ids, RowsSound, Rows
<1>2. Above # {}
  BY <1>1 DEF RowsSound, Cgi!Ids
<1>3. IsWellFoundedOn(R, Nat)
  BY NatLessThanWellFounded DEF OpToRel
<1>4. PICK k \in Above : \A e \in Above : <<e, k>> \notin R
  BY <1>2, <1>3, WFMin
<1>5. k \in Cgi!Ids
  <2>1. SUFFICES ASSUME k \notin Cgi!Ids PROVE FALSE
    OBVIOUS
  <2>2. k \in Nat /\ k # 0
    BY <1>1, <2>1
  <2>3. \A i \in Cgi!Ids : i <= k - 1
    BY <1>1, <2>1, <2>2
  <2>4. k - 1 \in Above /\ k - 1 < k
    BY <2>2, <2>3
  <2> QED
    BY <1>4, <2>2, <2>4
<1>6. \A i \in Cgi!Ids : i <= k
  OBVIOUS
<1>7. \E i \in Cgi!Ids : \A j \in Cgi!Ids : j <= i
  BY <1>5, <1>6
<1> DEFINE top == CHOOSE i \in Cgi!Ids : \A j \in Cgi!Ids : j <= i
<1>8. top \in Cgi!Ids /\ \A j \in Cgi!Ids : j <= top
  BY <1>7
<1>9. Cgi!NewId = 1 + top
  BY DEF Cgi!NewId
<1> HIDE DEF top
<1>10. \A r \in rows : r.id \in Cgi!Ids
  BY DEF Cgi!Ids
<1>11. top \in Nat /\ \A r \in rows : r.id \in Nat /\ r.id <= top
  BY <1>1, <1>8, <1>10
<1>12. 1 + top \in Nat \ {0} /\ \A r \in rows : r.id < 1 + top
  BY <1>11
<1> QED
  BY <1>9, <1>12

LEMMA LeftArithmetic ==
    ASSUME NEW k \in Nat, NEW n \in Nat, NEW m \in Nat, NEW kk, NEW nn, NEW mm, k + n <= m,
           \/ kk \in Nat /\ mm \in Nat /\ kk + m <= mm + k /\ nn = n
           \/ kk = k /\ mm = m + 1 /\ nn = n + 1
           \/ kk \in {k, k + 1} /\ mm = m /\ nn = n - 1
    PROVE  kk + nn <= mm
OBVIOUS

\* A call becomes a listing, stops to be one, or neither, and a handle is taken.
LEMMA CountKept ==
    ASSUME CgiShape, HandlesLeft, NEW c \in Callers,
           \A d \in Callers : d # c => cgiCall'[d] = cgiCall[d],
           \/ (Busy(c)' <=> Busy(c)) /\ UNCHANGED cgiMax /\ made' \in {made, made + 1}
           \/ (Busy(c)' <=> Busy(c)) /\ cgiMax' = cgiMax + 1 /\ made' = made + 1
           \/ ~Busy(c) /\ Busy(c)' /\ UNCHANGED cgiMax /\ made' = made + 1
           \/ Busy(c) /\ ~Busy(c)' /\ cgiMax' \in {cgiMax, cgiMax + 1} /\ made' = made
    PROVE  HandlesLeft'
<1>1. IsFiniteSet(Listers) /\ Cardinality(Listers) \in Nat /\ cgiMax + Cardinality(Listers) <= made
  BY FS_CardinalityType DEF HandlesLeft
<1>2. cgiMax \in Nat /\ made \in Nat
  BY DEF CgiShape
<1>3. CASE (Busy(c)' <=> Busy(c))
  <2>1. Listers' = Listers
    BY <1>3 DEF Listers, Busy
  <2>2. cgiMax' \in Nat /\ made' \in Nat /\ cgiMax' + made <= made' + cgiMax
    BY <1>2, <1>3
  <2>3. Cardinality(Listers') = Cardinality(Listers) /\ IsFiniteSet(Listers')
    BY <1>1, <2>1
  <2> QED
    BY <1>1, <1>2, <2>2, <2>3, LeftArithmetic DEF HandlesLeft
<1>4. CASE ~Busy(c) /\ Busy(c)'
  <2>1. Listers' = Listers \cup {c} /\ c \notin Listers
    BY <1>4 DEF Listers, Busy
  <2>2. IsFiniteSet(Listers') /\ Cardinality(Listers') = Cardinality(Listers) + 1
    BY <1>1, <2>1, FS_AddElement
  <2>3. cgiMax' = cgiMax /\ made' = made + 1
    BY <1>4
  <2> QED
    BY <1>1, <1>2, <2>2, <2>3, LeftArithmetic DEF HandlesLeft
<1>5. CASE Busy(c) /\ ~Busy(c)'
  <2>1. Listers' = Listers \ {c} /\ c \in Listers
    BY <1>5 DEF Listers, Busy
  <2>2. IsFiniteSet(Listers') /\ Cardinality(Listers') = Cardinality(Listers) - 1
    BY <1>1, <2>1, FS_RemoveElement
  <2>3. cgiMax' \in {cgiMax, cgiMax + 1} /\ made' = made
    BY <1>5
  <2> QED
    BY <1>1, <1>2, <2>2, <2>3, LeftArithmetic DEF HandlesLeft
<1> QED
  BY <1>3, <1>4, <1>5

-----------------------------------------------------------------------------
(* Reading the directory: what one listing has in hand changes. *)

LEMMA ScanStep ==
    ASSUME CgiInv, NEW c \in Callers, NEW w,
           cgiCall[c].stage = "scan", cgiCall' = [cgiCall EXCEPT ![c] = w],
           UNCHANGED <<fs, rows, db, lock, cgiCtx, cgiMax, made, events, stale>>,
           verified \subseteq verified',
           WorkSound(w), w.stage \in {"scan", "idle"}, WorkVerified(w, verified'),
           w.stage = "scan" /\ c \notin stale => Listed(w, rows)
    PROVE  CgiInv'
<1>1. /\ cgiCall'[c] = w
      /\ \A d \in Callers : d # c => cgiCall'[d] = cgiCall[d]
      /\ cgiCall' = [d \in Callers |-> cgiCall'[d]]
      /\ \A d \in Callers : WorkSound(cgiCall'[d])
  BY OneCall DEF CgiInv
<1>2. CgiShape'
  <2>1. CgiShape
    BY DEF CgiInv
  <2>2. RowsSound' /\ \A h \in DOMAIN cgiCtx' : HoldingSound(cgiCtx'[h])
    BY <2>1 DEF CgiShape, RowsSound
  <2> QED
    BY <1>1, <2>1, <2>2 DEF CgiShape
<1>3. HandlesLeft'
  BY <1>1, CountKept DEF CgiInv, Busy, CgiShape
<1>4. Cgi!TypeOK'
  <2>1. Cgi!TypeOK
    BY DEF CgiInv
  <2>2. \A d \in Callers : cgiCall'[d].stage = "save" <=> cgiCall[d].stage = "save"
    BY <1>1
  <2>3. \A d \in Callers : cgiCall'[d].stage \in {"scan", "save"} => cgiCall[d].stage \in {"scan", "save"}
    BY <1>1
  <2> QED
    BY <2>1, <2>2, <2>3 DEF Cgi!TypeOK, Cgi!Meta, Cgi!Metas, Cgi!Size
<1>5. Cgi!VerifiedOnly'
  BY DEF CgiInv, Cgi!VerifiedOnly, Cgi!Processes
<1>6. \A d \in Callers : WorkVerified(cgiCall[d], verified)'
  BY <1>1 DEF CgiInv, WorkVerified
<1>7. \A d \in Callers : (Busy(d) /\ d \notin stale => Listed(cgiCall[d], rows))'
  <2> TAKE d \in Callers
  <2>1. CASE d = c
    BY <1>1, <2>1 DEF Busy, Listed, Cgi!Meta
  <2>2. CASE d # c
    BY <1>1, <2>2 DEF CgiInv, Busy, Listed, Cgi!Meta
  <2> QED
    BY <2>1, <2>2
<1> QED
  BY <1>2, <1>3, <1>4, <1>5, <1>6, <1>7 DEF CgiInv

\* A listing that fails is idle again.
LEMMA ScanFails ==
    ASSUME CgiInv, NEW c \in Callers, NEW f \in Files, Cgi!Scanning(c, f),
           Cgi!ListFails(c), UNCHANGED verified
    PROVE  CgiInv'
<1>1. WorkVerified(Cgi!Idle, verified')
  BY IdleWork
<1> QED
  BY <1>1, IdleWork, ScanStep DEF Cgi!Scanning, Cgi!ListFails

\* A file that is passed over.
LEMMA ScanSkips ==
    ASSUME CgiInv, NEW c \in Callers, NEW f \in Files, Cgi!Scanning(c, f),
           cgiCall' = [cgiCall EXCEPT ![c] = Cgi!Rest(c, f)], UNCHANGED verified
    PROVE  CgiInv'
<1> DEFINE k == cgiCall[c]
           w == Cgi!Rest(c, f)
<1>1. WorkSound(k) /\ WorkVerified(k, verified) /\ k \in Works
  BY DEF CgiInv, CgiShape, WorkSound
<1>2. /\ w \in Works /\ w.stage = k.stage /\ w.invalid = k.invalid /\ w.update = k.update
      /\ w.left \subseteq k.left /\ w.new = k.new /\ w.vals = k.vals
  BY <1>1 DEF Works, Cgi!Rest
<1>3. WorkSound(w) /\ WorkVerified(w, verified')
  BY <1>1, <1>2 DEF WorkSound, WorkVerified
<1>4. k.stage = "scan"
  BY DEF Cgi!Scanning
<1>5. c \notin stale => Listed(w, rows)
  <2>1. c \notin stale => Listed(k, rows)
    BY <1>4 DEF CgiInv, Busy
  <2> QED
    BY <1>2, <2>1 DEF Listed
<1>6. cgiCall' = [cgiCall EXCEPT ![c] = w]
  OBVIOUS
<1> HIDE DEF w
<1> QED
  BY <1>2, <1>3, <1>4, <1>5, <1>6, ScanStep DEF Cgi!Scanning

\* The file of a row moves the row from those unseen to those seen.
LEMMA ScanKnownKeeps ==
    ASSUME CgiInv, NEW c \in Callers, NEW f \in Files, Cgi!ScanKnown(c, f)
    PROVE  CgiInv'
<1> DEFINE k == cgiCall[c]
<1>1. WorkSound(k) /\ WorkVerified(k, verified) /\ k \in Works
  BY DEF CgiInv, CgiShape, WorkSound
<1>2. PICK r \in k.invalid :
          /\ r.file = f
          /\ cgiCall' = [cgiCall EXCEPT ![c] =
                [Cgi!Rest(c, f) EXCEPT !.invalid = @ \ {r}, !.update = @ \cup {[r EXCEPT !.md5 = fs[f]]},
                                       !.vals = @ \cup {Cgi!Meta([r EXCEPT !.md5 = fs[f]])}]]
  BY DEF Cgi!ScanKnown, Cgi!RowOf
<1> DEFINE u == [r EXCEPT !.md5 = fs[f]]
           w == [Cgi!Rest(c, f) EXCEPT !.invalid = @ \ {r}, !.update = @ \cup {u},
                                       !.vals = @ \cup {Cgi!Meta(u)}]
<1>3. fs[f] \in Contents
  BY DEF CgiInv, Cgi!TypeOK, Cgi!ScanKnown
<1>4. r \in Rows
  BY <1>1 DEF Works
<1>5. u \in Rows /\ u.file = f /\ u.alias = r.alias /\ u.id = r.id
  BY <1>2, <1>3, <1>4 DEF Rows
<1>6. cgiCall' = [cgiCall EXCEPT ![c] = w] /\ f \in k.left /\ k.stage = "scan"
  BY <1>2 DEF Cgi!ScanKnown, Cgi!Scanning
<1> HIDE DEF u
<1> DEFINE m == Cgi!Meta(u)
<1>7. m \in Cgi!Metas /\ m.file = f /\ m.alias = r.alias
  BY <1>5 DEF Cgi!Meta, Cgi!Metas, Rows
<1>8. m = Cgi!Meta(u)
  OBVIOUS
<1> HIDE DEF m
<1>9. /\ w \in Works /\ w.stage = k.stage /\ w.new = k.new /\ w.left = k.left \ {f}
      /\ w.invalid = k.invalid \ {r} /\ w.update = k.update \cup {u} /\ w.vals = k.vals \cup {m}
  BY <1>1, <1>5, <1>7, <1>8 DEF Works, Cgi!Rest
<1> HIDE DEF w
<1>10. WorkSound(w)
  BY <1>1, <1>9, FS_AddElement, SMTT(20) DEF WorkSound
<1>11. WorkVerified(w, verified')
  BY <1>1, <1>2, <1>5, <1>7, <1>9 DEF WorkVerified, Cgi!ScanKnown
<1>12. ASSUME c \notin stale PROVE Listed(w, rows)
  <2>1. Listed(k, rows)
    BY <1>6, <1>12 DEF CgiInv, Busy
  <2>2. \A n \in k.vals : n.file # f
    BY <1>6, <2>1 DEF Listed
  <2>3. \A s \in rows : s \in w.invalid \/ (\E v \in w.update : v.file = s.file) \/ Cgi!Meta(s) \in w.vals
    BY <1>2, <1>5, <1>9, <2>1 DEF Listed
  <2>4. \A n \in w.vals : \/ \E i \in DOMAIN w.new : w.new[i] = n
                          \/ \E v \in w.update : Cgi!Meta(v) = n
                          \/ \E s \in rows : Cgi!Meta(s) = n
    BY <1>8, <1>9, <2>1 DEF Listed
  <2>5. \A v \in w.update : Cgi!Meta(v) \in w.vals /\ \E s \in rows : s.file = v.file
    BY <1>2, <1>5, <1>8, <1>9, <2>1 DEF Listed
  <2>6. \A n, o \in w.vals : n.file = o.file => n = o
    BY <1>7, <1>9, <2>1, <2>2 DEF Listed
  <2>7. \A n \in w.vals : n.file \notin w.left /\ \A s \in w.invalid : n.file # s.file
    BY <1>2, <1>7, <1>9, <2>1 DEF Listed
  <2> QED
    BY <1>9, <2>1, <2>3, <2>4, <2>5, <2>6, <2>7 DEF Listed
<1> QED
  BY <1>6, <1>9, <1>10, <1>11, <1>12, ScanStep DEF Cgi!ScanKnown, Cgi!Scanning

LEMMA Appended ==
    ASSUME NEW S, NEW s \in Seq(S), NEW x \in S, NEW t, t = Append(s, x)
    PROVE  /\ t \in Seq(S)
           /\ \A i \in DOMAIN t : (i \in DOMAIN s /\ t[i] = s[i]) \/ (i = Len(s) + 1 /\ t[i] = x)
           /\ \A i \in DOMAIN s : i \in DOMAIN t /\ t[i] = s[i]
           /\ Len(s) + 1 \in DOMAIN t /\ t[Len(s) + 1] = x
<1>1. Len(s) \in Nat /\ DOMAIN s = 1 .. Len(s)
  OBVIOUS
<1>2. /\ t \in Seq(S) /\ Len(t) = Len(s) + 1
      /\ \A i \in 1 .. Len(s) : t[i] = s[i]
      /\ t[Len(s) + 1] = x
  BY AppendProperties
<1>3. DOMAIN t = 1 .. Len(s) + 1
  BY <1>2
<1> DEFINE n == Len(s)
<1>4. /\ n \in Nat /\ DOMAIN s = 1 .. n /\ DOMAIN t = 1 .. n + 1
      /\ (\A i \in 1 .. n : t[i] = s[i]) /\ t[n + 1] = x
  BY <1>1, <1>2, <1>3
<1> HIDE DEF n
<1>5. /\ \A i \in DOMAIN t : (i \in DOMAIN s /\ t[i] = s[i]) \/ (i = n + 1 /\ t[i] = x)
      /\ \A i \in DOMAIN s : i \in DOMAIN t /\ t[i] = s[i]
      /\ n + 1 \in DOMAIN t
  BY <1>4
<1> QED
  BY <1>2, <1>5 DEF n

\* The file of a new extension is reported, and will be inserted.
LEMMA ScanExtensionKeeps ==
    ASSUME CgiInv, NEW c \in Callers, NEW f \in Files, Cgi!ScanExtension(c, f)
    PROVE  CgiInv'
<1> DEFINE k == cgiCall[c]
           m == [file |-> f, alias |-> Answer[fs[f]], md5 |-> fs[f]]
           w == [Cgi!Rest(c, f) EXCEPT !.new = Append(@, m), !.vals = @ \cup {m}]
<1>1. WorkSound(k) /\ WorkVerified(k, verified) /\ k \in Works
  BY DEF CgiInv, CgiShape, WorkSound
<1>2. cgiCall' = [cgiCall EXCEPT ![c] = w] /\ f \in k.left /\ k.stage = "scan"
  BY DEF Cgi!ScanExtension, Cgi!Scanning
<1>3. fs[f] \in Contents /\ Answer[fs[f]] \in Aliases
  BY DEF CgiInv, Cgi!TypeOK, Cgi!ScanExtension, Cgi!Unknown, Cgi!IsExtension
<1>4. m \in Cgi!Metas /\ m.file = f /\ m.alias = Answer[fs[f]]
  BY <1>3 DEF Cgi!Metas
<1>5. <<m.file, m.alias>> \in verified' /\ verified \subseteq verified'
  BY <1>3, <1>4 DEF Cgi!ScanExtension
<1> HIDE DEF m
<1>6. k.new \in Seq(Cgi!Metas) /\ Append(k.new, m) \in Seq(Cgi!Metas)
  BY <1>1, <1>4, Appended DEF Works
<1>7. /\ w \in Works /\ w.stage = k.stage /\ w.new = Append(k.new, m) /\ w.left = k.left \ {f}
      /\ w.invalid = k.invalid /\ w.update = k.update /\ w.vals = k.vals \cup {m}
  BY <1>1, <1>4, <1>6 DEF Works, Cgi!Rest
<1> HIDE DEF w
<1>8. \A i \in DOMAIN w.new :
          (i \in DOMAIN k.new /\ w.new[i] = k.new[i]) \/ (i = Len(k.new) + 1 /\ w.new[i] = m)
  BY <1>4, <1>7, <1>6, Appended
<1>9. /\ \A i \in DOMAIN k.new : i \in DOMAIN w.new /\ w.new[i] = k.new[i]
      /\ Len(k.new) + 1 \in DOMAIN w.new /\ w.new[Len(k.new) + 1] = m
  BY <1>4, <1>7, <1>6, Appended
<1>10. WorkSound(w)
  BY <1>1, <1>7, <1>8, FS_AddElement, SMTT(20) DEF WorkSound
<1>11. WorkVerified(w, verified')
  BY <1>1, <1>5, <1>7 DEF WorkVerified
<1>12. ASSUME c \notin stale PROVE Listed(w, rows)
  <2>1. Listed(k, rows)
    BY <1>2, <1>12 DEF CgiInv, Busy
  <2>2. \A n \in k.vals : n.file # f
    BY <1>2, <2>1 DEF Listed
  <2>3. \A r \in k.invalid : r.file # f
    BY DEF Cgi!ScanExtension, Cgi!Unknown, Cgi!RowOf
  <2>4. \A r \in rows : Cgi!Meta(r).file = r.file
    BY DEF Cgi!Meta
  <2>5. \A u \in k.update : Cgi!Meta(u).file = u.file
    BY DEF Cgi!Meta
  <2>6. \A r \in rows : r.file # f
    BY <2>1, <2>2, <2>3, <2>4, <2>5 DEF Listed
  <2>7. \A n \in w.vals : \/ \E i \in DOMAIN w.new : w.new[i] = n
                          \/ \E v \in w.update : Cgi!Meta(v) = n
                          \/ \E s \in rows : Cgi!Meta(s) = n
    BY <1>7, <1>9, <2>1 DEF Listed
  <2>8. \A n, o \in w.vals : n.file = o.file => n = o
    BY <1>4, <1>7, <2>1, <2>2 DEF Listed
  <2>9. \A n \in w.vals : n.file \notin w.left /\ \A s \in w.invalid : n.file # s.file
    BY <1>4, <1>7, <2>1, <2>3 DEF Listed
  <2>10. \A i \in DOMAIN w.new :
          /\ \A r \in rows : r.file # w.new[i].file
          /\ \A j \in DOMAIN w.new : w.new[i].file = w.new[j].file => i = j
    <3>1. \A i \in DOMAIN k.new : k.new[i] \in k.vals
      BY <1>1 DEF WorkSound
    <3>2. \A i \in DOMAIN k.new : k.new[i].file # f
      BY <2>2, <3>1
    <3> QED
      BY <1>4, <1>8, <2>1, <2>6, <3>2 DEF Listed
  <2> QED
    BY <1>7, <2>1, <2>7, <2>8, <2>9, <2>10 DEF Listed
<1> QED
  BY <1>2, <1>5, <1>7, <1>10, <1>11, <1>12, ScanStep DEF Cgi!ScanExtension, Cgi!Scanning

LEMMA ScanKeeps ==
    ASSUME CgiInv, NEW c \in Callers, NEW f \in Files,
           \/ Cgi!ScanAbsent(c, f) \/ Cgi!ScanKnown(c, f) \/ Cgi!ScanExtension(c, f)
           \/ Cgi!ScanOther(c, f) \/ Cgi!ScanBad(c, f)
    PROVE  CgiInv'
BY ScanFails, ScanSkips, ScanKnownKeeps, ScanExtensionKeeps
   DEF Cgi!ScanAbsent, Cgi!ScanOther, Cgi!ScanBad

-----------------------------------------------------------------------------
(* Saving: one statement changes the rows and what the listing has in hand. *)

LEMMA SaveStep ==
    ASSUME CgiInv, NEW c \in Callers, NEW w, Cgi!Saving(c),
           cgiCall' = [cgiCall EXCEPT ![c] = w],
           RowsSound', \A r \in rows' : <<r.file, r.alias>> \in verified,
           WorkSound(w), WorkVerified(w, verified),
           \/ w.stage = "save" /\ UNCHANGED lock
           \/ w.stage = "idle" /\ lock' = Nobody,
           w.stage = "save" /\ c \notin stale => Listed(w, rows')
    PROVE  CgiInv'
<1>1. /\ cgiCall'[c] = w
      /\ \A d \in Callers : d # c => cgiCall'[d] = cgiCall[d]
      /\ cgiCall' = [d \in Callers |-> cgiCall'[d]]
      /\ \A d \in Callers : WorkSound(cgiCall'[d])
  BY OneCall DEF CgiInv
<1>2. /\ cgiCall[c].stage = "save" /\ UNCHANGED <<fs, db, cgiCtx, cgiMax, made, events, verified>>
      /\ stale' = stale \cup {d \in Callers \ {c} : cgiCall[d].stage = "scan"}
  BY DEF Cgi!Saving
<1>3. CgiShape'
  <2>1. CgiShape
    BY DEF CgiInv
  <2>2. \A h \in DOMAIN cgiCtx' : HoldingSound(cgiCtx'[h])
    BY <1>2, <2>1 DEF CgiShape
  <2> QED
    BY <1>1, <1>2, <2>1, <2>2 DEF CgiShape
<1>4. HandlesLeft'
  BY <1>1, <1>2, CountKept DEF CgiInv, Busy, CgiShape
<1>5. lock = c /\ \A d \in Callers : d # c => cgiCall[d].stage # "save"
  BY <1>2 DEF CgiInv, Cgi!TypeOK
<1>6. Cgi!TypeOK'
  <2>1. Cgi!TypeOK
    BY DEF CgiInv
  <2>2. \A r \in rows' : Cgi!Meta(r) \in Cgi!Metas /\ r.id \in Nat \ {0}
    BY DEF RowsSound, Rows, Cgi!Meta, Cgi!Metas
  <2>3. (\A d \in Callers : cgiCall[d].stage = "save" <=> lock = d)'
    BY <1>1, <1>5, CgiAssumption
  <2>4. (\A d \in Callers : cgiCall[d].stage \in {"scan", "save"} => db = "open")'
    BY <1>1, <1>2, <2>1 DEF Cgi!TypeOK
  <2>5. lock' \in Callers \cup {Nobody}
    BY <1>5
  <2> QED
    BY <1>2, <2>1, <2>2, <2>3, <2>4, <2>5 DEF Cgi!TypeOK, Cgi!Size
<1>7. Cgi!VerifiedOnly'
  BY <1>2 DEF CgiInv, Cgi!VerifiedOnly, Cgi!Processes
<1>8. \A d \in Callers : WorkVerified(cgiCall[d], verified)'
  BY <1>1, <1>2 DEF CgiInv
<1>9. \A d \in Callers : (Busy(d) /\ d \notin stale => Listed(cgiCall[d], rows))'
  BY <1>1, <1>2, <1>5 DEF Busy
<1> QED
  BY <1>3, <1>4, <1>6, <1>7, <1>8, <1>9 DEF CgiInv

\* What a listing that saves has in hand.
LEMMA SavingWork ==
    ASSUME CgiInv, NEW c \in Callers, Cgi!Saving(c)
    PROVE  /\ cgiCall[c].stage = "save" /\ verified' = verified
           /\ WorkSound(cgiCall[c]) /\ cgiCall[c] \in Works
           /\ WorkVerified(cgiCall[c], verified)
           /\ RowsSound /\ \A r \in rows : <<r.file, r.alias>> \in verified
           /\ c \notin stale => Listed(cgiCall[c], rows)
BY DEF CgiInv, CgiShape, WorkSound, Cgi!Saving, Busy, Cgi!VerifiedOnly

\* A statement that fails: what has been written stays.
LEMMA FailingStatement ==
    ASSUME CgiInv, NEW c \in Callers, Cgi!Saving(c), Cgi!SaveFails(c)
    PROVE  CgiInv'
<1>1. RowsSound'
  BY SavingWork DEF Cgi!SaveFails, RowsSound
<1> QED
  BY <1>1, IdleWork, SavingWork, SaveStep DEF Cgi!SaveFails, Cgi!ListFails

LEMMA Tailed ==
    ASSUME NEW S, NEW s \in Seq(S), s # <<>>
    PROVE  /\ Head(s) \in S /\ Head(s) = s[1] /\ 1 \in DOMAIN s
           /\ Tail(s) \in Seq(S)
           /\ \A i \in DOMAIN Tail(s) : i \in Nat /\ i + 1 \in DOMAIN s /\ Tail(s)[i] = s[i + 1]
           /\ \A i \in DOMAIN s : i = 1 \/ (i - 1 \in DOMAIN Tail(s) /\ Tail(s)[i - 1] = s[i])
<1>1. Len(s) \in Nat \ {0} /\ DOMAIN s = 1 .. Len(s) /\ Head(s) = s[1]
  OBVIOUS
<1>2. /\ Head(s) \in S /\ Tail(s) \in Seq(S) /\ Len(Tail(s)) = Len(s) - 1
      /\ \A i \in 1 .. Len(Tail(s)) : Tail(s)[i] = s[i + 1]
  BY HeadTailProperties
<1> DEFINE n == Len(s)
           t == Tail(s)
<1>3. DOMAIN t = 1 .. n - 1
  BY <1>1, <1>2
<1>4. /\ n \in Nat \ {0} /\ DOMAIN s = 1 .. n /\ Head(s) = s[1] /\ Head(s) \in S /\ t \in Seq(S)
      /\ \A i \in 1 .. n - 1 : t[i] = s[i + 1]
  BY <1>1, <1>2
<1> HIDE DEF n, t
<1>5. /\ 1 \in DOMAIN s
      /\ \A i \in DOMAIN t : i \in Nat /\ i + 1 \in DOMAIN s /\ t[i] = s[i + 1]
  BY <1>3, <1>4
<1>6. ASSUME NEW i \in DOMAIN s, i # 1 PROVE i - 1 \in DOMAIN t /\ t[i - 1] = s[i]
  <2>1. i - 1 \in 1 .. n - 1 /\ (i - 1) + 1 = i
    BY <1>4, <1>6
  <2> QED
    BY <1>3, <1>4, <2>1
<1> QED
  BY <1>4, <1>5, <1>6 DEF t

\* A row that is inserted has an id of its own and was not there.
LEMMA InsertKeeps ==
    ASSUME CgiInv, NEW c \in Callers, Cgi!Insert(c)
    PROVE  CgiInv'
<1> DEFINE k == cgiCall[c]
           m == Head(k.new)
           w == [k EXCEPT !.new = Tail(@)]
           row == [id |-> Cgi!NewId, file |-> m.file, alias |-> m.alias, md5 |-> m.md5]
<1>1. Cgi!Saving(c) /\ k.new # <<>>
  BY DEF Cgi!Insert
<1>2. CASE \E r \in rows : r.alias = m.alias
  BY <1>1, <1>2, FailingStatement DEF Cgi!Insert
<1>3. CASE ~\E r \in rows : r.alias = m.alias
  <2>1. rows' = rows \cup {row} /\ cgiCall' = [cgiCall EXCEPT ![c] = w] /\ UNCHANGED lock
    BY <1>3 DEF Cgi!Insert
  <2>2. /\ WorkSound(k) /\ k \in Works /\ WorkVerified(k, verified) /\ k.stage = "save"
        /\ RowsSound /\ \A r \in rows : <<r.file, r.alias>> \in verified
        /\ c \notin stale => Listed(k, rows)
    BY <1>1, SavingWork
  <2>3. k.new \in Seq(Cgi!Metas)
    BY <2>2 DEF Works
  <2>4. /\ m \in Cgi!Metas /\ m = k.new[1] /\ 1 \in DOMAIN k.new
        /\ Tail(k.new) \in Seq(Cgi!Metas)
        /\ \A i \in DOMAIN Tail(k.new) : i \in Nat /\ i + 1 \in DOMAIN k.new /\ Tail(k.new)[i] = k.new[i + 1]
        /\ \A i \in DOMAIN k.new : i = 1 \/ (i - 1 \in DOMAIN Tail(k.new) /\ Tail(k.new)[i - 1] = k.new[i])
    BY <1>1, <2>3, Tailed
  <2>5. m \in k.vals
    BY <2>2, <2>4 DEF WorkSound
  <2> HIDE DEF m
  <2>6. row \in Rows /\ row.id = Cgi!NewId /\ row.file = m.file /\ row.alias = m.alias /\ Cgi!Meta(row) = m
    BY <2>2, <2>4, NewIds DEF Rows, Cgi!Metas, Cgi!Meta
  <2> HIDE DEF row
  <2>7. RowsSound'
    <3>1. \A r \in rows : r.id \in Nat /\ r.id < row.id
      BY <2>2, <2>6, NewIds DEF RowsSound, Rows
    <3>2. row.id \in Nat /\ \A r \in rows' : r.id <= row.id
      BY <2>1, <2>2, <2>6, <3>1, NewIds
    <3> QED
      BY <2>1, <2>2, <2>6, <3>1, <3>2 DEF RowsSound
  <2>8. \A r \in rows' : <<r.file, r.alias>> \in verified
    BY <2>1, <2>2, <2>5, <2>6 DEF WorkVerified
  <2>9. /\ w \in Works /\ w.stage = k.stage /\ w.new = Tail(k.new) /\ w.vals = k.vals
        /\ w.invalid = k.invalid /\ w.update = k.update /\ w.left = k.left
    BY <2>2, <2>4 DEF Works
  <2> HIDE DEF w
  <2>10. WorkSound(w) /\ WorkVerified(w, verified)
    BY <2>2, <2>4, <2>9 DEF WorkSound, WorkVerified
  <2>11. ASSUME c \notin stale PROVE Listed(w, rows')
    <3>1. Listed(k, rows)
      BY <2>2, <2>11
    <3>2. \A r \in rows : r.file # m.file
      BY <2>4, <3>1 DEF Listed
    <3>3. \A r, s \in rows' : r.file = s.file => r = s
      BY <2>1, <2>6, <3>1, <3>2 DEF Listed
    <3>4. \A r \in rows' : r \in w.invalid \/ (\E v \in w.update : v.file = r.file) \/ Cgi!Meta(r) \in w.vals
      BY <2>1, <2>5, <2>6, <2>9, <3>1 DEF Listed
    <3>5. \A n \in w.vals : \/ \E i \in DOMAIN w.new : w.new[i] = n
                            \/ \E v \in w.update : Cgi!Meta(v) = n
                            \/ \E s \in rows' : Cgi!Meta(s) = n
      <4> TAKE n \in w.vals
      <4>1. CASE \E i \in DOMAIN k.new : k.new[i] = n
        <5>1. PICK i \in DOMAIN k.new : k.new[i] = n
          BY <4>1
        <5>2. CASE i = 1
          BY <2>1, <2>4, <2>6, <5>1, <5>2
        <5>3. CASE i # 1
          <6>1. i - 1 \in DOMAIN Tail(k.new) /\ Tail(k.new)[i - 1] = n
            BY <2>4, <5>1, <5>3
          <6> QED
            BY <2>9, <6>1
        <5> QED
          BY <5>2, <5>3
      <4>2. CASE \E v \in k.update : Cgi!Meta(v) = n
        BY <2>9, <4>2
      <4>3. CASE \E s \in rows : Cgi!Meta(s) = n
        BY <2>1, <4>3
      <4> QED
        BY <2>9, <3>1, <4>1, <4>2, <4>3 DEF Listed
    <3>6. \A v \in w.update : Cgi!Meta(v) \in w.vals /\ \E s \in rows' : s.file = v.file
      BY <2>1, <2>9, <3>1 DEF Listed
    <3>7. \A i \in DOMAIN w.new :
            /\ \A r \in rows' : r.file # w.new[i].file
            /\ \A j \in DOMAIN w.new : w.new[i].file = w.new[j].file => i = j
      <4> TAKE i \in DOMAIN w.new
      <4>1. i \in Nat /\ i + 1 \in DOMAIN k.new /\ w.new[i] = k.new[i + 1] /\ i + 1 # 1
        BY <2>3, <2>4, <2>9
      <4>2. w.new[i].file # m.file
        BY <2>4, <3>1, <4>1 DEF Listed
      <4>3. \A r \in rows' : r.file # w.new[i].file
        BY <2>1, <2>6, <3>1, <4>1, <4>2 DEF Listed
      <4>4. ASSUME NEW j \in DOMAIN w.new, w.new[i].file = w.new[j].file PROVE i = j
        <5>1. j \in Nat /\ j + 1 \in DOMAIN k.new /\ w.new[j] = k.new[j + 1]
          BY <2>4, <2>9
        <5>2. i + 1 = j + 1
          BY <3>1, <4>1, <4>4, <5>1 DEF Listed
        <5> QED
          BY <4>1, <5>1, <5>2
      <4> QED
        BY <4>3, <4>4
    <3> QED
      BY <2>1, <2>9, <3>1, <3>3, <3>4, <3>5, <3>6, <3>7 DEF Listed
  <2> QED
    BY <1>1, <2>1, <2>2, <2>7, <2>8, <2>9, <2>10, <2>11, SaveStep
<1> QED
  BY <1>2, <1>3

\* The rows of the file keep their ids and take what the listing has read.
LEMMA UpdateKeeps ==
    ASSUME CgiInv, NEW c \in Callers, NEW m \in cgiCall[c].update, Cgi!Update(c, m)
    PROVE  CgiInv'
<1> DEFINE k == cgiCall[c]
           mine == {r \in rows : r.file = m.file}
           Changed(r) == [r EXCEPT !.alias = m.alias, !.md5 = m.md5]
           w == [k EXCEPT !.update = @ \ {m}]
<1>1. Cgi!Saving(c)
  BY DEF Cgi!Update
<1>2. CASE Cgi!SaveFails(c)
  BY <1>1, <1>2, FailingStatement
<1>3. CASE ~Cgi!SaveFails(c)
  <2>1. /\ rows' = (rows \ mine) \cup {Changed(r) : r \in mine}
        /\ cgiCall' = [cgiCall EXCEPT ![c] = w] /\ UNCHANGED lock
    BY <1>3 DEF Cgi!Update
  <2>2. /\ WorkSound(k) /\ k \in Works /\ WorkVerified(k, verified) /\ k.stage = "save"
        /\ RowsSound /\ \A r \in rows : <<r.file, r.alias>> \in verified
        /\ c \notin stale => Listed(k, rows)
    BY <1>1, SavingWork
  <2>3. m \in Rows
    BY <2>2 DEF Works
  <2>4. \A r \in mine : /\ Changed(r) \in Rows /\ Changed(r).id = r.id /\ Changed(r).file = m.file
                        /\ Changed(r).alias = m.alias /\ Cgi!Meta(Changed(r)) = Cgi!Meta(m)
    BY <2>2, <2>3 DEF RowsSound, Rows, Cgi!Meta
  <2> HIDE DEF Changed
  <2>5. \A r \in rows' : \/ r \in rows /\ r.file # m.file
                        \/ \E s \in rows : s.file = m.file /\ r = Changed(s)
    BY <2>1
  <2>6. \A r \in rows :
          (r.file # m.file /\ r \in rows') \/ (r.file = m.file /\ Changed(r) \in rows')
    BY <2>1
  <2>7. RowsSound'
    <3>1. rows' \subseteq Rows
      BY <2>2, <2>4, <2>5 DEF RowsSound
    <3>2. \A r \in rows' : \E s \in rows :
              r.id = s.id /\ ((s.file # m.file /\ r = s) \/ (s.file = m.file /\ r = Changed(s)))
      BY <2>4, <2>5
    <3>3. \A r, s \in rows' : r.id = s.id => r = s
      BY <2>2, <3>2 DEF RowsSound
    <3>4. \E b \in Nat : \A r \in rows' : r.id <= b
      BY <2>2, <3>2 DEF RowsSound
    <3> QED
      BY <3>1, <3>3, <3>4 DEF RowsSound
  <2>8. \A r \in rows' : <<r.file, r.alias>> \in verified
    BY <2>2, <2>4, <2>5 DEF WorkVerified
  <2>9. /\ w \in Works /\ w.stage = k.stage /\ w.new = k.new /\ w.vals = k.vals
        /\ w.invalid = k.invalid /\ w.update = k.update \ {m} /\ w.left = k.left
    BY <2>2 DEF Works
  <2> HIDE DEF w
  <2>10. WorkSound(w) /\ WorkVerified(w, verified)
    BY <2>2, <2>9 DEF WorkSound, WorkVerified
  <2>11. ASSUME c \notin stale PROVE Listed(w, rows')
    <3>1. Listed(k, rows)
      BY <2>2, <2>11
    <3>2. Cgi!Meta(m) \in k.vals /\ Cgi!Meta(m).file = m.file /\ \A r \in rows : Cgi!Meta(r).file = r.file
      BY <3>1 DEF Listed, Cgi!Meta
    <3>3. \A r, s \in rows' : r.file = s.file => r = s
      BY <2>4, <2>5, <3>1 DEF Listed
    <3>4. \A r \in k.invalid : r \in rows /\ r.file # m.file /\ r \in rows'
      BY <2>6, <3>1, <3>2 DEF Listed
    <3>5. \A r \in rows' : r \in w.invalid \/ (\E v \in w.update : v.file = r.file) \/ Cgi!Meta(r) \in w.vals
      <4> TAKE r \in rows'
      <4>1. CASE r \in rows /\ r.file # m.file
        BY <2>9, <3>1, <4>1 DEF Listed
      <4>2. CASE \E s \in rows : s.file = m.file /\ r = Changed(s)
        BY <2>4, <2>9, <3>2, <4>2
      <4> QED
        BY <2>5, <4>1, <4>2
    <3>6. \A n \in w.vals : \/ \E i \in DOMAIN w.new : w.new[i] = n
                            \/ \E v \in w.update : Cgi!Meta(v) = n
                            \/ \E s \in rows' : Cgi!Meta(s) = n
      <4> TAKE n \in w.vals
      <4>1. PICK s \in rows : s.file = m.file
        BY <3>1 DEF Listed
      <4>2. Changed(s) \in rows' /\ Cgi!Meta(Changed(s)) = Cgi!Meta(m)
        BY <2>4, <2>6, <4>1
      <4>3. CASE n.file = m.file
        <5>1. n = Cgi!Meta(m)
          BY <2>9, <3>1, <3>2, <4>3 DEF Listed
        <5> QED
          BY <4>2, <5>1
      <4>4. CASE n.file # m.file
        BY <2>6, <2>9, <3>1, <3>2, <4>4 DEF Listed
      <4> QED
        BY <4>3, <4>4
    <3>7. \A v \in w.update : Cgi!Meta(v) \in w.vals /\ \E s \in rows' : s.file = v.file
      BY <2>4, <2>6, <2>9, <3>1 DEF Listed
    <3>8. \A i \in DOMAIN w.new : \A r \in rows' : r.file # w.new[i].file
      BY <2>4, <2>5, <2>9, <3>1 DEF Listed
    <3> QED
      BY <2>9, <3>1, <3>3, <3>4, <3>5, <3>6, <3>7, <3>8 DEF Listed
  <2> QED
    BY <1>1, <2>1, <2>2, <2>7, <2>8, <2>9, <2>10, <2>11, SaveStep
<1> QED
  BY <1>2, <1>3

\* The row of a file that is gone goes.
LEMMA DeleteKeeps ==
    ASSUME CgiInv, NEW c \in Callers, NEW m \in cgiCall[c].invalid, Cgi!Delete(c, m)
    PROVE  CgiInv'
<1> DEFINE k == cgiCall[c]
           w == [k EXCEPT !.invalid = @ \ {m}]
<1>1. /\ Cgi!Saving(c) /\ cgiCall' = [cgiCall EXCEPT ![c] = w] /\ UNCHANGED lock
      /\ rows' = {r \in rows : r.id # m.id \/ r.file # m.file}
  BY DEF Cgi!Delete
<1>2. /\ WorkSound(k) /\ k \in Works /\ WorkVerified(k, verified) /\ k.stage = "save"
      /\ RowsSound /\ \A r \in rows : <<r.file, r.alias>> \in verified
      /\ c \notin stale => Listed(k, rows)
  BY <1>1, SavingWork
<1>3. RowsSound' /\ \A r \in rows' : <<r.file, r.alias>> \in verified
  BY <1>1, <1>2 DEF RowsSound
<1>4. /\ w \in Works /\ w.stage = k.stage /\ w.new = k.new /\ w.vals = k.vals
      /\ w.invalid = k.invalid \ {m} /\ w.update = k.update /\ w.left = k.left
  BY <1>2 DEF Works
<1> HIDE DEF w
<1>5. WorkSound(w) /\ WorkVerified(w, verified)
  BY <1>2, <1>4 DEF WorkSound, WorkVerified
<1>6. ASSUME c \notin stale PROVE Listed(w, rows')
  <2>1. Listed(k, rows)
    BY <1>2, <1>6
  <2>2. m \in rows /\ \A r \in rows : r # m => r \in rows'
    BY <1>1, <2>1 DEF Listed
  <2>3. m \notin rows' /\ rows' \subseteq rows
    BY <1>1
  <2>4. \A n \in k.vals : n.file # m.file
    BY <2>1 DEF Listed
  <2>5. Cgi!Meta(m).file = m.file
    BY DEF Cgi!Meta
  <2>6. \A u \in k.update : Cgi!Meta(u).file = u.file
    BY DEF Cgi!Meta
  <2>7. \A n \in w.vals : \/ \E i \in DOMAIN w.new : w.new[i] = n
                          \/ \E v \in w.update : Cgi!Meta(v) = n
                          \/ \E s \in rows' : Cgi!Meta(s) = n
    BY <1>4, <2>1, <2>2, <2>4, <2>5 DEF Listed
  <2>8. \A v \in w.update : Cgi!Meta(v) \in w.vals /\ \E s \in rows' : s.file = v.file
    BY <1>4, <2>1, <2>2, <2>4, <2>6 DEF Listed
  <2>9. /\ w.invalid \subseteq rows'
        /\ \A r \in rows' : r \in w.invalid \/ (\E v \in w.update : v.file = r.file) \/ Cgi!Meta(r) \in w.vals
    BY <1>4, <2>1, <2>2, <2>3 DEF Listed
  <2> QED
    BY <1>4, <2>1, <2>3, <2>7, <2>8, <2>9 DEF Listed
<1> QED
  BY <1>1, <1>2, <1>3, <1>4, <1>5, <1>6, SaveStep

-----------------------------------------------------------------------------
(* Calls on handles, and the end of a listing, which gives it one. *)

EntrySound(e) ==
    /\ HoldingSound(e)
    /\ e.kind = "list" => e.pos \in 0 .. Cgi!Size(e)
    /\ \A m \in e.vals : <<m.file, m.alias>> \in verified
    /\ e.kind = "process" => \E a \in Aliases : <<e.file, a>> \in verified

HandlesSound ==
    /\ DOMAIN cgiCtx \subseteq 1 .. cgiMax
    /\ \A h \in DOMAIN cgiCtx : EntrySound(cgiCtx[h])

LockSound ==
    /\ lock \in Callers \cup {Nobody}
    /\ db \in {"none", "open", "poisoned"}
    /\ \A c \in Callers : cgiCall[c].stage = "save" <=> lock = c
    /\ \A c \in Callers : Busy(c) => db = "open"

LEMMA SoundNow ==
    ASSUME CgiInv
    PROVE  HandlesSound /\ LockSound /\ cgiMax \in Nat /\ made \in Nat
<1>1. CgiShape /\ Cgi!TypeOK /\ Cgi!VerifiedOnly
  BY DEF CgiInv
<1>2. HandlesSound
  BY <1>1 DEF CgiShape, Cgi!TypeOK, Cgi!VerifiedOnly, Cgi!Processes, HandlesSound, EntrySound
<1>3. LockSound
  BY <1>1 DEF Cgi!TypeOK, LockSound, Busy
<1> QED
  BY <1>1, <1>2, <1>3 DEF CgiShape

\* A call that is no listing, or no longer, on the map of handles.
LEMMA HandleStep ==
    ASSUME CgiInv, NEW c \in Callers, NEW w \in {Cgi!Idle, Cgi!Gone},
           cgiCall' = [cgiCall EXCEPT ![c] = w],
           UNCHANGED <<fs, rows, events, verified, stale>>,
           LockSound', HandlesLeft', HandlesSound', cgiMax' \in Nat, made' \in Nat
    PROVE  CgiInv'
<1>1. WorkSound(w) /\ WorkVerified(w, verified) /\ w.stage \notin {"scan", "save"}
  BY IdleWork
<1>2. /\ cgiCall'[c] = w
      /\ \A d \in Callers : d # c => cgiCall'[d] = cgiCall[d]
      /\ cgiCall' = [d \in Callers |-> cgiCall'[d]]
      /\ \A d \in Callers : WorkSound(cgiCall'[d])
  BY <1>1, OneCall DEF CgiInv
<1>3. CgiShape'
  <2>1. CgiShape
    BY DEF CgiInv
  <2>2. \A h \in DOMAIN cgiCtx' : HoldingSound(cgiCtx'[h])
    BY DEF HandlesSound, EntrySound
  <2>3. RowsSound'
    BY <2>1 DEF CgiShape, RowsSound
  <2> QED
    BY <1>2, <2>1, <2>2, <2>3 DEF CgiShape
<1>4. cgiMax' \in 0 .. made'
  <2>1. Cardinality(Listers') \in Nat /\ cgiMax' + Cardinality(Listers') <= made'
    BY FS_CardinalityType DEF HandlesLeft
  <2> QED
    BY <2>1
<1>5. Cgi!TypeOK'
  <2>1. Cgi!TypeOK
    BY DEF CgiInv
  <2>2. \A h \in DOMAIN cgiCtx' : cgiCtx'[h].kind = "list" => cgiCtx'[h].pos \in 0 .. Cgi!Size(cgiCtx'[h])
    BY DEF HandlesSound, EntrySound, Cgi!Size
  <2>3. \A r \in rows' : Cgi!Meta(r) \in Cgi!Metas /\ r.id \in Nat \ {0}
    BY <2>1 DEF Cgi!TypeOK
  <2>4. fs' \in [Files -> Contents \cup {NoContent}]
    BY <2>1 DEF Cgi!TypeOK
  <2> QED
    BY <1>4, <2>2, <2>3, <2>4 DEF Cgi!TypeOK, Cgi!Meta, Cgi!Size, LockSound, HandlesSound, Busy
<1>6. Cgi!VerifiedOnly'
  <2>1. Cgi!VerifiedOnly
    BY DEF CgiInv
  <2> QED
    BY <2>1 DEF Cgi!VerifiedOnly, Cgi!Processes, HandlesSound, EntrySound
<1>7. \A d \in Callers : WorkVerified(cgiCall[d], verified)'
  BY <1>1, <1>2 DEF CgiInv
<1>8. \A d \in Callers : (Busy(d) /\ d \notin stale => Listed(cgiCall[d], rows))'
  BY <1>1, <1>2 DEF CgiInv, Busy
<1> QED
  BY <1>3, <1>5, <1>6, <1>7, <1>8 DEF CgiInv

\* An entry is put into the map or taken out of it.
LEMMA PutSound ==
    ASSUME HandlesSound, NEW h \in 1 .. cgiMax', NEW e, EntrySound(e),
           cgiMax \in Nat, cgiMax' \in {cgiMax, cgiMax + 1},
           cgiCtx' = Cgi!Put(h, e), UNCHANGED verified
    PROVE  HandlesSound'
<1>1. DOMAIN cgiCtx' = DOMAIN cgiCtx \cup {h}
  BY DEF Cgi!Put
<1>2. \A x \in DOMAIN cgiCtx' : cgiCtx'[x] = e \/ (x \in DOMAIN cgiCtx /\ cgiCtx'[x] = cgiCtx[x])
  BY DEF Cgi!Put
<1>3. EntrySound(e)' /\ \A x \in DOMAIN cgiCtx : EntrySound(cgiCtx[x])
  BY DEF EntrySound, HandlesSound
<1>4. ASSUME NEW x \in DOMAIN cgiCtx' PROVE EntrySound(cgiCtx'[x])
  BY <1>2, <1>3
<1>5. \A x \in DOMAIN cgiCtx' : EntrySound(cgiCtx[x])'
  BY <1>4 DEF EntrySound, HoldingSound, Cgi!Size
<1>6. DOMAIN cgiCtx' \subseteq 1 .. cgiMax'
  BY <1>1 DEF HandlesSound
<1> QED
  BY <1>5, <1>6 DEF HandlesSound

LEMMA RemoveSound ==
    ASSUME HandlesSound, NEW h, cgiCtx' = Cgi!Remove(h), UNCHANGED <<verified, cgiMax>>
    PROVE  HandlesSound'
<1>1. DOMAIN cgiCtx' \subseteq DOMAIN cgiCtx /\ \A x \in DOMAIN cgiCtx' : cgiCtx'[x] = cgiCtx[x]
  BY DEF Cgi!Remove
<1>2. \A x \in DOMAIN cgiCtx' : EntrySound(cgiCtx[x])'
  BY <1>1 DEF EntrySound, HoldingSound, Cgi!Size, HandlesSound
<1> QED
  BY <1>1, <1>2 DEF HandlesSound

LEMMA SameHandles ==
    ASSUME HandlesSound, cgiMax \in Nat, cgiMax' \in {cgiMax, cgiMax + 1}, UNCHANGED <<verified, cgiCtx>>
    PROVE  HandlesSound'
<1>1. \A x \in DOMAIN cgiCtx' : EntrySound(cgiCtx[x])'
  BY DEF EntrySound, HoldingSound, Cgi!Size, HandlesSound
<1> QED
  BY <1>1 DEF HandlesSound

\* A guest that begins a call on a handle stays idle, or its host call ends it.
LEMMA UseStep ==
    ASSUME CgiInv, NEW c \in Callers, Cgi!Begin(c),
           \/ UNCHANGED <<cgiCall, db>>
           \/ cgiCall' = [cgiCall EXCEPT ![c] = Cgi!Gone] /\ db # "open" /\ db' = "poisoned",
           UNCHANGED <<fs, rows, lock, events, verified, stale>>,
           cgiMax' \in {cgiMax, cgiMax + 1}, HandlesSound'
    PROVE  CgiInv'
<1>1. PICK w \in {Cgi!Idle, Cgi!Gone} :
          /\ cgiCall' = [cgiCall EXCEPT ![c] = w]
          /\ w = Cgi!Idle \/ db # "open"
          /\ db' = db \/ (db # "open" /\ db' = "poisoned")
  BY DEF Cgi!Begin, CgiInv, CgiShape
<1>2. cgiMax' \in Nat /\ made' = made + 1 /\ made' \in Nat
  BY SoundNow DEF Cgi!Begin
<1>3. /\ cgiCall'[c] = w
      /\ \A d \in Callers : d # c => cgiCall'[d] = cgiCall[d]
  BY <1>1, IdleWork, OneCall DEF CgiInv
<1>4. cgiCall[c].stage = "idle" /\ w.stage \in {"idle", "gone"}
  BY IdleWork DEF Cgi!Begin
<1>5. LockSound'
  BY <1>1, <1>3, <1>4, SoundNow DEF LockSound, Busy
<1>6. HandlesLeft'
  <2>1. ~Busy(c) /\ ~Busy(c)'
    BY <1>3, <1>4 DEF Busy
  <2>2. Busy(c)' <=> Busy(c)
    BY <2>1
  <2>3. CgiShape /\ HandlesLeft
    BY DEF CgiInv
  <2>4. UNCHANGED cgiMax \/ cgiMax' = cgiMax + 1
    OBVIOUS
  <2> QED
    BY <1>2, <1>3, <2>2, <2>3, <2>4, CountKept
<1> QED
  BY <1>1, <1>2, <1>5, <1>6, HandleStep

\* An extension that is started is one whose row was verified.
LEMMA CommandKeeps ==
    ASSUME CgiInv, NEW c \in Callers, NEW r \in rows, Cgi!Command(c, r)
    PROVE  CgiInv'
<1>1. /\ Cgi!Begin(c) /\ cgiMax' = cgiMax + 1 /\ UNCHANGED <<db, lock, cgiCall>>
      /\ UNCHANGED <<fs, rows, events, verified, stale>>
      /\ cgiCtx' = Cgi!Put(cgiMax', Cgi!Process(r.file))
  BY DEF Cgi!Command, Cgi!CommandHandle, Cgi!NewHandle, Cgi!directory
<1> DEFINE e == Cgi!Process(r.file)
<1>2. r \in Rows /\ <<r.file, r.alias>> \in verified
  BY DEF CgiInv, CgiShape, RowsSound, Cgi!VerifiedOnly
<1>3. e.kind = "process" /\ e.file = r.file /\ e.vals = {} /\ e \in Holdings
  BY <1>2 DEF Cgi!Process, Holdings, Rows
<1>4. r.alias \in Aliases
  BY <1>2 DEF Rows
<1> HIDE DEF e
<1>5. EntrySound(e)
  BY <1>2, <1>3, <1>4, FS_EmptySet DEF EntrySound, HoldingSound
<1>6. cgiMax \in Nat /\ cgiMax' \in 1 .. cgiMax'
  BY <1>1, SoundNow
<1>7. HandlesSound'
  BY <1>1, <1>5, <1>6, PutSound, SoundNow DEF e
<1> QED
  BY <1>1, <1>7, UseStep

\* A read of a listing moves within it.
LEMMA ListReadKeeps ==
    ASSUME CgiInv, NEW c \in Callers, NEW h \in Cgi!Handles, NEW n \in Reads, Cgi!ListRead(c, h, n)
    PROVE  CgiInv'
<1> DEFINE old == cgiCtx[h]
           remaining == Cgi!Size(old) - old.pos
           copyn == IF remaining < n THEN remaining ELSE n
           e == [old EXCEPT !.pos = @ + copyn]
<1>1. /\ Cgi!Begin(c) /\ UNCHANGED <<db, lock, cgiMax, cgiCall>>
      /\ UNCHANGED <<fs, rows, events, verified, stale>>
      /\ h \in DOMAIN cgiCtx /\ old.kind = "list"
      /\ cgiCtx' = Cgi!Put(h, e)
  BY DEF Cgi!ListRead, Cgi!directory
<1>2. EntrySound(old) /\ h \in 1 .. cgiMax
  BY <1>1, SoundNow DEF HandlesSound
<1>3. old \in Holdings /\ old.pos \in 0 .. Cgi!Size(old) /\ Cgi!Size(old) \in Nat
  <2>1. Cardinality(old.vals) \in Nat
    BY <1>2, FS_CardinalityType DEF EntrySound, HoldingSound
  <2>2. Cgi!Size(old) \in Nat
    BY <2>1, CgiCardinality DEF Cgi!Size
  <2> QED
    BY <1>1, <1>2, <2>2 DEF EntrySound, HoldingSound
<1>4. n \in Nat
  BY CgiAssumption
<1>5. old.pos + copyn \in 0 .. Cgi!Size(old)
  BY <1>3, <1>4
<1>6. /\ e \in Holdings /\ e.kind = "list" /\ e.vals = old.vals /\ e.pos = old.pos + copyn
  <2>1. old.pos + copyn \in Nat
    BY <1>3, <1>5
  <2> HIDE DEF copyn
  <2> QED
    BY <1>1, <1>3, <2>1 DEF Holdings
<1> HIDE DEF e, copyn
<1>7. EntrySound(e)
  BY <1>2, <1>5, <1>6 DEF EntrySound, HoldingSound, Cgi!Size
<1>8. HandlesSound'
  BY <1>1, <1>2, <1>7, PutSound, SoundNow
<1> QED
  BY <1>1, <1>8, UseStep

LEMMA UseKeeps ==
    ASSUME CgiInv, NEW c \in Callers, Cgi!Use(c) \/ Cgi!ListPanic(c)
    PROVE  CgiInv'
<1>1. CASE Cgi!CommandPanic(c) \/ Cgi!ListPanic(c)
  <2>1. /\ Cgi!Begin(c) /\ cgiCall' = [cgiCall EXCEPT ![c] = Cgi!Gone]
        /\ db # "open" /\ db' = "poisoned" /\ cgiMax' \in {cgiMax, cgiMax + 1}
        /\ UNCHANGED <<lock, cgiCtx, fs, rows, events, verified, stale>>
    BY <1>1 DEF Cgi!CommandPanic, Cgi!ListPanic, Cgi!OpenPanic, Cgi!Opens, Cgi!NewHandle, Cgi!directory
  <2> QED
    BY <2>1, SoundNow, SameHandles, UseStep
<1>2. CASE Cgi!CommandFails(c) \/ Cgi!ChildIO(c)
  <2>1. /\ Cgi!Begin(c) /\ UNCHANGED <<cgiCall, db>> /\ cgiMax' \in {cgiMax, cgiMax + 1}
        /\ UNCHANGED <<lock, cgiCtx, fs, rows, events, verified, stale>>
    BY <1>2 DEF Cgi!CommandFails, Cgi!CommandHandle, Cgi!ChildIO, Cgi!NewHandle, Cgi!directory
  <2> QED
    BY <2>1, SoundNow, SameHandles, UseStep
<1>3. ASSUME NEW h \in Cgi!Handles, Cgi!ListReadProcess(c, h) \/ Cgi!Close(c, h) PROVE CgiInv'
  <2>1. /\ Cgi!Begin(c) /\ UNCHANGED <<cgiCall, db>> /\ UNCHANGED cgiMax
        /\ cgiCtx' = Cgi!Remove(h) /\ UNCHANGED <<lock, fs, rows, events, verified, stale>>
    BY <1>3 DEF Cgi!ListReadProcess, Cgi!Close, Cgi!directory
  <2> QED
    BY <2>1, SoundNow, RemoveSound, UseStep
<1> QED
  BY <1>1, <1>2, <1>3, CommandKeeps, ListReadKeeps DEF Cgi!Use

\* A listing that is done gets a handle.
LEMMA ListDoneKeeps ==
    ASSUME CgiInv, NEW c \in Callers, Cgi!ListDone(c)
    PROVE  CgiInv'
<1> DEFINE k == cgiCall[c]
           e == Cgi!Listing(k.vals)
<1>1. /\ k.stage = "save" /\ lock' = Nobody /\ cgiMax' = cgiMax + 1 /\ cgiCtx' = Cgi!Put(cgiMax', e)
      /\ cgiCall' = [cgiCall EXCEPT ![c] = Cgi!Idle]
      /\ UNCHANGED <<fs, rows, db, made, events, verified, stale>>
  BY DEF Cgi!ListDone, Cgi!Saved, Cgi!NewHandle
<1>2. WorkSound(k) /\ WorkVerified(k, verified) /\ k \in Works
  BY DEF CgiInv, CgiShape, WorkSound
<1>3. e.kind = "list" /\ e.vals = k.vals /\ e.pos = 0 /\ e \in Holdings
  BY <1>2 DEF Cgi!Listing, Holdings, Works
<1>4. cgiMax \in Nat /\ made \in Nat /\ cgiMax' \in 1 .. cgiMax'
  BY <1>1, SoundNow
<1>5. EntrySound(e)
  <2> HIDE DEF e
  <2>1. IsFiniteSet(e.vals)
    BY <1>2, <1>3 DEF WorkSound
  <2>2. Cardinality(e.vals) \in Nat
    BY <2>1, FS_CardinalityType
  <2>3. Cgi!Size(e) \in Nat
    BY <2>2, CgiCardinality DEF Cgi!Size
  <2> QED
    BY <1>2, <1>3, <2>1, <2>3 DEF EntrySound, HoldingSound, WorkVerified
<1>6. HandlesSound'
  <2>1. cgiCtx' = Cgi!Put(cgiMax', e)
    BY <1>1
  <2> HIDE DEF e
  <2> QED
    BY <1>1, <1>4, <1>5, <2>1, PutSound, SoundNow
<1>7. /\ cgiCall'[c] = Cgi!Idle
      /\ \A d \in Callers : d # c => cgiCall'[d] = cgiCall[d]
  BY <1>1, IdleWork, OneCall DEF CgiInv
<1>8. lock = c
  BY <1>1, SoundNow DEF LockSound
<1>9. LockSound'
  BY <1>1, <1>7, <1>8, IdleWork, SoundNow, CgiAssumption DEF LockSound, Busy
<1>10. HandlesLeft'
  <2>1. Busy(c) /\ ~Busy(c)'
    BY <1>1, <1>7, IdleWork DEF Busy
  <2>2. CgiShape /\ HandlesLeft
    BY DEF CgiInv
  <2> QED
    BY <1>1, <1>7, <2>1, <2>2, CountKept
<1>11. cgiMax' \in Nat /\ made' \in Nat /\ Cgi!Idle \in {Cgi!Idle, Cgi!Gone}
  BY <1>1, <1>4
<1> HIDE DEF e
<1> QED
  BY <1>1, <1>6, <1>9, <1>10, <1>11, HandleStep

-----------------------------------------------------------------------------
(* The other steps of a listing, and the surroundings. *)

\* A step that changes neither rows nor handles.
LEMMA QuietStep ==
    ASSUME CgiInv, CgiShape', LockSound', HandlesLeft', UNCHANGED <<rows, cgiCtx, cgiMax>>,
           fs' \in [Files -> Contents \cup {NoContent}], UNCHANGED verified,
           \A c \in Callers : WorkVerified(cgiCall[c], verified)',
           \A c \in Callers : (Busy(c) /\ c \notin stale => Listed(cgiCall[c], rows))'
    PROVE  CgiInv'
<1>1. cgiMax' \in 0 .. made'
  <2>1. Cardinality(Listers') \in Nat /\ cgiMax' + Cardinality(Listers') <= made'
    BY FS_CardinalityType DEF HandlesLeft
  <2>2. cgiMax' \in Nat /\ made' \in Nat
    BY DEF CgiShape
  <2> QED
    BY <2>1, <2>2
<1>2. Cgi!TypeOK'
  <2>1. Cgi!TypeOK
    BY DEF CgiInv
  <2> QED
    BY <1>1, <2>1 DEF Cgi!TypeOK, Cgi!Meta, Cgi!Metas, Cgi!Size, LockSound, Busy
<1>3. Cgi!VerifiedOnly'
  BY DEF CgiInv, Cgi!VerifiedOnly, Cgi!Processes
<1> QED
  BY <1>2, <1>3 DEF CgiInv

\* A listing begins with the rows of the database; they are all of them unless
\* a file has two.
LEMMA LoadKeeps ==
    ASSUME CgiInv, NEW c \in Callers, Cgi!Load(c)
    PROVE  CgiInv'
<1> DEFINE w == [Cgi!Idle EXCEPT !.stage = "scan", !.invalid = Cgi!KnownRows, !.left = Files,
                                 !.since = events]
<1>1. /\ Cgi!Begin(c) /\ lock = Nobody /\ db' = "open" /\ cgiCall' = [cgiCall EXCEPT ![c] = w]
      /\ stale' = IF Cgi!OneRowPerFile THEN stale \ {c} ELSE stale \cup {c}
      /\ UNCHANGED <<fs, rows, lock, cgiCtx, cgiMax, events, verified>>
  BY DEF Cgi!Load
<1>2. CgiShape /\ RowsSound /\ made' = made + 1 /\ Cgi!KnownRows \subseteq rows
  BY <1>1 DEF CgiInv, CgiShape, Cgi!Begin, Cgi!KnownRows
<1>3. /\ w.stage = "scan" /\ w.invalid = Cgi!KnownRows /\ w.left = Files /\ w.update = {}
      /\ w.new = <<>> /\ w.vals = {} /\ w \in Works
  <2>1. Cgi!Idle \in Works
    BY IdleWork DEF WorkSound
  <2>2. Cgi!KnownRows \in SUBSET Rows /\ events \in Nat
    BY <1>2 DEF RowsSound, CgiShape
  <2>3. Cgi!Idle.update = {} /\ Cgi!Idle.new = <<>> /\ Cgi!Idle.vals = {}
    BY DEF Cgi!Idle
  <2> QED
    BY <2>1, <2>2, <2>3 DEF Works, Cgi!Stages
<1> HIDE DEF w
<1>4. WorkSound(w)
  BY <1>3, FS_EmptySet DEF WorkSound
<1>5. /\ cgiCall'[c] = w
      /\ \A d \in Callers : d # c => cgiCall'[d] = cgiCall[d]
      /\ cgiCall' = [d \in Callers |-> cgiCall'[d]]
      /\ \A d \in Callers : WorkSound(cgiCall'[d])
  BY <1>1, <1>2, <1>4, OneCall
<1>6. cgiCall[c].stage = "idle"
  BY <1>1, IdleWork DEF Cgi!Begin
<1>7. CgiShape'
  <2>1. RowsSound'
    BY <1>1, <1>2 DEF RowsSound
  <2>2. \A h \in DOMAIN cgiCtx' : HoldingSound(cgiCtx'[h])
    BY <1>1, <1>2 DEF CgiShape
  <2> QED
    BY <1>1, <1>2, <1>5, <2>1, <2>2 DEF CgiShape
<1>8. LockSound'
  BY <1>1, <1>3, <1>5, <1>6, SoundNow DEF LockSound, Busy
<1>9. HandlesLeft'
  <2>1. ~Busy(c) /\ Busy(c)'
    BY <1>3, <1>5, <1>6 DEF Busy
  <2>2. HandlesLeft
    BY DEF CgiInv
  <2> QED
    BY <1>1, <1>2, <1>5, <2>1, <2>2, CountKept
<1>10. \A d \in Callers : WorkVerified(cgiCall[d], verified)'
  <2>1. \A r \in rows : <<r.file, r.alias>> \in verified
    BY DEF CgiInv, Cgi!VerifiedOnly
  <2>2. WorkVerified(w, verified)
    BY <1>2, <1>3, <2>1 DEF WorkVerified
  <2> QED
    BY <1>1, <1>5, <2>2 DEF CgiInv
<1>11. ASSUME Cgi!OneRowPerFile PROVE Listed(w, rows)
  <2>1. w.invalid = rows
    BY <1>3, <1>11 DEF Cgi!OneRowPerFile
  <2>2. \A r, s \in rows : r.file = s.file => r = s
    <3> TAKE r, s \in rows
    <3> HAVE r.file = s.file
    <3>1. s.id <= r.id /\ r.id <= s.id
      BY <1>11 DEF Cgi!OneRowPerFile, Cgi!KnownRows
    <3>2. r.id \in Nat /\ s.id \in Nat
      BY <1>2 DEF RowsSound, Rows
    <3> QED
      BY <1>2, <3>1, <3>2 DEF RowsSound
  <2> QED
    BY <1>3, <2>1, <2>2 DEF Listed
<1>12. \A d \in Callers : (Busy(d) /\ d \notin stale => Listed(cgiCall[d], rows))'
  <2> TAKE d \in Callers
  <2>1. CASE d = c
    BY <1>1, <1>5, <1>11, <2>1
  <2>2. CASE d # c
    BY <1>1, <1>5, <2>2 DEF CgiInv, Busy
  <2> QED
    BY <2>1, <2>2
<1>13. fs' \in [Files -> Contents \cup {NoContent}]
  BY <1>1 DEF CgiInv, Cgi!TypeOK
<1> QED
  BY <1>1, <1>7, <1>8, <1>9, <1>10, <1>12, <1>13, QuietStep

LEMMA LockKeeps ==
    ASSUME CgiInv, NEW c \in Callers, Cgi!Lock(c)
    PROVE  CgiInv'
<1> DEFINE k == cgiCall[c]
           w == [k EXCEPT !.stage = "save"]
<1>1. /\ k.stage = "scan" /\ lock = Nobody /\ lock' = c /\ cgiCall' = [cgiCall EXCEPT ![c] = w]
      /\ UNCHANGED <<fs, rows, db, cgiCtx, cgiMax, made, events, verified, stale>>
  BY DEF Cgi!Lock
<1>2. CgiShape /\ WorkSound(k) /\ k \in Works /\ WorkVerified(k, verified)
  BY DEF CgiInv, CgiShape, WorkSound
<1>3. /\ w \in Works /\ w.stage = "save" /\ w.invalid = k.invalid /\ w.left = k.left
      /\ w.update = k.update /\ w.new = k.new /\ w.vals = k.vals
  BY <1>2 DEF Works, Cgi!Stages
<1> HIDE DEF w
<1>4. WorkSound(w) /\ WorkVerified(w, verified)
  BY <1>2, <1>3 DEF WorkSound, WorkVerified
<1>5. /\ cgiCall'[c] = w
      /\ \A d \in Callers : d # c => cgiCall'[d] = cgiCall[d]
      /\ cgiCall' = [d \in Callers |-> cgiCall'[d]]
      /\ \A d \in Callers : WorkSound(cgiCall'[d])
  BY <1>1, <1>2, <1>4, OneCall
<1>6. CgiShape'
  <2>1. RowsSound'
    BY <1>1, <1>2 DEF CgiShape, RowsSound
  <2>2. \A h \in DOMAIN cgiCtx' : HoldingSound(cgiCtx'[h])
    BY <1>1, <1>2 DEF CgiShape
  <2> QED
    BY <1>1, <1>2, <1>5, <2>1, <2>2 DEF CgiShape
<1>7. LockSound'
  <2>1. \A d \in Callers : cgiCall[d].stage # "save"
    BY <1>1, SoundNow, CgiAssumption DEF LockSound
  <2> QED
    BY <1>1, <1>3, <1>5, <2>1, SoundNow DEF LockSound, Busy
<1>8. HandlesLeft'
  <2>1. Busy(c) /\ Busy(c)'
    BY <1>1, <1>3, <1>5 DEF Busy
  <2>2. (Busy(c)' <=> Busy(c)) /\ HandlesLeft
    BY <2>1 DEF CgiInv
  <2> QED
    BY <1>1, <1>2, <1>5, <2>2, CountKept
<1>9. \A d \in Callers : WorkVerified(cgiCall[d], verified)'
  BY <1>1, <1>4, <1>5 DEF CgiInv
<1>10. \A d \in Callers : (Busy(d) /\ d \notin stale => Listed(cgiCall[d], rows))'
  <2>1. c \notin stale => Listed(w, rows)
    <3>1. c \notin stale => Listed(k, rows)
      BY <1>1 DEF CgiInv, Busy
    <3> QED
      BY <1>3, <3>1 DEF Listed
  <2> TAKE d \in Callers
  <2>2. CASE d = c
    BY <1>1, <1>5, <2>1, <2>2
  <2>3. CASE d # c
    BY <1>1, <1>5, <2>3 DEF CgiInv, Busy
  <2> QED
    BY <2>2, <2>3
<1>11. fs' \in [Files -> Contents \cup {NoContent}]
  BY <1>1 DEF CgiInv, Cgi!TypeOK
<1> QED
  BY <1>1, <1>6, <1>7, <1>8, <1>9, <1>10, <1>11, QuietStep

LEMMA EditKeeps ==
    ASSUME CgiInv, NEW f \in Files, NEW content \in Contents \cup {NoContent}, Cgi!Edit(f, content)
    PROVE  CgiInv'
<1>1. /\ fs' = [fs EXCEPT ![f] = content] /\ events' = events + 1
      /\ UNCHANGED <<rows, db, lock, cgiCtx, cgiMax, cgiCall, made, verified, stale>>
  BY DEF Cgi!Edit
<1>2. fs' \in [Files -> Contents \cup {NoContent}]
  BY <1>1 DEF CgiInv, Cgi!TypeOK
<1>3. CgiShape'
  BY <1>1 DEF CgiInv, CgiShape, RowsSound
<1>4. LockSound' /\ HandlesLeft'
  BY <1>1, SoundNow DEF CgiInv, LockSound, Busy, HandlesLeft, Listers
<1>5. \A c \in Callers : WorkVerified(cgiCall[c], verified)'
  BY <1>1 DEF CgiInv
<1>6. \A c \in Callers : (Busy(c) /\ c \notin stale => Listed(cgiCall[c], rows))'
  BY <1>1 DEF CgiInv, Busy
<1> QED
  BY <1>1, <1>2, <1>3, <1>4, <1>5, <1>6, QuietStep

\* A call of the other driver counts as a call.
LEMMA OtherDriver ==
    ASSUME CgiInv, UNCHANGED cgiVars, made' \in {made, made + 1}
    PROVE  CgiInv'
<1>1. UNCHANGED <<fs, rows, db, lock, cgiCtx, cgiMax, cgiCall, events, verified, stale>>
  BY DEF cgiVars
<1>2. fs' \in [Files -> Contents \cup {NoContent}]
  BY <1>1 DEF CgiInv, Cgi!TypeOK
<1>3. CgiShape'
  BY <1>1 DEF CgiInv, CgiShape, RowsSound
<1>4. HandlesLeft'
  <2>1. Cardinality(Listers) \in Nat /\ cgiMax + Cardinality(Listers) <= made /\ IsFiniteSet(Listers)
    BY FS_CardinalityType DEF CgiInv, HandlesLeft
  <2>2. cgiMax \in Nat /\ made \in Nat
    BY SoundNow
  <2>3. Listers' = Listers
    BY <1>1 DEF Listers, Busy
  <2> QED
    BY <1>1, <2>1, <2>2, <2>3 DEF HandlesLeft
<1>5. LockSound'
  BY <1>1, SoundNow DEF LockSound, Busy
<1>6. \A c \in Callers : WorkVerified(cgiCall[c], verified)'
  BY <1>1 DEF CgiInv
<1>7. \A c \in Callers : (Busy(c) /\ c \notin stale => Listed(cgiCall[c], rows))'
  BY <1>1 DEF CgiInv, Busy
<1> QED
  BY <1>1, <1>2, <1>3, <1>4, <1>5, <1>6, <1>7, QuietStep

\* A process that has just begun, over any directory and database.
Fresh ==
    /\ fs \in [Files -> Contents \cup {NoContent}]
    /\ RowsSound /\ \A r \in rows : <<r.file, r.alias>> \in verified
    /\ db = "none" /\ lock = Nobody /\ cgiCtx = << >> /\ cgiMax = 0
    /\ cgiCall = [c \in Callers |-> Cgi!Idle]
    /\ made \in Nat /\ events \in Nat

LEMMA FreshInv == Fresh => CgiInv
<1> SUFFICES ASSUME Fresh PROVE CgiInv
  OBVIOUS
<1>1. DOMAIN cgiCtx = {}
  BY DEF Fresh
<1>2. \A c \in Callers : cgiCall[c] = Cgi!Idle /\ cgiCall[c].stage = "idle"
  BY IdleWork DEF Fresh
<1>3. CgiShape
  BY <1>1, <1>2, IdleWork DEF Fresh, CgiShape
<1>4. Cgi!TypeOK
  <2>1. \A r \in rows : Cgi!Meta(r) \in Cgi!Metas /\ r.id \in Nat \ {0}
    BY DEF Fresh, RowsSound, Rows, Cgi!Meta, Cgi!Metas
  <2> QED
    BY <1>1, <1>2, <2>1, CgiAssumption DEF Fresh, Cgi!TypeOK
<1>5. HandlesLeft
  <2>1. Listers = {}
    BY <1>2 DEF Listers, Busy
  <2> QED
    BY <2>1, FS_EmptySet DEF HandlesLeft, Fresh
<1>6. Cgi!VerifiedOnly
  BY <1>1 DEF Fresh, Cgi!VerifiedOnly, Cgi!Processes
<1>7. \A c \in Callers : WorkVerified(cgiCall[c], verified) /\ ~Busy(c)
  BY <1>2, IdleWork DEF Busy
<1> QED
  BY <1>3, <1>4, <1>5, <1>6, <1>7 DEF CgiInv

LEMMA CgiRestartKeeps ==
    ASSUME CgiInv, Cgi!Restart
    PROVE  CgiInv'
<1>1. Fresh'
  <2>1. CgiShape /\ Cgi!TypeOK /\ Cgi!VerifiedOnly
    BY DEF CgiInv
  <2>2. RowsSound' /\ \A r \in rows' : <<r.file, r.alias>> \in verified'
    BY <2>1 DEF Cgi!Restart, CgiShape, RowsSound, Cgi!VerifiedOnly
  <2> QED
    BY <2>1, <2>2 DEF Cgi!Restart, Fresh, CgiShape, Cgi!TypeOK
<1> QED
  BY <1>1, FreshInv, PTL

LEMMA CgiStepKeeps ==
    ASSUME CgiInv, NEW c \in Callers, Cgi!Step(c)
    PROVE  CgiInv'
BY LoadKeeps, LockKeeps, ScanKeeps, InsertKeeps, UpdateKeeps, DeleteKeeps, ListDoneKeeps, UseKeeps
   DEF Cgi!Step, Cgi!List

-----------------------------------------------------------------------------
(* Both drivers. *)

OneDriver == \A c \in Callers : call[c] = Idle \/ cgiCall[c] = Cgi!Idle

DriversInv == IInv /\ CgiInv /\ OneDriver

\* A step of a guest is counted at most once and leaves the calls of others alone.
LEMMA HttpFrame ==
    ASSUME IInv, NEW c \in Callers, Step(c)
    PROVE  /\ made' \in {made, made + 1}
           /\ \A d \in Callers : d # c => call'[d] = call[d]
<1>1. call \in [Callers -> Calls]
  BY DEF IInv, TypeOK
<1>2. CASE ReqRefused(c) \/ ReqSend(c) \/ ReqFailed(c) \/ ReqDone(c) \/ ReadHeader(c)
  BY <1>1, <1>2 DEF ReqRefused, ReqSend, ReqFailed, ReqDone, ReadHeader, Begin
<1>3. ASSUME NEW h \in Handles, HeaderPanic(c, h) \/ Close(c, h) \/ Invalid(c, h)
      PROVE  made' \in {made, made + 1} /\ \A d \in Callers : d # c => call'[d] = call[d]
  BY <1>1, <1>3 DEF HeaderPanic, Close, Invalid, Begin
<1>4. ASSUME NEW h \in Handles, NEW size \in Sizes, ReadBody(c, h, size)
      PROVE  made' \in {made, made + 1} /\ \A d \in Callers : d # c => call'[d] = call[d]
  BY <1>1, <1>4 DEF ReadBody, Return, Await, Begin
<1>5. ASSUME NEW n \in 1 .. Length, ChunkArrives(c, n)
      PROVE  made' \in {made, made + 1} /\ \A d \in Callers : d # c => call'[d] = call[d]
  BY <1>1, <1>5 DEF ChunkArrives, Return
<1>6. CASE StreamEnds(c) \/ StreamFails(c)
  BY <1>1, <1>6 DEF StreamEnds, StreamFails, Return
<1> QED
  BY <1>2, <1>3, <1>4, <1>5, <1>6 DEF Step

LEMMA CgiFrame ==
    ASSUME CgiInv, made \in 0 .. MaxCalls, NEW c \in Callers, Cgi!Step(c)
    PROVE  /\ made' \in 0 .. MaxCalls
           /\ \A d \in Callers : d # c => cgiCall'[d] = cgiCall[d]
<1> DEFINE Framed == /\ made' \in 0 .. MaxCalls
                     /\ \A d \in Callers : d # c => cgiCall'[d] = cgiCall[d]
<1>1. cgiCall = [d \in Callers |-> cgiCall[d]]
  BY DEF CgiInv, CgiShape
<1>2. Cgi!Begin(c) => made' \in 0 .. MaxCalls
  BY HandleAssumption DEF Cgi!Begin
<1>3. ASSUME NEW w, cgiCall' = [cgiCall EXCEPT ![c] = w]
      PROVE  \A d \in Callers : d # c => cgiCall'[d] = cgiCall[d]
  BY <1>1, <1>3
<1>4. CASE Cgi!ListPanic(c) \/ Cgi!Load(c) \/ Cgi!CommandPanic(c)
  BY <1>2, <1>3, <1>4 DEF Cgi!ListPanic, Cgi!Load, Cgi!CommandPanic, Cgi!OpenPanic
<1>5. CASE Cgi!Lock(c) \/ Cgi!ListDone(c)
  BY <1>1, <1>5 DEF Cgi!Lock, Cgi!ListDone
<1>6. CASE Cgi!Insert(c)
  BY <1>1, <1>6 DEF Cgi!Insert, Cgi!Saving, Cgi!SaveFails, Cgi!ListFails
<1>7. ASSUME NEW m, Cgi!Update(c, m) PROVE Framed
  BY <1>1, <1>7 DEF Cgi!Update, Cgi!Saving, Cgi!SaveFails, Cgi!ListFails
<1>8. ASSUME NEW m, Cgi!Delete(c, m) PROVE Framed
  BY <1>1, <1>8 DEF Cgi!Delete, Cgi!Saving
<1>9. ASSUME NEW f \in Files, Cgi!Scanning(c, f), NEW w, cgiCall' = [cgiCall EXCEPT ![c] = w]
      PROVE  Framed
  BY <1>3, <1>9 DEF Cgi!Scanning
<1>10. ASSUME NEW f \in Files,
              \/ Cgi!ScanAbsent(c, f) \/ Cgi!ScanKnown(c, f) \/ Cgi!ScanExtension(c, f)
              \/ Cgi!ScanOther(c, f) \/ Cgi!ScanBad(c, f)
       PROVE  Framed
  BY <1>9, <1>10 DEF Cgi!ScanAbsent, Cgi!ScanKnown, Cgi!ScanExtension, Cgi!ScanOther, Cgi!ScanBad,
     Cgi!ListFails
<1>11. CASE Cgi!CommandFails(c) \/ Cgi!ChildIO(c)
  BY <1>2, <1>11 DEF Cgi!CommandFails, Cgi!ChildIO, Cgi!CommandHandle
<1>12. ASSUME NEW r, Cgi!Command(c, r) PROVE Framed
  BY <1>2, <1>12 DEF Cgi!Command, Cgi!CommandHandle
<1>13. ASSUME NEW h, Cgi!ListReadProcess(c, h) \/ Cgi!Close(c, h) PROVE Framed
  BY <1>2, <1>13 DEF Cgi!ListReadProcess, Cgi!Close
<1>14. ASSUME NEW h, NEW n, Cgi!ListRead(c, h, n) PROVE Framed
  BY <1>2, <1>14 DEF Cgi!ListRead
<1> QED
  BY <1>4, <1>5, <1>6, <1>7, <1>8, <1>10, <1>11, <1>12, <1>13, <1>14 DEF Cgi!Step, Cgi!List, Cgi!Use

LEMMA DriversInit1 == DriversInit => DriversInv
<1> SUFFICES ASSUME DriversInit PROVE DriversInv
  OBVIOUS
<1>1. IInv
  BY InitIInv DEF DriversInit
<1>2. Fresh
  <2>1. RowsSound /\ \A r \in rows : <<r.file, r.alias>> \in verified
    BY DEF DriversInit, Cgi!Init, RowsSound
  <2> QED
    BY <2>1 DEF DriversInit, Cgi!Init, Fresh
<1>3. OneDriver
  BY DEF DriversInit, Init, OneDriver
<1> QED
  BY <1>1, <1>2, <1>3, FreshInv DEF DriversInv

LEMMA DriversKeep == DriversInv /\ [DriversNext]_<<made, httpVars, cgiVars>> => DriversInv'
<1> SUFFICES ASSUME DriversInv, [DriversNext]_<<made, httpVars, cgiVars>> PROVE DriversInv'
  OBVIOUS
<1>1. IInv /\ CgiInv /\ OneDriver /\ made \in 0 .. MaxCalls
  BY DEF DriversInv, IInv, TypeOK
<1>2. ASSUME NEW c \in Callers, HttpStep(c) PROVE DriversInv'
  <2>1. Step(c) /\ UNCHANGED cgiVars /\ cgiCall[c] = Cgi!Idle
    BY <1>2 DEF HttpStep
  <2>2. IInv'
    BY <1>1, <2>1, NextKeeps DEF Next
  <2>3. made' \in {made, made + 1} /\ \A d \in Callers : d # c => call'[d] = call[d]
    BY <1>1, <2>1, HttpFrame
  <2>4. CgiInv'
    BY <1>1, <2>1, <2>3, OtherDriver
  <2>5. OneDriver'
    BY <1>1, <2>1, <2>3 DEF OneDriver, cgiVars
  <2> QED
    BY <2>2, <2>4, <2>5 DEF DriversInv
<1>3. ASSUME NEW c \in Callers, CgiStep(c) PROVE DriversInv'
  <2>1. Cgi!Step(c) /\ UNCHANGED httpVars /\ call[c] = Idle
    BY <1>3 DEF CgiStep
  <2>2. CgiInv'
    BY <1>1, <2>1, CgiStepKeeps
  <2>3. made' \in 0 .. MaxCalls /\ \A d \in Callers : d # c => cgiCall'[d] = cgiCall[d]
    BY <1>1, <2>1, CgiFrame
  <2>4. IInv'
    BY <1>1, <2>1, <2>3, QuietKeeps DEF httpVars
  <2>5. OneDriver'
    BY <1>1, <2>1, <2>3 DEF OneDriver, httpVars
  <2> QED
    BY <2>2, <2>4, <2>5 DEF DriversInv
<1>4. ASSUME NEW f \in Files, NEW content \in Contents \cup {NoContent}, Edit(f, content) PROVE DriversInv'
  <2>1. Cgi!Edit(f, content) /\ UNCHANGED httpVars
    BY <1>4 DEF Edit
  <2>2. UNCHANGED made /\ UNCHANGED cgiCall
    BY <2>1 DEF Cgi!Edit
  <2>3. IInv'
    BY <1>1, <2>1, <2>2, QuietKeeps DEF httpVars
  <2> QED
    BY <1>1, <2>1, <2>2, <2>3, EditKeeps DEF DriversInv, OneDriver, httpVars
<1>5. CASE DriversRestart
  <2>1. Cgi!Restart /\ Restart
    BY <1>5 DEF DriversRestart
  <2>2. OneDriver'
    BY <2>1 DEF Restart, OneDriver
  <2> QED
    BY <1>1, <2>1, <2>2, RestartKeeps, CgiRestartKeeps DEF DriversInv
<1>6. CASE UNCHANGED <<made, httpVars, cgiVars>>
  <2>1. IInv' /\ CgiInv'
    BY <1>1, <1>6, QuietKeeps, OtherDriver DEF httpVars
  <2> QED
    BY <1>1, <1>6, <2>1 DEF DriversInv, OneDriver, httpVars, cgiVars
<1> QED
  BY <1>2, <1>3, <1>4, <1>5, <1>6 DEF DriversNext

\* What holds of every reachable state of the two drivers.
LEMMA DriversInvariant == DriversSpec => []DriversInv
BY DriversInit1, DriversKeep, PTL DEF DriversSpec

-----------------------------------------------------------------------------
(* Theorems. *)

\* The variables of both drivers keep their types, and a guest is in one call at a
\* time, for any number of guests, files, calls and restarts.
THEOREM DriversTypes == DriversSpec => []DriversTypeOK
<1>1. DriversInv => DriversTypeOK
  BY DEF DriversInv, IInv, CgiInv, DriversTypeOK, OneDriver
<1> QED
  BY <1>1, DriversInvariant, PTL

\* The http driver keeps its promises beside the cgi driver: no response is lost,
\* and bodies are read in order, once, and to their end.
THEOREM HttpBesideCgi == DriversSpec => [](HandleKept /\ BodyInOrder /\ ShortIsLast)
<1>1. DriversInv => HandleKept /\ BodyInOrder /\ ShortIsLast
  BY DEF DriversInv, IInv
<1> QED
  BY <1>1, DriversInvariant, PTL

\* Only what has answered --ext_verify as an extension is stored, listed or run,
\* over overlapping listings, changes of files and statements that fail.
THEOREM OnlyVerified == DriversSpec => []VerifiedOnly
<1>1. DriversInv => VerifiedOnly
  BY DEF DriversInv, CgiInv, VerifiedOnly
<1> QED
  BY <1>1, DriversInvariant, PTL

\* A listing that no other listing has written under reports what the database
\* has when its last statement is done.
THEOREM StoredListings == DriversSpec => []ListingStored
<1>1. ASSUME CgiInv, NEW c \in Callers, Cgi!Saved(c), c \notin stale
      PROVE  cgiCall[c].vals = {Cgi!Meta(r) : r \in rows}
  <2>1. /\ Busy(c) /\ cgiCall[c].invalid = {} /\ cgiCall[c].update = {}
        /\ cgiCall[c].new = <<>>
    BY <1>1 DEF Cgi!Saved, Busy
  <2>2. Listed(cgiCall[c], rows)
    BY <1>1, <2>1 DEF CgiInv
  <2>3. \A r \in rows : Cgi!Meta(r) \in cgiCall[c].vals
    BY <2>1, <2>2 DEF Listed
  <2>4. DOMAIN cgiCall[c].new = {}
    BY <2>1
  <2>5. \A m \in cgiCall[c].vals : \E r \in rows : Cgi!Meta(r) = m
    BY <2>1, <2>2, <2>4 DEF Listed
  <2> QED
    BY <2>3, <2>5
<1>2. DriversInv => ListingStored
  BY <1>1 DEF DriversInv, ListingStored, Cgi!ListingStored
<1> QED
  BY <1>2, DriversInvariant, PTL

\* A step that puts an entry under the next handle keeps those there are.
LEMMA PutKeepsOthers ==
    ASSUME CgiInv, NEW e, cgiCtx' = Cgi!Put(cgiMax + 1, e), NEW h \in DOMAIN cgiCtx
    PROVE  h \in DOMAIN cgiCtx' /\ cgiCtx'[h] = cgiCtx[h]
<1>1. h \in 1 .. cgiMax /\ cgiMax \in Nat
  BY SoundNow DEF HandlesSound
<1>2. h # cgiMax + 1
  BY <1>1
<1> QED
  BY <1>2 DEF Cgi!Put

\* What a step of a guest does to an extension that runs.
LEMMA ProcessStep ==
    ASSUME CgiInv, NEW c \in Callers, Cgi!Step(c), NEW h \in Cgi!Processes
    PROVE  \/ h \in DOMAIN cgiCtx' /\ cgiCtx'[h] = cgiCtx[h]
           \/ Cgi!Close(c, h) \/ Cgi!ListReadProcess(c, h)
<1> DEFINE Same == h \in DOMAIN cgiCtx' /\ cgiCtx'[h] = cgiCtx[h]
<1>1. h \in DOMAIN cgiCtx /\ cgiCtx[h].kind = "process"
  BY DEF Cgi!Processes
<1>2. CASE Cgi!ListPanic(c) \/ Cgi!Load(c) \/ Cgi!Lock(c) \/ Cgi!Insert(c)
  BY <1>1, <1>2 DEF Cgi!ListPanic, Cgi!Load, Cgi!Lock, Cgi!Insert, Cgi!Saving
<1>3. CASE Cgi!ListDone(c)
  BY <1>1, <1>3, PutKeepsOthers DEF Cgi!ListDone, Cgi!NewHandle
<1>4. ASSUME NEW f \in Files, Cgi!Scanning(c, f) PROVE Same
  BY <1>1, <1>4 DEF Cgi!Scanning
<1>5. ASSUME NEW f \in Files,
             \/ Cgi!ScanAbsent(c, f) \/ Cgi!ScanKnown(c, f) \/ Cgi!ScanExtension(c, f)
             \/ Cgi!ScanOther(c, f) \/ Cgi!ScanBad(c, f)
      PROVE  Same
  BY <1>4, <1>5 DEF Cgi!ScanAbsent, Cgi!ScanKnown, Cgi!ScanExtension, Cgi!ScanOther, Cgi!ScanBad
<1>6. ASSUME NEW m, Cgi!Update(c, m) \/ Cgi!Delete(c, m) PROVE Same
  BY <1>1, <1>6 DEF Cgi!Update, Cgi!Delete, Cgi!Saving
<1>7. CASE Cgi!CommandPanic(c) \/ Cgi!CommandFails(c) \/ Cgi!ChildIO(c)
  BY <1>1, <1>7 DEF Cgi!CommandPanic, Cgi!CommandFails, Cgi!ChildIO
<1>8. ASSUME NEW r \in rows, Cgi!Command(c, r) PROVE Same
  BY <1>1, <1>8, PutKeepsOthers DEF Cgi!Command, Cgi!CommandHandle, Cgi!NewHandle
<1>9. ASSUME NEW g \in Cgi!Handles, Cgi!ListReadProcess(c, g) \/ Cgi!Close(c, g), g # h
      PROVE  Same
  BY <1>1, <1>9 DEF Cgi!ListReadProcess, Cgi!Close, Cgi!Remove
<1>10. ASSUME NEW g \in Cgi!Handles, NEW n \in Reads, Cgi!ListRead(c, g, n) PROVE Same
  <2>1. g # h
    BY <1>1, <1>10 DEF Cgi!ListRead
  <2> QED
    BY <1>1, <1>10, <2>1 DEF Cgi!ListRead, Cgi!Put
<1> HIDE DEF Same
<1>11. CASE Cgi!List(c)
  BY <1>2, <1>3, <1>5, <1>6, <1>11 DEF Cgi!List, Same
<1>12. CASE Cgi!Use(c)
  BY <1>7, <1>8, <1>9, <1>10, <1>12 DEF Cgi!Use, Same
<1> QED
  BY <1>11, <1>12 DEF Cgi!Step

\* A running extension stays under its handle until that handle is closed or read
\* as a listing, or the process ends: handles are not used twice, and neither
\* listings nor calls of the other driver touch those of others.
THEOREM KeptProcesses == DriversSpec => ProcessKept
<1> DEFINE Kept == \A h \in Cgi!Processes :
                      \/ h \in DOMAIN cgiCtx' /\ cgiCtx'[h] = cgiCtx[h]
                      \/ Cgi!Restart
                      \/ \E c \in Callers : Cgi!Close(c, h) \/ Cgi!ListReadProcess(c, h)
<1>1. DriversInv /\ [DriversNext]_<<made, httpVars, cgiVars>> => [Kept]_Cgi!vars
  <2> SUFFICES ASSUME DriversInv, [DriversNext]_<<made, httpVars, cgiVars>> PROVE Kept
    OBVIOUS
  <2>1. ASSUME NEW c \in Callers, CgiStep(c) PROVE Kept
    BY <2>1, ProcessStep DEF CgiStep, DriversInv
  <2>2. CASE UNCHANGED cgiCtx
    BY <2>2 DEF Cgi!Processes
  <2>3. ASSUME \/ UNCHANGED <<made, httpVars, cgiVars>>
               \/ \E c \in Callers : HttpStep(c)
               \/ \E f \in Files, content \in Contents \cup {NoContent} : Edit(f, content)
        PROVE  UNCHANGED cgiCtx
    BY <2>3 DEF cgiVars, HttpStep, Edit, Cgi!Edit
  <2>4. CASE DriversRestart
    BY <2>4 DEF DriversRestart
  <2> HIDE DEF Kept
  <2> QED
    BY <2>1, <2>2, <2>3, <2>4 DEF DriversNext
<1>2. ProcessKept <=> [][Kept]_Cgi!vars
  BY DEF ProcessKept, Cgi!ProcessKept
<1> QED
  BY <1>1, <1>2, DriversInvariant, PTL DEF DriversSpec

-----------------------------------------------------------------------------
(* The ipfs and the s3 driver, by themselves. *)

\* What a handle holds, and what its guests were told.
AnswerHeld(e, p) ==
    /\ e \in AnswerEntries /\ e.point <= e.len
    /\ e.req = p.req
    /\ p.got = [i \in 1 .. e.point |-> i]

\* A call waits with a handle that was given; before it has found a status line
\* it has none, and only empty lines.
Waiting == {"write", "head", "body"}
CallSound(w, given1) ==
    /\ w.stage \in Waiting => w.fd \in 1 .. given1
    /\ w.stage = "head" => w.status = "0" /\ \A i \in DOMAIN w.buffer : w.buffer[i] = "eol"

\* The answers 200 that are on the wire; the calls that have taken one off it.
Oks(wire) == {i \in 1 .. Len(wire) : wire[i] = "200"}
Count(wire) == Cardinality(Oks(wire))
Unread(h) == IF h \in DOMAIN ansCtx["ipfs"] THEN Count(ansCtx["ipfs"][h].wire) ELSE 0
Takes(w, h) == w.stage = "body" /\ w.status = "200" /\ w.fd = h
Takers(h) == {c \in Callers : Takes(ansCall[c], h)}

\* Each answer 200 of the daemon is on the wire, with one call, reported or lost.
Accounted(h) ==
    /\ IsFiniteSet(Takers(h))
    /\ ansPast["ipfs"][h].oks + Cardinality(Takers(h)) + Unread(h) <= ansPast["ipfs"][h].accepted

AnsShape ==
    /\ ansTop \in [Services -> Nat]
    /\ ansMade \in 0 .. MaxCalls
    /\ ansCall \in [Callers -> AnswerCalls]
    /\ DOMAIN ansCtx = Services
    /\ ansPast \in [Services -> Seq(Pasts)]
    /\ \A s \in Services : Len(ansPast[s]) = ansTop[s]

AnsHeld ==
    \A s \in Services :
        /\ DOMAIN ansCtx[s] \subseteq 1 .. ansTop[s]
        /\ \A h \in DOMAIN ansCtx[s] : AnswerHeld(ansCtx[s][h], ansPast[s][h])

AnsInv ==
    /\ AnsShape
    /\ AnsHeld
    /\ \A c \in Callers : CallSound(ansCall[c], ansTop["ipfs"])
    /\ \A h \in 1 .. ansTop["ipfs"] : Accounted(h)

LEMMA ServiceNames == "ipfs" \in Services /\ \A s \in Services : s \in {"ipfs", "s3"}
BY DEF Services

\* How many answers 200 a wire has: an answer adds its own, and what a read takes
\* is not there any more.
LEMMA CountNat ==
    ASSUME NEW wire \in Seq(Tokens)
    PROVE  IsFiniteSet(Oks(wire)) /\ Count(wire) \in Nat
<1>1. IsFiniteSet(1 .. Len(wire))
  BY FS_Interval
<1>2. Oks(wire) \in SUBSET (1 .. Len(wire))
  BY DEF Oks
<1> QED
  BY <1>1, <1>2, FS_Subset, FS_CardinalityType DEF Count

LEMMA CountEmpty == Count(<<>>) = 0
<1>1. Oks(<<>>) = {}
  BY DEF Oks
<1> QED
  BY <1>1, FS_EmptySet DEF Count

LEMMA CountGrows ==
    ASSUME NEW wire \in Seq(Tokens), NEW status \in Statuses, NEW form \in Forms
    PROVE  /\ wire \o <<status>> \o form \in Seq(Tokens)
           /\ Count(wire \o <<status>> \o form) = Count(wire) + (IF status = "200" THEN 1 ELSE 0)
<1> DEFINE longer == wire \o <<status>> \o form
           n == Len(wire)
<1>1. form \in Seq(Tokens) /\ \A i \in 1 .. Len(form) : form[i] # "200"
  <2>1. CASE form = <<"size", "half", "half", "eol", "last">>
    BY <2>1 DEF Tokens
  <2>2. CASE form = <<"last">>
    BY <2>2 DEF Tokens
  <2>3. CASE form = <<>>
    BY <2>3
  <2> QED
    BY <2>1, <2>2, <2>3 DEF Forms
<1>2. <<status>> \in Seq(Tokens) /\ Len(<<status>>) = 1 /\ <<status>>[1] = status
  BY DEF Tokens
<1>3. n \in Nat /\ Len(form) \in Nat
  BY <1>1, LenProperties
<1>4. /\ wire \o <<status>> \in Seq(Tokens)
      /\ Len(wire \o <<status>>) = n + 1
      /\ \A i \in 1 .. n : (wire \o <<status>>)[i] = wire[i]
      /\ (wire \o <<status>>)[n + 1] = status
  BY <1>2, <1>3, ConcatProperties
<1>5. /\ longer \in Seq(Tokens) /\ Len(longer) = n + 1 + Len(form)
      /\ \A i \in 1 .. n : longer[i] = wire[i]
      /\ longer[n + 1] = status
      /\ \A i \in n + 2 .. Len(longer) : longer[i] = form[i - (n + 1)]
  BY <1>1, <1>3, <1>4, ConcatProperties
<1> HIDE DEF longer
<1>6. Oks(longer) = IF status = "200" THEN Oks(wire) \cup {n + 1} ELSE Oks(wire)
  <2>1. \A i \in n + 2 .. Len(longer) : longer[i] # "200"
    BY <1>1, <1>3, <1>5, SMTT(20)
  <2> HIDE DEF n
  <2> QED
    BY <1>3, <1>5, <2>1 DEF Oks, n
<1>7. n + 1 \notin Oks(wire)
  BY <1>3 DEF Oks
<1>8. Count(longer) = Count(wire) + (IF status = "200" THEN 1 ELSE 0)
  <2>1. CASE status = "200"
    <3>1. Cardinality(Oks(wire) \cup {n + 1}) = Cardinality(Oks(wire)) + 1
      BY <1>7, CountNat, FS_AddElement
    <3> QED
      BY <1>6, <2>1, <3>1 DEF Count
  <2>2. CASE status # "200"
    BY <1>6, <2>2, CountNat DEF Count
  <2> QED
    BY <2>1, <2>2
<1> QED
  BY <1>5, <1>8 DEF longer

LEMMA CountDrops ==
    ASSUME NEW wire \in Seq(Tokens), NEW n \in 1 .. Len(wire)
    PROVE  LET rest == SubSeq(wire, n + 1, Len(wire))
           IN  /\ rest \in Seq(Tokens)
               /\ Count(rest) <= Count(wire)
               /\ \A i \in 1 .. n : wire[i] = "200" => Count(rest) + 1 <= Count(wire)
<1> DEFINE rest == SubSeq(wire, n + 1, Len(wire))
           f == [j \in Oks(rest) |-> j + n]
<1>1. Len(wire) \in Nat /\ \A i \in 1 .. Len(wire) : wire[i] \in Tokens
  BY LenProperties, ElementOfSeq
<1>2. /\ rest \in Seq(Tokens) /\ Len(rest) = Len(wire) - n
      /\ \A j \in 1 .. Len(rest) : rest[j] = wire[n + j]
  BY <1>1, SubSeqProperties
<1> HIDE DEF rest
<1>3. \A j \in Oks(rest) : j \in Nat /\ f[j] = j + n /\ f[j] \in Oks(wire) /\ f[j] > n
  BY <1>1, <1>2 DEF Oks
<1>4. f \in Injection(Oks(rest), Oks(wire))
  <2>1. f \in [Oks(rest) -> Oks(wire)]
    BY <1>3
  <2>2. \A j, k \in Oks(rest) : f[j] = f[k] => j = k
    BY <1>3
  <2> QED
    BY <2>1, <2>2 DEF Injection, IsInjective
<1>5. ASSUME NEW i \in 1 .. n, wire[i] = "200" PROVE Count(rest) + 1 <= Count(wire)
  <2>1. i \in Oks(wire)
    BY <1>1, <1>5 DEF Oks
  <2>2. f \notin Surjection(Oks(rest), Oks(wire))
    <3>1. \A j \in Oks(rest) : f[j] # i
      BY <1>3
    <3> HIDE DEF f
    <3> QED
      BY <2>1, <3>1 DEF Surjection
  <2> QED
    BY <1>2, <1>4, <2>2, CountNat, FS_Injection DEF Count
<1>6. Count(rest) <= Count(wire)
  BY <1>4, CountNat, FS_Injection DEF Count
<1> QED
  BY <1>2, <1>5, <1>6 DEF rest

\* One call of the ipfs or the s3 driver changes: who has an answer 200 in hand.
LEMMA TakersMove ==
    ASSUME AnsShape, NEW c \in Callers, NEW w, ansCall' = [ansCall EXCEPT ![c] = w],
           NEW h, IsFiniteSet(Takers(h))
    PROVE  /\ IsFiniteSet(Takers(h)') /\ Cardinality(Takers(h)') \in Nat
           /\ Takes(w, h) => Takers(h)' = Takers(h) \cup {c}
           /\ ~Takes(w, h) => Takers(h)' = Takers(h) \ {c}
           /\ Takes(w, h) /\ ~Takes(ansCall[c], h) => Cardinality(Takers(h)') = Cardinality(Takers(h)) + 1
           /\ ~Takes(w, h) /\ Takes(ansCall[c], h) => Cardinality(Takers(h)') + 1 = Cardinality(Takers(h))
           /\ (Takes(w, h) => Takes(ansCall[c], h)) => Cardinality(Takers(h)') <= Cardinality(Takers(h))
<1>1. ansCall'[c] = w /\ \A d \in Callers : d # c => ansCall'[d] = ansCall[d]
  BY DEF AnsShape
<1>2. Takes(w, h) => Takers(h)' = Takers(h) \cup {c}
  BY <1>1 DEF Takers, Takes
<1>3. ~Takes(w, h) => Takers(h)' = Takers(h) \ {c}
  BY <1>1 DEF Takers, Takes
<1>4. c \in Takers(h) <=> Takes(ansCall[c], h)
  BY DEF Takers
<1>5. Cardinality(Takers(h)) \in Nat
  BY FS_CardinalityType
<1>6. /\ IsFiniteSet(Takers(h) \cup {c})
      /\ Cardinality(Takers(h) \cup {c}) = IF c \in Takers(h) THEN Cardinality(Takers(h)) ELSE Cardinality(Takers(h)) + 1
  BY FS_AddElement
<1>7. /\ IsFiniteSet(Takers(h) \ {c})
      /\ Cardinality(Takers(h) \ {c}) = IF c \in Takers(h) THEN Cardinality(Takers(h)) - 1 ELSE Cardinality(Takers(h))
  BY FS_RemoveElement
<1>8. IsFiniteSet(Takers(h)')
  BY <1>2, <1>3, <1>6, <1>7
<1>9. Cardinality(Takers(h)') \in Nat
  BY <1>8, FS_CardinalityType
<1>10. CASE Takes(w, h)
  <2>1. Takers(h)' = Takers(h) \cup {c}
    BY <1>2, <1>10
  <2>2. Cardinality(Takers(h)') = IF c \in Takers(h) THEN Cardinality(Takers(h)) ELSE Cardinality(Takers(h)) + 1
    BY <1>6, <2>1
  <2> QED
    BY <1>4, <1>5, <1>8, <1>9, <1>10, <2>1, <2>2
<1>11. CASE ~Takes(w, h)
  <2>1. Takers(h)' = Takers(h) \ {c}
    BY <1>3, <1>11
  <2>2. Cardinality(Takers(h)') = IF c \in Takers(h) THEN Cardinality(Takers(h)) - 1 ELSE Cardinality(Takers(h))
    BY <1>7, <2>1
  <2> QED
    BY <1>4, <1>5, <1>8, <1>9, <1>11, <2>1, <2>2
<1> QED
  BY <1>10, <1>11

\* What a wire, the counters and the callers are in states that are sound.
LEMMA AnsNumbers ==
    ASSUME AnsInv, NEW h \in 1 .. ansTop["ipfs"]
    PROVE  /\ ansPast["ipfs"][h] \in Pasts
           /\ ansPast["ipfs"][h].oks \in Nat /\ ansPast["ipfs"][h].accepted \in Nat
           /\ Unread(h) \in Nat
           /\ IsFiniteSet(Takers(h)) /\ Cardinality(Takers(h)) \in Nat
<1>1. /\ ansPast["ipfs"] \in Seq(Pasts) /\ Len(ansPast["ipfs"]) = ansTop["ipfs"]
  BY ServiceNames DEF AnsInv, AnsShape
<1>2. ansPast["ipfs"][h] \in Pasts
  BY <1>1, ElementOfSeq
<1>3. ansPast["ipfs"][h].oks \in Nat /\ ansPast["ipfs"][h].accepted \in Nat
  BY <1>2 DEF Pasts
<1>4. h \in DOMAIN ansCtx["ipfs"] => ansCtx["ipfs"][h].wire \in Seq(Tokens)
  BY ServiceNames DEF AnsInv, AnsHeld, AnswerHeld, AnswerEntries
<1>5. Unread(h) \in Nat
  BY <1>4, CountNat DEF Unread
<1>6. IsFiniteSet(Takers(h)) /\ Cardinality(Takers(h)) \in Nat
  BY FS_CardinalityType DEF AnsInv, Accounted
<1> QED
  BY <1>2, <1>3, <1>5, <1>6

\* What changes in a step is one call only, which takes no answer in hand.
LEMMA CallStep ==
    ASSUME AnsInv, NEW c \in Callers, NEW w \in AnswerCalls, ansCall' = [ansCall EXCEPT ![c] = w],
           UNCHANGED <<ansCtx, ansTop, ansPast>>, ansMade' \in 0 .. MaxCalls,
           CallSound(w, ansTop["ipfs"]), \A h : Takes(w, h) => Takes(ansCall[c], h)
    PROVE  AnsInv'
<1>1. AnsShape /\ AnsHeld
  BY DEF AnsInv
<1>2. AnsShape' /\ AnsHeld'
  BY <1>1 DEF AnsShape, AnsHeld
<1>3. \A d \in Callers : CallSound(ansCall[d], ansTop["ipfs"])'
  BY <1>1 DEF AnsInv, AnsShape
<1>4. ASSUME NEW h \in 1 .. ansTop["ipfs"] PROVE Accounted(h)'
  <2>1. /\ IsFiniteSet(Takers(h)') /\ Cardinality(Takers(h)') \in Nat
        /\ Cardinality(Takers(h)') <= Cardinality(Takers(h))
    BY <1>1, AnsNumbers, TakersMove
  <2>2. Unread(h)' = Unread(h)
    BY DEF Unread
  <2>3. Accounted(h)
    BY DEF AnsInv
  <2> QED
    BY <2>1, <2>2, <2>3, AnsNumbers DEF Accounted
<1> QED
  BY <1>2, <1>3, <1>4 DEF AnsInv

\* One handle of the map changes, or comes into it.
LEMMA PutIs ==
    ASSUME DOMAIN ansCtx = Services, NEW s \in Services, NEW h, NEW e, ansCtx' = PutAnswer(s, h, e)
    PROVE  /\ DOMAIN ansCtx' = Services
           /\ \A t \in Services : t # s => ansCtx'[t] = ansCtx[t]
           /\ DOMAIN ansCtx'[s] = DOMAIN ansCtx[s] \cup {h}
           /\ ansCtx'[s][h] = e
           /\ \A x \in DOMAIN ansCtx[s] : x # h => ansCtx'[s][x] = ansCtx[s][x]
<1> DEFINE m == [x \in DOMAIN ansCtx[s] \cup {h} |-> IF x = h THEN e ELSE ansCtx[s][x]]
<1>1. ansCtx' = [ansCtx EXCEPT ![s] = m]
  BY DEF PutAnswer
<1>2. /\ DOMAIN m = DOMAIN ansCtx[s] \cup {h} /\ m[h] = e
      /\ \A x \in DOMAIN ansCtx[s] : x # h => m[x] = ansCtx[s][x]
  OBVIOUS
<1> HIDE DEF m
<1>3. ansCtx'[s] = m /\ \A t \in Services : t # s => ansCtx'[t] = ansCtx[t]
  BY <1>1
<1> QED
  BY <1>1, <1>2, <1>3

LEMMA AnsIdleCalls ==
    /\ AnswerIdle \in AnswerCalls /\ AnswerGone \in AnswerCalls
    /\ \A k : CallSound(AnswerIdle, k) /\ CallSound(AnswerGone, k)
    /\ \A h : ~Takes(AnswerIdle, h) /\ ~Takes(AnswerGone, h)
<1>1. "ipfs" \in Services /\ <<>> \in Seq(Tokens)
  BY ServiceNames
<1>2. AnswerIdle \in AnswerCalls
  BY <1>1 DEF AnswerIdle, AnswerCalls, AnswerStages
<1>3. AnswerGone \in AnswerCalls /\ AnswerGone.stage = "gone" /\ AnswerIdle.stage = "idle"
  BY <1>2 DEF AnswerGone, AnswerIdle, AnswerCalls, AnswerStages
<1> QED
  BY <1>2, <1>3 DEF CallSound, Takes, Waiting

LEMMA BeginIs ==
    ASSUME AnsInv, NEW c \in Callers, AnswerBegin(c)
    PROVE  ansCall[c] = AnswerIdle /\ ansMade' = ansMade + 1 /\ ansMade' \in 1 .. MaxCalls
BY HandleAssumption DEF AnswerBegin, AnsInv, AnsShape

\* The steps that change one call, or none.
LEMMA CallSteps ==
    ASSUME AnsInv, NEW c \in Callers,
           \/ Refused(c) \/ SendFails(c) \/ Fails(c) \/ Dangling(c)
           \/ HeadEnds(c) \/ Spins(c) \/ RawChunk(c)
           \/ \E s \in Services : Send(c, s) \/ \E h \in AnswerHandles : AnswerInvalid(c, s, h)
           \/ \E h \in AnswerHandles : RawWrite(c, h) \/ RawRead(c, h)
    PROVE  AnsInv'
<1>1. AnsShape /\ ansCall[c] \in AnswerCalls /\ CallSound(ansCall[c], ansTop["ipfs"])
  BY DEF AnsInv, AnsShape
<1>2. ansMade \in 0 .. MaxCalls
  BY <1>1 DEF AnsShape
<1>3. CASE Refused(c) \/ \E s \in Services, h \in AnswerHandles : AnswerInvalid(c, s, h)
  <2>1. UNCHANGED <<ansCtx, ansTop, ansPast, ansCall>> /\ AnswerBegin(c)
    BY <1>3 DEF Refused, AnswerInvalid
  <2>2. ansCall' = [ansCall EXCEPT ![c] = ansCall[c]]
    BY <1>1, <2>1 DEF AnsShape
  <2>3. ansMade' \in 0 .. MaxCalls
    BY <2>1, BeginIs
  <2> QED
    BY <1>1, <2>1, <2>2, <2>3, CallStep
<1>4. CASE SendFails(c) \/ Fails(c)
  BY <1>2, <1>4, AnsIdleCalls, CallStep DEF SendFails, Fails, End
<1>5. CASE Dangling(c)
  BY <1>2, <1>5, AnsIdleCalls, CallStep DEF Dangling
<1>6. ASSUME NEW s \in Services, Send(c, s) PROVE AnsInv'
  <2> DEFINE w == [AnswerIdle EXCEPT !.stage = "send", !.service = s, !.req = ansMade']
  <2>1. ansCall' = [ansCall EXCEPT ![c] = w] /\ UNCHANGED <<ansCtx, ansTop, ansPast>> /\ AnswerBegin(c)
    BY <1>6 DEF Send
  <2>2. ansMade' \in Nat
    BY <2>1, BeginIs, HandleAssumption
  <2>3. w \in AnswerCalls /\ w.stage = "send"
    BY <2>2, AnsIdleCalls DEF AnswerCalls, AnswerStages, AnswerIdle
  <2> HIDE DEF w
  <2>4. CallSound(w, ansTop["ipfs"]) /\ \A h : ~Takes(w, h)
    BY <2>3 DEF CallSound, Takes, Waiting
  <2>5. ansMade' \in 0 .. MaxCalls
    BY <2>1, BeginIs
  <2> QED
    BY <2>1, <2>3, <2>4, <2>5, CallStep
<1>7. ASSUME NEW h \in AnswerHandles, NEW stage \in {"write", "head"}, Wait(c, stage, h) PROVE AnsInv'
  <2> DEFINE w == [AnswerIdle EXCEPT !.stage = stage, !.fd = h]
  <2>1. /\ ansCall' = [ansCall EXCEPT ![c] = w] /\ UNCHANGED <<ansCtx, ansTop, ansPast>> /\ AnswerBegin(c)
        /\ h \in DOMAIN ansCtx["ipfs"]
    BY <1>7 DEF Wait, Holds
  <2>2. h \in 1 .. ansTop["ipfs"] /\ h \in Nat
    BY <2>1, ServiceNames DEF AnsInv, AnsHeld
  <2>3. w \in AnswerCalls /\ w.stage = stage /\ w.fd = h /\ w.status = "0" /\ w.buffer = <<>>
    <3>1. stage \in AnswerStages /\ AnswerIdle.status = "0" /\ AnswerIdle.buffer = <<>>
      BY <1>7 DEF AnswerStages, AnswerIdle
    <3> QED
      BY <2>2, <3>1, AnsIdleCalls DEF AnswerCalls
  <2> HIDE DEF w
  <2>4. CallSound(w, ansTop["ipfs"]) /\ \A g : ~Takes(w, g)
    BY <1>7, <2>2, <2>3 DEF CallSound, Takes, Waiting
  <2>5. ansMade' \in 0 .. MaxCalls
    BY <2>1, BeginIs
  <2> QED
    BY <2>1, <2>3, <2>4, <2>5, CallStep
<1>8. CASE HeadEnds(c) \/ Spins(c)
  <2>1. PICK stage \in {"body", "spin"} :
           /\ ansCall' = [ansCall EXCEPT ![c] = [ansCall[c] EXCEPT !.stage = stage]]
           /\ UNCHANGED <<ansCtx, ansTop, ansMade, ansPast>>
           /\ stage = "body" => ansCall[c].stage = "head"
    BY <1>1, <1>8 DEF HeadEnds, Spins
  <2> DEFINE v == [ansCall[c] EXCEPT !.stage = stage]
  <2>2. v \in AnswerCalls /\ v.stage = stage /\ v.fd = ansCall[c].fd /\ v.status = ansCall[c].status
    BY <1>1, <2>1 DEF AnswerCalls, AnswerStages
  <2>3. ansCall' = [ansCall EXCEPT ![c] = v]
    BY <2>1
  <2> HIDE DEF v
  <2>4. CallSound(v, ansTop["ipfs"]) /\ \A g : ~Takes(v, g)
    BY <1>1, <2>1, <2>2 DEF CallSound, Takes, Waiting
  <2> QED
    BY <1>2, <2>1, <2>2, <2>3, <2>4, CallStep
<1>9. CASE RawChunk(c)
  <2>1. /\ UNCHANGED <<ansCtx, ansTop, ansMade, ansPast>> /\ ansCall[c].stage = "body"
        /\ \/ ansCall' = [ansCall EXCEPT ![c] = AnswerGone]
           \/ \E used \in {3, 4} : ansCall' = [ansCall EXCEPT ![c] =
                 [ansCall[c] EXCEPT !.buffer = SubSeq(ansCall[c].buffer, used + 1, Len(ansCall[c].buffer))]]
    BY <1>1, <1>9 DEF RawChunk, AnsShape
  <2>2. CASE ansCall' = [ansCall EXCEPT ![c] = AnswerGone]
    BY <1>2, <2>1, <2>2, AnsIdleCalls, CallStep
  <2>3. ASSUME NEW used \in {3, 4}, ansCall' = [ansCall EXCEPT ![c] =
                 [ansCall[c] EXCEPT !.buffer = SubSeq(ansCall[c].buffer, used + 1, Len(ansCall[c].buffer))]]
        PROVE  AnsInv'
    <3> DEFINE rest == SubSeq(ansCall[c].buffer, used + 1, Len(ansCall[c].buffer))
               w == [ansCall[c] EXCEPT !.buffer = rest]
    <3>1. ansCall[c].buffer \in Seq(Tokens)
      BY <1>1 DEF AnswerCalls
    <3>2. rest \in Seq(Tokens)
      BY <3>1, LenProperties, ElementOfSeq, SubSeqProperties
    <3> HIDE DEF rest
    <3>3. w \in AnswerCalls /\ w.stage = "body" /\ w.fd = ansCall[c].fd /\ w.status = ansCall[c].status
      BY <1>1, <2>1, <3>2 DEF AnswerCalls
    <3>4. ansCall' = [ansCall EXCEPT ![c] = w]
      BY <2>3 DEF rest
    <3> HIDE DEF w
    <3>5. CallSound(w, ansTop["ipfs"]) /\ \A h : Takes(w, h) => Takes(ansCall[c], h)
      BY <1>1, <2>1, <3>3 DEF CallSound, Takes, Waiting
    <3> QED
      BY <1>2, <2>1, <3>3, <3>4, <3>5, CallStep
  <2> QED
    BY <2>1, <2>2, <2>3
<1>10. ASSUME NEW h \in AnswerHandles, RawWrite(c, h) \/ RawRead(c, h) PROVE AnsInv'
  BY <1>7, <1>10 DEF RawWrite, RawRead
<1> QED
  BY <1>3, <1>4, <1>5, <1>6, <1>8, <1>9, <1>10

\* An entry and what is known of its handle change together.
LEMMA PutHeld ==
    ASSUME AnsInv, NEW s \in Services, NEW h \in DOMAIN ansCtx[s], NEW e, NEW p \in Pasts,
           ansCtx' = PutAnswer(s, h, e), ansPast' = [ansPast EXCEPT ![s][h] = p], UNCHANGED ansTop,
           AnswerHeld(e, p)
    PROVE  /\ AnsHeld' /\ DOMAIN ansCtx' = Services
           /\ ansPast' \in [Services -> Seq(Pasts)]
           /\ \A t \in Services : Len(ansPast'[t]) = ansTop'[t]
           /\ ansPast'[s][h] = p
           /\ s = "ipfs" => h \in 1 .. ansTop["ipfs"] /\ Unread(h)' = Count(e.wire)
           /\ \A x \in 1 .. ansTop["ipfs"] : s # "ipfs" \/ x # h =>
                 ansPast'["ipfs"][x] = ansPast["ipfs"][x] /\ Unread(x)' = Unread(x)
<1>1. /\ AnsShape /\ DOMAIN ansCtx = Services /\ AnsHeld
      /\ ansPast \in [Services -> Seq(Pasts)]
      /\ \A t \in Services : Len(ansPast[t]) = ansTop[t]
  BY DEF AnsInv, AnsShape
<1>2. /\ DOMAIN ansCtx' = Services
      /\ \A t \in Services : t # s => ansCtx'[t] = ansCtx[t]
      /\ DOMAIN ansCtx'[s] = DOMAIN ansCtx[s]
      /\ ansCtx'[s][h] = e
      /\ \A x \in DOMAIN ansCtx[s] : x # h => ansCtx'[s][x] = ansCtx[s][x]
  <2>1. DOMAIN ansCtx[s] \cup {h} = DOMAIN ansCtx[s]
    OBVIOUS
  <2>2. /\ DOMAIN ansCtx' = Services
        /\ \A t \in Services : t # s => ansCtx'[t] = ansCtx[t]
        /\ DOMAIN ansCtx'[s] = DOMAIN ansCtx[s] \cup {h}
        /\ ansCtx'[s][h] = e
        /\ \A x \in DOMAIN ansCtx[s] : x # h => ansCtx'[s][x] = ansCtx[s][x]
    BY <1>1, PutIs
  <2> QED
    BY <2>1, <2>2
<1>3. h \in 1 .. Len(ansPast[s])
  BY <1>1 DEF AnsHeld
<1>4. /\ [ansPast[s] EXCEPT ![h] = p] \in Seq(Pasts)
      /\ Len([ansPast[s] EXCEPT ![h] = p]) = Len(ansPast[s])
      /\ \A j \in 1 .. Len(ansPast[s]) : [ansPast[s] EXCEPT ![h] = p][j] = IF j = h THEN p ELSE ansPast[s][j]
  BY <1>1, <1>3, ExceptSeq
<1>5. ansPast'[s] = [ansPast[s] EXCEPT ![h] = p] /\ \A t \in Services : t # s => ansPast'[t] = ansPast[t]
  BY <1>1
<1>6. /\ ansPast' \in [Services -> Seq(Pasts)]
      /\ \A t \in Services : Len(ansPast'[t]) = ansTop'[t]
  BY <1>1, <1>4, <1>5
<1>7. ansPast'[s][h] = p /\ \A x \in 1 .. Len(ansPast[s]) : x # h => ansPast'[s][x] = ansPast[s][x]
  BY <1>3, <1>4, <1>5
<1>8. AnsHeld'
  <2>1. ASSUME NEW t \in Services, NEW x \in DOMAIN ansCtx'[t]
        PROVE  AnswerHeld(ansCtx'[t][x], ansPast'[t][x]) /\ x \in 1 .. ansTop[t]
    <3>1. CASE t # s
      BY <1>1, <1>2, <1>5, <2>1, <3>1 DEF AnsHeld
    <3>2. CASE t = s /\ x # h
      BY <1>1, <1>2, <1>7, <2>1, <3>2 DEF AnsHeld
    <3>3. CASE t = s /\ x = h
      BY <1>1, <1>2, <1>3, <1>7, <3>3
    <3> QED
      BY <3>1, <3>2, <3>3
  <2> QED
    BY <2>1 DEF AnsHeld
<1>9. s = "ipfs" => h \in 1 .. ansTop["ipfs"] /\ Unread(h)' = Count(e.wire)
  BY <1>1, <1>2, <1>3 DEF Unread, Count, Oks
<1>10. ASSUME NEW x \in 1 .. ansTop["ipfs"], s # "ipfs" \/ x # h
       PROVE  ansPast'["ipfs"][x] = ansPast["ipfs"][x] /\ Unread(x)' = Unread(x)
  <2>1. CASE s # "ipfs"
    BY <1>2, <1>5, <2>1, ServiceNames, ZenonT(30) DEF Unread, Count, Oks
  <2>2. CASE s = "ipfs" /\ x # h
    BY <1>1, <1>2, <1>7, <2>2 DEF Unread, Count, Oks
  <2> QED
    BY <1>10, <2>1, <2>2
<1> QED
  BY <1>2, <1>6, <1>7, <1>8, <1>9, <1>10

\* A handle whose numbers do not grow stays accounted for.
LEMMA StaysAccounted ==
    ASSUME AnsInv, NEW x \in 1 .. ansTop["ipfs"],
           ansPast'["ipfs"][x] = ansPast["ipfs"][x], Unread(x)' \in Nat, Unread(x)' <= Unread(x),
           IsFiniteSet(Takers(x)'), Cardinality(Takers(x)') \in Nat,
           Cardinality(Takers(x)') <= Cardinality(Takers(x))
    PROVE  Accounted(x)'
<1>1. Accounted(x)
  BY DEF AnsInv
<1> QED
  BY <1>1, AnsNumbers DEF Accounted

\* The calls when one of them changes.
LEMMA CallsMove ==
    ASSUME AnsInv, NEW c \in Callers, NEW w \in AnswerCalls, ansCall' = [ansCall EXCEPT ![c] = w],
           ansTop'["ipfs"] \in Nat, ansTop["ipfs"] <= ansTop'["ipfs"], CallSound(w, ansTop'["ipfs"])
    PROVE  /\ ansCall' \in [Callers -> AnswerCalls]
           /\ \A d \in Callers : CallSound(ansCall'[d], ansTop'["ipfs"])
<1>1. /\ ansCall \in [Callers -> AnswerCalls] /\ ansTop["ipfs"] \in Nat
      /\ \A d \in Callers : CallSound(ansCall[d], ansTop["ipfs"])
  BY ServiceNames DEF AnsInv, AnsShape
<1>2. /\ ansCall' \in [Callers -> AnswerCalls] /\ ansCall'[c] = w
      /\ \A d \in Callers : d # c => ansCall'[d] = ansCall[d]
  BY <1>1
<1>3. \A d \in Callers : CallSound(ansCall[d], ansTop'["ipfs"])
  BY <1>1 DEF CallSound
<1> QED
  BY <1>2, <1>3

\* The numbers from 1 on, in order.
LEMMA Numbered ==
    ASSUME NEW k \in Nat, NEW n \in 0 .. k
    PROVE  [i \in 1 .. n |-> i] \in Seq(1 .. k) /\ Len([i \in 1 .. n |-> i]) = n
OBVIOUS

LEMMA Counting ==
    ASSUME NEW m \in Nat, NEW n \in Nat
    PROVE  [i \in 1 .. m |-> i] \o [i \in 1 .. n |-> m + i] = [i \in 1 .. m + n |-> i]
<1> DEFINE a == [i \in 1 .. m |-> i]
           b == [i \in 1 .. n |-> m + i]
           ab == [i \in 1 .. m + n |-> i]
<1>1. /\ a \in Seq(Nat) /\ Len(a) = m /\ b \in Seq(Nat) /\ Len(b) = n
      /\ ab \in Seq(Nat) /\ Len(ab) = m + n
  OBVIOUS
<1>2. /\ \A i \in 1 .. m : a[i] = i
      /\ \A i \in 1 .. n : b[i] = m + i
      /\ \A i \in 1 .. m + n : ab[i] = i
  OBVIOUS
<1> HIDE DEF a, b, ab
<1>3. /\ a \o b \in Seq(Nat) /\ Len(a \o b) = m + n
      /\ \A i \in 1 .. m + n : (a \o b)[i] = IF i <= m THEN a[i] ELSE b[i - m]
  BY <1>1, ConcatProperties
<1>4. \A i \in 1 .. m + n : (a \o b)[i] = ab[i]
  BY <1>2, <1>3, SMTT(20)
<1> QED
  BY <1>1, <1>3, <1>4, SeqEqual DEF a, b, ab

\* A read gives the next bytes, and moves the read point behind them.
LEMMA AnsReadKeeps ==
    ASSUME AnsInv, NEW c \in Callers, NEW s \in Services, NEW h \in AnswerHandles,
           NEW room \in Sizes, Read(c, s, h, room)
    PROVE  AnsInv'
<1> DEFINE e == ansCtx[s][h]
           remain == e.len - e.point
           size == IF remain <= room THEN remain ELSE room
           f == [e EXCEPT !.point = IF size > 0 THEN e.point + size ELSE e.point]
           old == ansPast[s][h]
           p == [old EXCEPT !.got = old.got \o [i \in 1 .. size |-> e.point + i]]
<1>1. /\ AnswerBegin(c) /\ h \in DOMAIN ansCtx[s] /\ UNCHANGED <<ansTop, ansCall>>
      /\ ansCtx' = PutAnswer(s, h, f)
  BY DEF Read, Holds, PointAfter
<1>2. /\ AnswerHeld(e, old) /\ h \in 1 .. ansTop[s]
      /\ ansPast[s] \in Seq(Pasts) /\ Len(ansPast[s]) = ansTop[s]
      /\ ansPast \in [Services -> Seq(Pasts)]
  BY <1>1 DEF AnsInv, AnsHeld, AnsShape
<1>3. ansPast' = [ansPast EXCEPT ![s][h] = p]
  <2>1. ansPast' = [ansPast EXCEPT ![s][h].got = @ \o [i \in 1 .. size |-> e.point + i]]
    BY DEF Read
  <2>2. DOMAIN ansPast[s] = 1 .. Len(ansPast[s])
    BY <1>2
  <2> HIDE DEF size
  <2> QED
    BY <1>2, <2>1, <2>2
<1>4. old \in Pasts
  BY <1>2, ElementOfSeq
<1>5. /\ e \in AnswerEntries /\ e.point \in Nat /\ e.len \in 0 .. Length /\ e.point <= e.len
      /\ old.got = [i \in 1 .. e.point |-> i] /\ e.req = old.req
  BY <1>2, HandleAssumption DEF AnswerHeld, AnswerEntries
<1>6. size \in 0 .. e.len - e.point
  <2>1. room \in Nat
    BY HandleAssumption
  <2> QED
    BY <1>5, <2>1
<1> HIDE DEF size
<1>7. old.got \o [i \in 1 .. size |-> e.point + i] = [i \in 1 .. e.point + size |-> i]
  <2>1. e.point \in Nat /\ size \in Nat
    BY <1>5, <1>6
  <2> HIDE DEF e, old
  <2>2. [i \in 1 .. e.point |-> i] \o [i \in 1 .. size |-> e.point + i] = [i \in 1 .. e.point + size |-> i]
    BY <2>1, Counting
  <2> QED
    BY <1>5, <2>2
<1>8. [i \in 1 .. e.point + size |-> i] \in Seq(1 .. Length)
  <2>1. e.point + size \in 0 .. Length
    BY <1>5, <1>6, HandleAssumption, SMTT(20)
  <2> QED
    BY <2>1, Numbered, HandleAssumption
<1>9. p \in Pasts /\ p.req = old.req /\ p.got = [i \in 1 .. e.point + size |-> i]
      /\ p.oks = old.oks /\ p.accepted = old.accepted
  BY <1>4, <1>7, <1>8 DEF Pasts
<1>10. f \in AnswerEntries /\ f.point = e.point + size /\ f.len = e.len /\ f.req = e.req /\ f.wire = e.wire
  <2>1. (IF size > 0 THEN e.point + size ELSE e.point) = e.point + size /\ e.point + size \in 0 .. Length
    <3> HIDE DEF e
    <3> QED
      BY <1>5, <1>6, HandleAssumption
  <2> QED
    BY <1>5, <2>1 DEF AnswerEntries
<1>11. AnswerHeld(f, p)
  <2> HIDE DEF e, f, p, old
  <2>1. f.point <= f.len
    BY <1>5, <1>6, <1>10
  <2> QED
    BY <1>5, <1>9, <1>10, <2>1 DEF AnswerHeld
<1> HIDE DEF f, p
<1>12. /\ AnsHeld' /\ DOMAIN ansCtx' = Services
       /\ ansPast' \in [Services -> Seq(Pasts)]
       /\ \A t \in Services : Len(ansPast'[t]) = ansTop'[t]
       /\ ansPast'[s][h] = p
       /\ s = "ipfs" => h \in 1 .. ansTop["ipfs"] /\ Unread(h)' = Count(f.wire)
       /\ \A x \in 1 .. ansTop["ipfs"] : s # "ipfs" \/ x # h =>
             ansPast'["ipfs"][x] = ansPast["ipfs"][x] /\ Unread(x)' = Unread(x)
  BY <1>1, <1>3, <1>9, <1>11, PutHeld
<1>13. AnsShape'
  BY <1>1, <1>12, BeginIs DEF AnsInv, AnsShape
<1>14. \A d \in Callers : CallSound(ansCall[d], ansTop["ipfs"])'
  BY <1>1 DEF AnsInv
<1>15. ASSUME NEW x \in 1 .. ansTop["ipfs"] PROVE Accounted(x)'
  <2>1. Takers(x)' = Takers(x)
    BY <1>1 DEF Takers
  <2>2. Unread(x)' = Unread(x)
    <3>1. s = "ipfs" => Unread(h) = Count(e.wire)
      BY <1>1 DEF Unread
    <3> QED
      BY <1>10, <1>12, <3>1
  <2>3. ansPast'["ipfs"][x].oks = ansPast["ipfs"][x].oks /\ ansPast'["ipfs"][x].accepted = ansPast["ipfs"][x].accepted
    BY <1>9, <1>12
  <2>4. Accounted(x)
    BY DEF AnsInv
  <2> QED
    BY <2>1, <2>2, <2>3, <2>4 DEF Accounted
<1> QED
  BY <1>1, <1>12, <1>13, <1>14, <1>15 DEF AnsInv

\* A step on one raw connection.
LEMMA WireStep ==
    ASSUME AnsInv, NEW h \in DOMAIN ansCtx["ipfs"], NEW f, NEW p \in Pasts,
           ansCtx' = PutAnswer("ipfs", h, f), ansPast' = [ansPast EXCEPT !["ipfs"][h] = p],
           UNCHANGED <<ansTop, ansMade>>, AnswerHeld(f, p),
           ansCall' \in [Callers -> AnswerCalls],
           \A d \in Callers : CallSound(ansCall'[d], ansTop["ipfs"]),
           \A x : x # h /\ IsFiniteSet(Takers(x)) =>
                 /\ IsFiniteSet(Takers(x)') /\ Cardinality(Takers(x)') \in Nat
                 /\ Cardinality(Takers(x)') <= Cardinality(Takers(x)),
           IsFiniteSet(Takers(h)'), p.oks + Cardinality(Takers(h)') + Count(f.wire) <= p.accepted
    PROVE  AnsInv'
<1>1. PICK s \in Services : s = "ipfs"
  BY ServiceNames
<1>2. /\ AnsHeld' /\ DOMAIN ansCtx' = Services
      /\ ansPast' \in [Services -> Seq(Pasts)]
      /\ \A t \in Services : Len(ansPast'[t]) = ansTop'[t]
      /\ ansPast'["ipfs"][h] = p
      /\ h \in 1 .. ansTop["ipfs"] /\ Unread(h)' = Count(f.wire)
      /\ \A x \in 1 .. ansTop["ipfs"] : x # h =>
            ansPast'["ipfs"][x] = ansPast["ipfs"][x] /\ Unread(x)' = Unread(x)
  <2>1. /\ h \in DOMAIN ansCtx[s] /\ ansCtx' = PutAnswer(s, h, f)
        /\ ansPast' = [ansPast EXCEPT ![s][h] = p] /\ UNCHANGED ansTop
    BY <1>1
  <2>2. /\ AnsHeld' /\ DOMAIN ansCtx' = Services
        /\ ansPast' \in [Services -> Seq(Pasts)]
        /\ \A t \in Services : Len(ansPast'[t]) = ansTop'[t]
        /\ ansPast'[s][h] = p
        /\ s = "ipfs" => h \in 1 .. ansTop["ipfs"] /\ Unread(h)' = Count(f.wire)
        /\ \A x \in 1 .. ansTop["ipfs"] : s # "ipfs" \/ x # h =>
              ansPast'["ipfs"][x] = ansPast["ipfs"][x] /\ Unread(x)' = Unread(x)
    BY <2>1, PutHeld
  <2> QED
    BY <1>1, <2>2
<1>3. AnsShape'
  BY <1>2 DEF AnsInv, AnsShape
<1>4. ASSUME NEW x \in 1 .. ansTop["ipfs"] PROVE Accounted(x)'
  <2>1. CASE x = h
    BY <1>2, <2>1 DEF Accounted
  <2>2. CASE x # h
    BY <1>2, <2>2, AnsNumbers, StaysAccounted
  <2> QED
    BY <2>1, <2>2
<1> QED
  BY <1>2, <1>3, <1>4 DEF AnsInv

\* The daemon's answer comes onto the wire, and is accepted if it is a 200.
LEMMA WrittenKeeps ==
    ASSUME AnsInv, NEW c \in Callers, Written(c)
    PROVE  AnsInv'
<1>0. PICK h : h = ansCall[c].fd
  OBVIOUS
<1> DEFINE e == ansCtx["ipfs"][h]
           old == ansPast["ipfs"][h]
<1>1. PICK status \in Statuses, form \in Forms :
         /\ h \in DOMAIN ansCtx["ipfs"]
         /\ ansCtx' = PutAnswer("ipfs", h, [e EXCEPT !.wire = e.wire \o <<status>> \o form])
         /\ ansPast' = IF status = "200"
                       THEN [ansPast EXCEPT !["ipfs"][h].accepted = @ + 1] ELSE ansPast
         /\ ansCall' = [ansCall EXCEPT ![c] = AnswerIdle]
         /\ UNCHANGED <<ansTop, ansMade>>
  BY <1>0 DEF Written, There, Holds, Raw, SetRaw, End
<1> DEFINE longer == e.wire \o <<status>> \o form
           f == [e EXCEPT !.wire = longer]
           p == IF status = "200" THEN [old EXCEPT !.accepted = old.accepted + 1] ELSE old
<1>2. /\ AnswerHeld(e, old) /\ h \in 1 .. ansTop["ipfs"] /\ AnsShape
      /\ ansPast \in [Services -> Seq(Pasts)] /\ Len(ansPast["ipfs"]) = ansTop["ipfs"]
      /\ DOMAIN ansPast["ipfs"] = 1 .. ansTop["ipfs"]
  BY <1>1, ServiceNames DEF AnsInv, AnsHeld, AnsShape
<1>3. old \in Pasts /\ old.oks \in Nat /\ old.accepted \in Nat
  BY <1>2, AnsNumbers
<1>4. ansPast' = [ansPast EXCEPT !["ipfs"][h] = p]
  <2>1. CASE status = "200"
    <3>1. ansPast' = [ansPast EXCEPT !["ipfs"][h].accepted = @ + 1]
      BY <1>1, <2>1
    <3>2. p = [old EXCEPT !.accepted = old.accepted + 1]
      BY <2>1
    <3> HIDE DEF p
    <3> QED
      BY <1>2, <3>1, <3>2, ServiceNames
  <2>2. CASE status # "200"
    <3>1. ansPast' = ansPast /\ p = ansPast["ipfs"][h]
      BY <1>1, <2>2
    <3>2. [ansPast["ipfs"] EXCEPT ![h] = p] = ansPast["ipfs"]
      <4>1. ansPast["ipfs"] \in Seq(Pasts)
        BY <1>2, ServiceNames
      <4>2. ansPast["ipfs"] = [i \in DOMAIN ansPast["ipfs"] |-> ansPast["ipfs"][i]]
        BY <4>1
      <4> HIDE DEF p
      <4> QED
        BY <3>1, <4>2
    <3> HIDE DEF p
    <3> QED
      BY <1>2, <3>1, <3>2, ServiceNames
  <2> QED
    BY <2>1, <2>2
<1>5. e \in AnswerEntries /\ e.wire \in Seq(Tokens)
  BY <1>2 DEF AnswerHeld, AnswerEntries
<1>6. /\ longer \in Seq(Tokens)
      /\ Count(longer) = Count(e.wire) + (IF status = "200" THEN 1 ELSE 0)
  BY <1>5, CountGrows
<1> HIDE DEF longer
<1>7. /\ f \in AnswerEntries /\ f.wire = longer /\ f.req = e.req /\ f.point = e.point /\ f.len = e.len
  BY <1>5, <1>6 DEF AnswerEntries
<1>8. /\ p \in Pasts /\ p.req = old.req /\ p.got = old.got /\ p.oks = old.oks
      /\ p.accepted = old.accepted + (IF status = "200" THEN 1 ELSE 0)
  BY <1>3 DEF Pasts
<1>9. AnswerHeld(f, p)
  BY <1>2, <1>7, <1>8 DEF AnswerHeld
<1>10. Takers(h) \subseteq Callers /\ IsFiniteSet(Takers(h)) /\ Unread(h) = Count(e.wire) /\ Count(e.wire) \in Nat
  BY <1>1, <1>2, <1>5, AnsNumbers, CountNat DEF Unread, Takers
<1>11. old.oks + Cardinality(Takers(h)) + Count(e.wire) <= old.accepted
  BY <1>2, <1>10 DEF AnsInv, Accounted
<1>12. \A x : IsFiniteSet(Takers(x)) =>
          /\ IsFiniteSet(Takers(x)') /\ Cardinality(Takers(x)') \in Nat
          /\ Cardinality(Takers(x)') <= Cardinality(Takers(x))
  BY <1>1, <1>2, AnsIdleCalls, TakersMove
<1>13. /\ ansCall' \in [Callers -> AnswerCalls]
       /\ \A d \in Callers : CallSound(ansCall'[d], ansTop["ipfs"])
  <2>1. ansTop["ipfs"] \in Nat /\ ansTop'["ipfs"] = ansTop["ipfs"]
    BY <1>1, ServiceNames DEF AnsInv, AnsShape
  <2>2. AnswerIdle \in AnswerCalls /\ CallSound(AnswerIdle, ansTop'["ipfs"])
    BY AnsIdleCalls
  <2>3. ansTop'["ipfs"] \in Nat /\ ansTop["ipfs"] <= ansTop'["ipfs"]
    BY <2>1
  <2>4. /\ ansCall' \in [Callers -> AnswerCalls]
        /\ \A d \in Callers : CallSound(ansCall'[d], ansTop'["ipfs"])
    BY <1>1, <2>2, <2>3, CallsMove
  <2> QED
    BY <2>1, <2>4
<1>14. p.oks + Cardinality(Takers(h)') + Count(f.wire) <= p.accepted
  <2>1. /\ Cardinality(Takers(h)') \in Nat /\ Cardinality(Takers(h)') <= Cardinality(Takers(h))
        /\ Cardinality(Takers(h)) \in Nat
    BY <1>2, <1>10, <1>12, AnsNumbers
  <2> HIDE DEF p, f, e, old
  <2> QED
    BY <1>3, <1>6, <1>7, <1>8, <1>10, <1>11, <2>1
<1>15. ansCtx' = PutAnswer("ipfs", h, f) /\ IsFiniteSet(Takers(h)')
  BY <1>1, <1>10, <1>12 DEF longer
<1>16. \A x : x # h /\ IsFiniteSet(Takers(x)) =>
          /\ IsFiniteSet(Takers(x)') /\ Cardinality(Takers(x)') \in Nat
          /\ Cardinality(Takers(x)') <= Cardinality(Takers(x))
  BY <1>12
<1>17. h \in DOMAIN ansCtx["ipfs"] /\ p \in Pasts /\ UNCHANGED <<ansTop, ansMade>>
  BY <1>1, <1>8
<1> HIDE DEF p, f, e, old
<1> QED
  BY <1>4, <1>9, <1>13, <1>14, <1>15, <1>16, <1>17, WireStep

\* The daemon closes a connection.
LEMMA PeerClosesKeeps ==
    ASSUME AnsInv, NEW h \in AnswerHandles, PeerCloses(h)
    PROVE  AnsInv'
<1> DEFINE e == ansCtx["ipfs"][h]
           f == [e EXCEPT !.eof = TRUE]
           old == ansPast["ipfs"][h]
<1>1. /\ h \in DOMAIN ansCtx["ipfs"] /\ ansCtx' = [ansCtx EXCEPT !["ipfs"][h].eof = TRUE]
      /\ UNCHANGED <<ansTop, ansCall, ansMade, ansPast>>
  BY DEF PeerCloses, Holds
<1>2. /\ AnswerHeld(e, old) /\ h \in 1 .. ansTop["ipfs"] /\ AnsShape /\ DOMAIN ansCtx = Services
      /\ ansPast \in [Services -> Seq(Pasts)] /\ Len(ansPast["ipfs"]) = ansTop["ipfs"]
      /\ DOMAIN ansPast["ipfs"] = 1 .. ansTop["ipfs"]
      /\ \A s \in Services : \A x \in DOMAIN ansCtx[s] : AnswerHeld(ansCtx[s][x], ansPast[s][x])
      /\ \A s \in Services : DOMAIN ansCtx[s] \subseteq 1 .. ansTop[s]
  BY <1>1, ServiceNames DEF AnsInv, AnsHeld, AnsShape
<1>3. f \in AnswerEntries /\ f.wire = e.wire /\ f.req = e.req /\ f.point = e.point /\ f.len = e.len
  BY <1>2 DEF AnswerHeld, AnswerEntries
<1>4. AnswerHeld(f, old)
  BY <1>2, <1>3 DEF AnswerHeld
<1>5. /\ DOMAIN ansCtx' = Services
      /\ \A s \in Services : DOMAIN ansCtx'[s] = DOMAIN ansCtx[s]
      /\ ansCtx'["ipfs"][h] = f
      /\ \A s \in Services : \A x \in DOMAIN ansCtx[s] :
            s # "ipfs" \/ x # h => ansCtx'[s][x] = ansCtx[s][x]
  BY <1>1, <1>2, ServiceNames
<1> HIDE DEF f, e
<1>6. AnsHeld'
  <2>1. ASSUME NEW s \in Services, NEW x \in DOMAIN ansCtx'[s]
        PROVE  AnswerHeld(ansCtx'[s][x], ansPast'[s][x]) /\ x \in 1 .. ansTop'[s]
    <3>1. x \in DOMAIN ansCtx[s] /\ ansPast'[s][x] = ansPast[s][x] /\ ansTop'[s] = ansTop[s]
      BY <1>1, <1>5, <2>1
    <3>2. CASE s = "ipfs" /\ x = h
      BY <1>2, <1>4, <1>5, <3>1, <3>2
    <3>3. CASE s # "ipfs" \/ x # h
      BY <1>2, <1>5, <3>1, <3>3
    <3> QED
      BY <3>2, <3>3
  <2> QED
    BY <2>1 DEF AnsHeld
<1>7. ASSUME NEW x \in 1 .. ansTop["ipfs"] PROVE Accounted(x)'
  <2>1. Takers(x)' = Takers(x)
    BY <1>1 DEF Takers
  <2>2. Unread(x)' = Unread(x)
    <3>1. CASE x = h
      BY <1>1, <1>3, <1>5, <3>1, ServiceNames DEF Unread, Count, Oks, e
    <3>2. CASE x # h
      BY <1>5, <3>2, ServiceNames DEF Unread, Count, Oks
    <3> QED
      BY <3>1, <3>2
  <2>3. Accounted(x)
    BY DEF AnsInv
  <2> QED
    BY <1>1, <2>1, <2>2, <2>3 DEF Accounted
<1> QED
  BY <1>1, <1>2, <1>5, <1>6, <1>7 DEF AnsInv, AnsShape

\* The first line of a buffer that is not empty.
LEMMA LeastNumber ==
    ASSUME NEW T, T \subseteq Nat, T # {}
    PROVE  \E x \in T : \A y \in T : x <= y
<1> DEFINE R == {p \in Nat \X Nat : p[1] < p[2]}
<1>1. IsWellFoundedOn(R, Nat)
  BY NatLessThanWellFounded DEF OpToRel
<1>2. PICK x \in T : \A y \in T : <<y, x>> \notin R
  BY <1>1, WFMin
<1>3. ASSUME NEW y \in T PROVE x <= y
  <2>1. x \in Nat /\ y \in Nat /\ <<y, x>> \notin R
    BY <1>2
  <2>2. ~ (y < x)
    BY <2>1
  <2> QED
    BY <2>1, <2>2
<1> QED
  BY <1>3

LEMMA FirstLineIs ==
    ASSUME NEW buffer \in Seq(Tokens)
    PROVE  /\ FirstLine(buffer) \in 0 .. Len(buffer)
           /\ FirstLine(buffer) = 0 => \A i \in 1 .. Len(buffer) : buffer[i] = "eol"
           /\ FirstLine(buffer) # 0 => buffer[FirstLine(buffer)] # "eol"
           /\ AfterHead(buffer) \in Seq(Tokens)
<1> DEFINE I == {i \in 1 .. Len(buffer) : buffer[i] # "eol"}
           least == CHOOSE x \in I : \A y \in I : x <= y
           line == FirstLine(buffer)
<1>1. Len(buffer) \in Nat /\ \A i \in 1 .. Len(buffer) : buffer[i] \in Tokens
  BY LenProperties, ElementOfSeq
<1>2. I # {} => least \in I
  <2>1. I \subseteq Nat
    BY <1>1
  <2> HIDE DEF I
  <2> QED
    BY <2>1, LeastNumber
<1>3. line = IF I # {} THEN least ELSE 0
  BY DEF FirstLine, Ext!SelectInSeq, Ext!Min
<1> HIDE DEF least, line
<1>4. /\ line \in 0 .. Len(buffer)
      /\ line = 0 => \A i \in 1 .. Len(buffer) : buffer[i] = "eol"
      /\ line # 0 => buffer[line] # "eol"
  BY <1>1, <1>2, <1>3
<1>5. SubSeq(buffer, line + 1, Len(buffer)) \in Seq(Tokens)
  BY <1>1, <1>4, SubSeqProperties
<1> QED
  BY <1>4, <1>5 DEF line, AfterHead

\* A command's answer gets a handle that was not given before.
LEMMA AnsweredKeeps ==
    ASSUME AnsInv, NEW c \in Callers, Answered(c)
    PROVE  AnsInv'
<1>1. PICK s \in Services : s = ansCall[c].service
  BY DEF AnsInv, AnsShape, AnswerCalls
<1>2. /\ AnsShape /\ ansTop \in [Services -> Nat] /\ DOMAIN ansCtx = Services
      /\ ansPast \in [Services -> Seq(Pasts)]
      /\ \A t \in Services : Len(ansPast[t]) = ansTop[t]
      /\ ansCall[c] \in AnswerCalls /\ ansTop[s] \in Nat
  BY DEF AnsInv, AnsShape
<1>3. PICK h : h = ansTop[s] + 1
  OBVIOUS
<1>4. ansTop' = [ansTop EXCEPT ![s] = h]
  BY <1>1, <1>3 DEF Answered, NewAnswerHandle
<1>5. /\ ansTop' \in [Services -> Nat] /\ ansTop'[s] = h /\ h \in Nat
      /\ \A t \in Services : t # s => ansTop'[t] = ansTop[t]
  BY <1>2, <1>3, <1>4
<1> DEFINE p == [req |-> ansCall[c].req, got |-> <<>>, accepted |-> 0, oks |-> 0]
<1>6. PICK kind \in Kinds(s), len \in 0 .. Length :
         ansCtx' = PutAnswer(s, h, NewAnswer(ansCall[c].req, kind, len))
  BY <1>1, <1>5 DEF Answered
<1>7. /\ ansPast' = [ansPast EXCEPT ![s] = Append(ansPast[s], p)]
      /\ ansCall' = [ansCall EXCEPT ![c] = AnswerIdle] /\ UNCHANGED ansMade
  BY <1>1, <1>2 DEF Answered
<1> DEFINE e == NewAnswer(ansCall[c].req, kind, len)
<1>8. /\ p \in Pasts /\ e \in AnswerEntries /\ e.wire = <<>> /\ AnswerHeld(e, p)
      /\ p.accepted = 0 /\ p.oks = 0
  <2>1. ansCall[c].req \in Nat /\ <<>> \in Seq(1 .. Length) /\ <<>> \in Seq(Tokens)
    BY <1>2 DEF AnswerCalls
  <2>2. kind \in {"bytes", "none", "raw"}
    BY DEF Kinds
  <2>3. p \in Pasts
    BY <2>1 DEF Pasts
  <2>4. e \in AnswerEntries /\ e.point = 0 /\ e.len = len /\ e.req = ansCall[c].req /\ e.wire = <<>>
    BY <2>1, <2>2, HandleAssumption DEF AnswerEntries, NewAnswer
  <2>5. [i \in 1 .. 0 |-> i] = <<>>
    OBVIOUS
  <2>6. p.got = <<>> /\ p.req = ansCall[c].req /\ p.accepted = 0 /\ p.oks = 0
    OBVIOUS
  <2> HIDE DEF e, p
  <2>7. AnswerHeld(e, p)
    BY <2>4, <2>5, <2>6 DEF AnswerHeld
  <2> QED
    BY <2>3, <2>4, <2>6, <2>7
<1> HIDE DEF e, p
<1>9. /\ DOMAIN ansCtx' = Services
      /\ \A t \in Services : t # s => ansCtx'[t] = ansCtx[t]
      /\ DOMAIN ansCtx'[s] = DOMAIN ansCtx[s] \cup {h}
      /\ ansCtx'[s][h] = e
      /\ \A x \in DOMAIN ansCtx[s] : x # h => ansCtx'[s][x] = ansCtx[s][x]
  <2>1. ansCtx' = PutAnswer(s, h, e)
    BY <1>6 DEF e
  <2> QED
    BY <1>2, <2>1, PutIs
<1>10. /\ Append(ansPast[s], p) \in Seq(Pasts) /\ Len(Append(ansPast[s], p)) = h
       /\ Append(ansPast[s], p)[h] = p
       /\ \A x \in 1 .. ansTop[s] : Append(ansPast[s], p)[x] = ansPast[s][x]
  BY <1>2, <1>3, <1>8, AppendProperties
<1>11. /\ ansPast' \in [Services -> Seq(Pasts)]
       /\ \A t \in Services : Len(ansPast'[t]) = ansTop'[t]
       /\ ansPast'[s][h] = p
       /\ \A x \in 1 .. ansTop[s] : ansPast'[s][x] = ansPast[s][x]
       /\ \A t \in Services : t # s => ansPast'[t] = ansPast[t]
  BY <1>2, <1>5, <1>7, <1>10
<1>12. AnsHeld'
  <2>1. ASSUME NEW t \in Services, NEW x \in DOMAIN ansCtx'[t]
        PROVE  AnswerHeld(ansCtx'[t][x], ansPast'[t][x]) /\ x \in 1 .. ansTop'[t]
    <3>0. DOMAIN ansCtx[t] \subseteq 1 .. ansTop[t] /\ \A y \in DOMAIN ansCtx[t] : AnswerHeld(ansCtx[t][y], ansPast[t][y])
      BY DEF AnsInv, AnsHeld
    <3>1. CASE t # s
      BY <1>5, <1>9, <1>11, <2>1, <3>0, <3>1
    <3>2. CASE t = s /\ x # h
      <4>1. x \in DOMAIN ansCtx[s] /\ x \in 1 .. ansTop[s]
        BY <1>9, <2>1, <3>0, <3>2
      <4> QED
        BY <1>2, <1>3, <1>5, <1>9, <1>11, <3>0, <3>2, <4>1
    <3>3. CASE t = s /\ x = h
      BY <1>2, <1>3, <1>5, <1>8, <1>9, <1>11, <3>3
    <3> QED
      BY <3>1, <3>2, <3>3
  <2> QED
    BY <2>1 DEF AnsHeld
<1>13. /\ ansTop["ipfs"] \in Nat /\ ansTop'["ipfs"] \in Nat /\ ansTop["ipfs"] <= ansTop'["ipfs"]
       /\ \A x \in 1 .. ansTop'["ipfs"] : x \in 1 .. ansTop["ipfs"] \/ (s = "ipfs" /\ x = h)
  <2>1. PICK a, b : a = ansTop["ipfs"] /\ b = ansTop'["ipfs"]
    OBVIOUS
  <2>2. a \in Nat /\ IF s = "ipfs" THEN b = h /\ h = a + 1 ELSE b = a
    BY <1>2, <1>3, <1>5, <2>1, ServiceNames
  <2>3. /\ a \in Nat /\ b \in Nat /\ a <= b
        /\ \A x \in 1 .. b : x \in 1 .. a \/ (s = "ipfs" /\ x = h)
    <3>1. CASE s = "ipfs"
      BY <2>2, <3>1
    <3>2. CASE s # "ipfs"
      BY <2>2, <3>2
    <3> QED
      BY <3>1, <3>2
  <2> QED
    BY <2>1, <2>3
<1>14. /\ ansCall' \in [Callers -> AnswerCalls]
       /\ \A d \in Callers : CallSound(ansCall'[d], ansTop'["ipfs"])
  <2>1. AnswerIdle \in AnswerCalls /\ CallSound(AnswerIdle, ansTop'["ipfs"])
    BY AnsIdleCalls
  <2> QED
    BY <1>7, <1>13, <2>1, CallsMove
<1>15. \A x : IsFiniteSet(Takers(x)) =>
          /\ IsFiniteSet(Takers(x)') /\ Cardinality(Takers(x)') \in Nat
          /\ Cardinality(Takers(x)') <= Cardinality(Takers(x))
  BY <1>2, <1>7, AnsIdleCalls, TakersMove
<1>16. ASSUME NEW x \in 1 .. ansTop["ipfs"] PROVE Accounted(x)'
  <2>1. ansPast'["ipfs"][x] = ansPast["ipfs"][x]
    BY <1>11, ServiceNames
  <2>2. Unread(x)' = Unread(x)
    <3>1. s = "ipfs" => x # h
      BY <1>2, <1>3
    <3> QED
      BY <1>9, <3>1, ServiceNames DEF Unread, Count, Oks
  <2>3. Unread(x) \in Nat /\ IsFiniteSet(Takers(x)) /\ Cardinality(Takers(x)) \in Nat
    BY AnsNumbers
  <2> QED
    BY <1>15, <2>1, <2>2, <2>3, StaysAccounted
<1>17. ASSUME s = "ipfs" PROVE Accounted(h)'
  <2>1. Takers(h) = {}
    BY <1>2, <1>3, <1>17 DEF AnsInv, CallSound, Takers, Takes, Waiting
  <2>2. IsFiniteSet(Takers(h)) /\ Cardinality(Takers(h)) = 0
    BY <2>1, FS_EmptySet
  <2>3. IsFiniteSet(Takers(h)') /\ Cardinality(Takers(h)') = 0
    BY <1>15, <2>2
  <2>4. Unread(h)' = 0
    BY <1>8, <1>9, <1>17, CountEmpty DEF Unread, Count, Oks
  <2>5. ansPast'["ipfs"][h].oks = 0 /\ ansPast'["ipfs"][h].accepted = 0
    BY <1>8, <1>11, <1>17
  <2> QED
    BY <2>3, <2>4, <2>5 DEF Accounted
<1>18. AnsShape'
  BY <1>2, <1>5, <1>7, <1>9, <1>11, <1>14 DEF AnsShape
<1> QED
  BY <1>12, <1>13, <1>14, <1>16, <1>17, <1>18 DEF AnsInv

\* A handle is closed: what is on its wire is lost.
LEMMA AnsCloseKeeps ==
    ASSUME AnsInv, NEW c \in Callers, NEW s \in Services, NEW h \in AnswerHandles, AnswerClose(c, s, h)
    PROVE  AnsInv'
<1>1. /\ ansCtx' = [ansCtx EXCEPT ![s] = [x \in DOMAIN ansCtx[s] \ {h} |-> ansCtx[s][x]]]
      /\ UNCHANGED <<ansTop, ansCall, ansPast>> /\ AnswerBegin(c)
  BY DEF AnswerClose
<1>2. AnsShape /\ DOMAIN ansCtx = Services
  BY DEF AnsInv, AnsShape
<1>3. /\ DOMAIN ansCtx' = Services
      /\ \A t \in Services : DOMAIN ansCtx'[t] \subseteq DOMAIN ansCtx[t]
      /\ \A t \in Services : \A x \in DOMAIN ansCtx'[t] : ansCtx'[t][x] = ansCtx[t][x]
  BY <1>1, <1>2
<1>4. AnsHeld'
  BY <1>1, <1>3 DEF AnsInv, AnsHeld
<1>5. AnsShape'
  BY <1>1, <1>2, <1>3, BeginIs DEF AnsShape
<1>6. ASSUME NEW x \in 1 .. ansTop["ipfs"] PROVE Accounted(x)'
  <2>1. Takers(x)' = Takers(x)
    BY <1>1 DEF Takers
  <2>2. IsFiniteSet(Takers(x)) /\ Cardinality(Takers(x)) \in Nat /\ Unread(x) \in Nat
    BY AnsNumbers
  <2>3. Unread(x)' = Unread(x) \/ Unread(x)' = 0
    BY <1>3, ServiceNames DEF Unread, Count, Oks
  <2> QED
    BY <1>1, <2>1, <2>2, <2>3, StaysAccounted
<1> QED
  BY <1>1, <1>4, <1>5, <1>6 DEF AnsInv

WireRest(wire, n) == SubSeq(wire, n + 1, Len(wire))
WithWire(e, wire) == [e EXCEPT !.wire = wire]

\* What n tokens leave of entry e of handle h: entry f.
OffTheWire(n, h, e, f) ==
    /\ h \in DOMAIN ansCtx["ipfs"] /\ h \in 1 .. ansTop["ipfs"]
    /\ n \in 1 .. Len(e.wire) /\ e.wire \in Seq(Tokens)
    /\ ansCtx' = PutAnswer("ipfs", h, f) /\ UNCHANGED <<ansTop, ansMade, ansPast>>
    /\ AnswerHeld(f, ansPast["ipfs"][h]) /\ ansPast["ipfs"][h] \in Pasts
    /\ f.wire = WireRest(e.wire, n)
    /\ Unread(h) = Count(e.wire)
    /\ ansPast' = [ansPast EXCEPT !["ipfs"][h] = ansPast["ipfs"][h]]

\* The buffer of call c with the first n tokens of the wire behind it.
IntoBuffer(c, n, wire, buffer) ==
    /\ buffer \in Seq(Tokens) /\ ansCall[c].buffer \in Seq(Tokens)
    /\ \A i \in Len(ansCall[c].buffer) + 1 .. Len(buffer) :
          /\ i - Len(ansCall[c].buffer) \in 1 .. n
          /\ buffer[i] = wire[i - Len(ansCall[c].buffer)]
    /\ \A i \in 1 .. Len(ansCall[c].buffer) : buffer[i] = ansCall[c].buffer[i]

\* Tokens come from the wire of the handle that a call waits with.
LEMMA ArriveIs ==
    ASSUME AnsInv, NEW c \in Callers, NEW n, Arrive(c, n), NEW h, h = ansCall[c].fd,
           NEW e, e = ansCtx["ipfs"][h],
           NEW f, f = WithWire(e, WireRest(e.wire, n))
    PROVE  OffTheWire(n, h, e, f) /\ IntoBuffer(c, n, e.wire, Arrived(c, n))
<1>0. PICK wire, rest, piece, buffer, old :
         /\ wire = e.wire /\ rest = WireRest(wire, n) /\ piece = SubSeq(wire, 1, n)
         /\ buffer = ansCall[c].buffer /\ old = ansPast["ipfs"][h]
  OBVIOUS
<1>1. /\ h \in DOMAIN ansCtx["ipfs"] /\ n \in 1 .. Len(wire)
      /\ ansCtx' = PutAnswer("ipfs", h, f) /\ UNCHANGED <<ansTop, ansMade, ansPast>>
      /\ Arrived(c, n) = buffer \o piece
  BY <1>0 DEF Arrive, There, Holds, Raw, SetRaw, Arrived, WithWire, WireRest
<1>2. /\ AnswerHeld(e, old) /\ h \in 1 .. ansTop["ipfs"]
      /\ ansPast \in [Services -> Seq(Pasts)] /\ Len(ansPast["ipfs"]) = ansTop["ipfs"]
      /\ ansCall[c] \in AnswerCalls
  BY <1>0, <1>1, ServiceNames DEF AnsInv, AnsHeld, AnsShape
<1>3. old \in Pasts /\ buffer \in Seq(Tokens)
  BY <1>0, <1>2, AnsNumbers DEF AnswerCalls
<1>4. e \in AnswerEntries /\ wire \in Seq(Tokens)
  BY <1>0, <1>2 DEF AnswerHeld, AnswerEntries
<1>5. Len(wire) \in Nat /\ \A i \in 1 .. Len(wire) : wire[i] \in Tokens
  BY <1>4, LenProperties, ElementOfSeq
<1>6. /\ n \in Int /\ n + 1 \in Int /\ Len(wire) \in Int
      /\ \A i \in n + 1 .. Len(wire) : wire[i] \in Tokens
      /\ \A i \in 1 .. n : wire[i] \in Tokens
  BY <1>1, <1>5
<1>7. /\ rest \in Seq(Tokens) /\ piece \in Seq(Tokens) /\ Len(piece) = n
      /\ \A i \in 1 .. n : piece[i] = wire[i]
  <2>1. /\ SubSeq(wire, n + 1, Len(wire)) \in Seq(Tokens)
        /\ SubSeq(wire, 1, n) \in Seq(Tokens)
        /\ Len(SubSeq(wire, 1, n)) = IF 1 <= n THEN n - 1 + 1 ELSE 0
        /\ \A i \in 1 .. n - 1 + 1 : SubSeq(wire, 1, n)[i] = wire[1 + i - 1]
    BY <1>6, SubSeqProperties
  <2>2. n \in Nat /\ 1 <= n /\ n - 1 + 1 = n /\ \A i \in 1 .. n : 1 + i - 1 = i
    BY <1>1, <1>5
  <2>3. Len(SubSeq(wire, 1, n)) = n /\ \A i \in 1 .. n : SubSeq(wire, 1, n)[i] = wire[i]
    BY <2>1, <2>2
  <2> QED
    BY <1>0, <2>1, <2>3 DEF WireRest
<1>8. f \in AnswerEntries /\ f.wire = rest /\ f.req = e.req /\ f.point = e.point /\ f.len = e.len
  BY <1>0, <1>4, <1>7 DEF AnswerEntries, WithWire
<1>9. AnswerHeld(f, old)
  BY <1>2, <1>8 DEF AnswerHeld
<1>10. ansPast' = [ansPast EXCEPT !["ipfs"][h] = old]
  <2>1. ansPast["ipfs"] \in Seq(Pasts)
    BY <1>2, ServiceNames
  <2>2. ansPast["ipfs"] = [i \in DOMAIN ansPast["ipfs"] |-> ansPast["ipfs"][i]]
    BY <2>1
  <2>3. [ansPast["ipfs"] EXCEPT ![h] = old] = ansPast["ipfs"]
    BY <1>0, <2>2
  <2> QED
    BY <1>1, <1>2, <2>3, ServiceNames
<1>11. Len(buffer) \in Nat
  BY <1>3, LenProperties
<1>12. /\ buffer \o piece \in Seq(Tokens) /\ Len(buffer \o piece) = Len(buffer) + n
       /\ \A i \in 1 .. Len(buffer) : (buffer \o piece)[i] = buffer[i]
       /\ \A i \in Len(buffer) + 1 .. Len(buffer) + n : (buffer \o piece)[i] = piece[i - Len(buffer)]
  <2>1. Len(buffer \o piece) = Len(buffer) + Len(piece)
    BY <1>3, <1>7, ConcatProperties
  <2>2. /\ \A i \in 1 .. Len(buffer) : (buffer \o piece)[i] = buffer[i]
        /\ \A i \in Len(buffer) + 1 .. Len(buffer) + Len(piece) : (buffer \o piece)[i] = piece[i - Len(buffer)]
    BY <1>3, <1>7, ConcatProperties
  <2> QED
    BY <1>3, <1>7, <2>1, <2>2, ConcatProperties
<1>13. \A i \in Len(buffer) + 1 .. Len(buffer) + n : i - Len(buffer) \in 1 .. n
  BY <1>1, <1>5, <1>11
<1>14. Unread(h) = Count(e.wire)
  BY <1>1 DEF Unread
<1>15. \A i \in Len(buffer) + 1 .. Len(buffer) + n : (buffer \o piece)[i] = wire[i - Len(buffer)]
  BY <1>7, <1>12, <1>13
<1>16. /\ n \in 1 .. Len(e.wire) /\ e.wire \in Seq(Tokens) /\ f.wire = WireRest(e.wire, n)
       /\ AnswerHeld(f, ansPast["ipfs"][h]) /\ ansPast["ipfs"][h] \in Pasts
       /\ ansPast' = [ansPast EXCEPT !["ipfs"][h] = ansPast["ipfs"][h]]
       /\ ansCall[c].buffer \in Seq(Tokens)
  BY <1>0, <1>1, <1>3, <1>4, <1>8, <1>9, <1>10
<1>17. /\ Arrived(c, n) \in Seq(Tokens)
       /\ \A i \in Len(ansCall[c].buffer) + 1 .. Len(Arrived(c, n)) :
             /\ i - Len(ansCall[c].buffer) \in 1 .. n
             /\ Arrived(c, n)[i] = e.wire[i - Len(ansCall[c].buffer)]
       /\ \A i \in 1 .. Len(ansCall[c].buffer) : Arrived(c, n)[i] = ansCall[c].buffer[i]
  BY <1>0, <1>1, <1>12, <1>13, <1>15, ZenonT(30)
<1>18. OffTheWire(n, h, e, f)
  BY <1>1, <1>2, <1>14, <1>16 DEF OffTheWire
<1>19. IntoBuffer(c, n, e.wire, Arrived(c, n))
  BY <1>16, <1>17 DEF IntoBuffer
<1> QED
  BY <1>18, <1>19

\* A call takes tokens off a wire: an answer 200 among them goes into its hand,
\* or is lost.
LEMMA ArriveStep ==
    ASSUME AnsInv, NEW c \in Callers, NEW n, Arrive(c, n), NEW h, h = ansCall[c].fd,
           NEW w \in AnswerCalls, ansCall' = [ansCall EXCEPT ![c] = w], CallSound(w, ansTop["ipfs"]),
           \A x : Takes(w, x) => x = h,
           NEW e, e = ansCtx["ipfs"][h],
           \/ \A x : Takes(w, x) => Takes(ansCall[c], x)
           \/ Takes(w, h) /\ ~Takes(ansCall[c], h)
              /\ Count(WireRest(e.wire, n)) + 1 <= Count(e.wire)
    PROVE  AnsInv'
<1>0. PICK rest, f, old :
         /\ rest = WireRest(e.wire, n) /\ old = ansPast["ipfs"][h]
         /\ f = WithWire(e, WireRest(e.wire, n))
  OBVIOUS
<1>1. /\ h \in DOMAIN ansCtx["ipfs"] /\ h \in 1 .. ansTop["ipfs"]
      /\ n \in 1 .. Len(e.wire) /\ e.wire \in Seq(Tokens)
      /\ ansCtx' = PutAnswer("ipfs", h, f) /\ UNCHANGED <<ansTop, ansMade, ansPast>>
      /\ AnswerHeld(f, old) /\ old \in Pasts /\ f.wire = rest
      /\ Unread(h) = Count(e.wire)
      /\ ansPast' = [ansPast EXCEPT !["ipfs"][h] = old]
  <2>1. OffTheWire(n, h, e, f)
    BY <1>0, ArriveIs
  <2> QED
    BY <1>0, <2>1 DEF OffTheWire
<1>2. /\ AnsShape /\ old.oks \in Nat /\ old.accepted \in Nat /\ IsFiniteSet(Takers(h))
      /\ Cardinality(Takers(h)) \in Nat /\ Count(e.wire) \in Nat
      /\ old.oks + Cardinality(Takers(h)) + Count(e.wire) <= old.accepted
  <2>1. AnsShape /\ Accounted(h)
    BY <1>1 DEF AnsInv
  <2> QED
    BY <1>0, <1>1, <2>1, AnsNumbers DEF Accounted
<1>3. rest \in Seq(Tokens) /\ Count(rest) <= Count(e.wire)
  BY <1>0, <1>1, CountDrops, ZenonT(30) DEF WireRest
<1>4. Count(rest) \in Nat
  BY <1>3, CountNat
<1>5. \A x : IsFiniteSet(Takers(x)) =>
          /\ IsFiniteSet(Takers(x)') /\ Cardinality(Takers(x)') \in Nat
          /\ Takes(w, x) /\ ~Takes(ansCall[c], x) => Cardinality(Takers(x)') = Cardinality(Takers(x)) + 1
          /\ (Takes(w, x) => Takes(ansCall[c], x)) => Cardinality(Takers(x)') <= Cardinality(Takers(x))
  BY <1>2, TakersMove
<1>6. \A x : x # h /\ IsFiniteSet(Takers(x)) =>
          /\ IsFiniteSet(Takers(x)') /\ Cardinality(Takers(x)') \in Nat
          /\ Cardinality(Takers(x)') <= Cardinality(Takers(x))
  BY <1>5
<1>7. /\ ansCall' \in [Callers -> AnswerCalls]
      /\ \A d \in Callers : CallSound(ansCall'[d], ansTop["ipfs"])
  <2>1. ansTop["ipfs"] \in Nat /\ ansTop'["ipfs"] = ansTop["ipfs"]
    BY <1>1, <1>2, ServiceNames DEF AnsShape
  <2>2. ansTop'["ipfs"] \in Nat /\ ansTop["ipfs"] <= ansTop'["ipfs"] /\ CallSound(w, ansTop'["ipfs"])
    BY <2>1
  <2>3. /\ ansCall' \in [Callers -> AnswerCalls]
        /\ \A d \in Callers : CallSound(ansCall'[d], ansTop'["ipfs"])
    BY <2>2, CallsMove
  <2> QED
    BY <2>1, <2>3
<1>8. IsFiniteSet(Takers(h)') /\ Cardinality(Takers(h)') \in Nat
  BY <1>2, <1>5
<1>9. old.oks + Cardinality(Takers(h)') + Count(f.wire) <= old.accepted
  <2>1. CASE \A x : Takes(w, x) => Takes(ansCall[c], x)
    <3>1. Cardinality(Takers(h)') <= Cardinality(Takers(h))
      BY <1>2, <1>5, <2>1
    <3> QED
      BY <1>1, <1>2, <1>3, <1>4, <1>8, <3>1
  <2>2. CASE /\ Takes(w, h) /\ ~Takes(ansCall[c], h)
             /\ Count(WireRest(e.wire, n)) + 1 <= Count(e.wire)
    <3>1. Cardinality(Takers(h)') = Cardinality(Takers(h)) + 1 /\ Count(rest) + 1 <= Count(e.wire)
      BY <1>0, <1>2, <1>5, <2>2
    <3> QED
      BY <1>1, <1>2, <1>4, <1>8, <3>1
  <2> QED
    BY <2>1, <2>2
<1>10. UNCHANGED <<ansTop, ansMade>>
  BY <1>1
<1> QED
  BY <1>1, <1>6, <1>7, <1>8, <1>9, <1>10, WireStep

LEMMA BodyArrivesKeeps ==
    ASSUME AnsInv, NEW c \in Callers, NEW n, BodyArrives(c, n)
    PROVE  AnsInv'
<1> DEFINE w == [ansCall[c] EXCEPT !.buffer = Arrived(c, n)]
<1>1. PICK h, e, f : /\ h = ansCall[c].fd /\ e = ansCtx["ipfs"][h]
                    /\ f = WithWire(e, WireRest(e.wire, n))
  OBVIOUS
<1>2. Arrive(c, n) /\ ansCall[c].stage = "body"
  BY DEF BodyArrives
<1>3. ansCall[c] \in AnswerCalls /\ CallSound(ansCall[c], ansTop["ipfs"]) /\ ansCall \in [Callers -> AnswerCalls]
  BY DEF AnsInv, AnsShape
<1>4. ansCall' = [ansCall EXCEPT ![c] = w]
  BY <1>3 DEF BodyArrives
<1>5. Arrived(c, n) \in Seq(Tokens)
  <2>1. IntoBuffer(c, n, e.wire, Arrived(c, n))
    BY <1>1, <1>2, ArriveIs
  <2> QED
    BY <2>1 DEF IntoBuffer
<1>6. w \in AnswerCalls /\ w.stage = "body" /\ w.fd = ansCall[c].fd /\ w.status = ansCall[c].status
  BY <1>2, <1>3, <1>5 DEF AnswerCalls
<1> HIDE DEF w
<1>7. CallSound(w, ansTop["ipfs"])
  BY <1>2, <1>3, <1>6 DEF CallSound, Waiting
<1>8. \A x : Takes(w, x) => Takes(ansCall[c], x) /\ x = h
  BY <1>1, <1>2, <1>6 DEF Takes
<1> QED
  BY <1>1, <1>2, <1>4, <1>6, <1>7, <1>8, ArriveStep

\* A status line is found behind empty lines, all of which come from the wire with
\* it or before it.
LEMMA HeadArrivesKeeps ==
    ASSUME AnsInv, NEW c \in Callers, NEW n, HeadArrives(c, n)
    PROVE  AnsInv'
<1>1. PICK h, e, f, buffer, line :
         /\ h = ansCall[c].fd /\ e = ansCtx["ipfs"][h] /\ f = WithWire(e, WireRest(e.wire, n))
         /\ buffer = Arrived(c, n) /\ line = FirstLine(buffer)
  OBVIOUS
<1>2. Arrive(c, n) /\ ansCall[c].stage = "head"
  BY DEF HeadArrives
<1>3. ansCall[c] \in AnswerCalls /\ CallSound(ansCall[c], ansTop["ipfs"]) /\ ansCall \in [Callers -> AnswerCalls]
  BY DEF AnsInv, AnsShape
<1>4. ansCall' = [ansCall EXCEPT ![c] =
              IF line = 0 THEN [ansCall[c] EXCEPT !.buffer = buffer]
              ELSE IF buffer[line] \in Statuses
                   THEN [ansCall[c] EXCEPT !.stage = "body", !.status = buffer[line],
                                           !.buffer = AfterHead(buffer)]
                   ELSE AnswerIdle]
  BY <1>1, <1>3 DEF HeadArrives
<1>5. /\ buffer \in Seq(Tokens) /\ ansCall[c].buffer \in Seq(Tokens)
      /\ n \in 1 .. Len(e.wire) /\ e.wire \in Seq(Tokens)
      /\ \A i \in Len(ansCall[c].buffer) + 1 .. Len(buffer) :
            /\ i - Len(ansCall[c].buffer) \in 1 .. n
            /\ buffer[i] = e.wire[i - Len(ansCall[c].buffer)]
      /\ \A i \in 1 .. Len(ansCall[c].buffer) : buffer[i] = ansCall[c].buffer[i]
  <2>1. OffTheWire(n, h, e, f) /\ IntoBuffer(c, n, e.wire, Arrived(c, n))
    BY <1>1, <1>2, ArriveIs
  <2>2. IntoBuffer(c, n, e.wire, buffer)
    BY <1>1, <2>1
  <2> QED
    BY <2>1, <2>2 DEF OffTheWire, IntoBuffer
<1>6. /\ line \in 0 .. Len(buffer)
      /\ line = 0 => \A i \in 1 .. Len(buffer) : buffer[i] = "eol"
      /\ line # 0 => buffer[line] # "eol"
      /\ AfterHead(buffer) \in Seq(Tokens)
  BY <1>1, <1>5, FirstLineIs
<1>7. ansCall[c].status = "0" /\ \A i \in 1 .. Len(ansCall[c].buffer) : ansCall[c].buffer[i] = "eol"
  BY <1>2, <1>3, <1>5 DEF CallSound
<1>8. ansCall[c].fd \in 1 .. ansTop["ipfs"]
  BY <1>2, <1>3 DEF CallSound, Waiting
<1>9. CASE line = 0
  <2> DEFINE w == [ansCall[c] EXCEPT !.buffer = buffer]
  <2>1. ansCall' = [ansCall EXCEPT ![c] = w]
    BY <1>4, <1>9
  <2>2. w \in AnswerCalls /\ w.stage = "head" /\ w.fd = ansCall[c].fd /\ w.status = "0" /\ w.buffer = buffer
    BY <1>2, <1>3, <1>5, <1>7 DEF AnswerCalls
  <2> HIDE DEF w
  <2>3. CallSound(w, ansTop["ipfs"])
    BY <1>5, <1>6, <1>8, <1>9, <2>2 DEF CallSound, Waiting
  <2>4. \A x : ~Takes(w, x)
    BY <2>2 DEF Takes
  <2> QED
    BY <1>1, <1>2, <2>1, <2>2, <2>3, <2>4, ArriveStep, ZenonT(30)
<1>10. CASE line # 0 /\ buffer[line] \in Statuses
  <2> DEFINE w == [ansCall[c] EXCEPT !.stage = "body", !.status = buffer[line],
                                     !.buffer = AfterHead(buffer)]
  <2>1. ansCall' = [ansCall EXCEPT ![c] = w]
    BY <1>4, <1>10
  <2>2. w \in AnswerCalls /\ w.stage = "body" /\ w.fd = ansCall[c].fd /\ w.status = buffer[line]
    BY <1>3, <1>6, <1>10 DEF AnswerCalls, AnswerStages
  <2> HIDE DEF w
  <2>3. CallSound(w, ansTop["ipfs"]) /\ (\A x : Takes(w, x) => x = h) /\ ~Takes(ansCall[c], h)
    BY <1>1, <1>2, <1>8, <2>2 DEF CallSound, Waiting, Takes
  <2>4. CASE buffer[line] = "200"
    <3>1. line \in Len(ansCall[c].buffer) + 1 .. Len(buffer)
      <4>1. Len(ansCall[c].buffer) \in Nat /\ Len(buffer) \in Nat
        BY <1>5, LenProperties
      <4>2. line \notin 1 .. Len(ansCall[c].buffer)
        BY <1>5, <1>6, <1>7, <1>10
      <4> QED
        BY <1>6, <1>10, <4>1, <4>2
    <3>2. PICK i \in 1 .. n : e.wire[i] = "200"
      BY <1>5, <2>4, <3>1
    <3>3. Count(WireRest(e.wire, n)) + 1 <= Count(e.wire)
      BY <1>5, <3>2, CountDrops DEF WireRest
    <3>4. Takes(w, h)
      BY <1>1, <2>2, <2>4 DEF Takes
    <3> QED
      BY <1>1, <1>2, <2>1, <2>2, <2>3, <3>3, <3>4, ArriveStep
  <2>5. CASE buffer[line] # "200"
    <3>1. \A x : ~Takes(w, x)
      BY <2>2, <2>5 DEF Takes
    <3> QED
      BY <1>1, <1>2, <2>1, <2>2, <2>3, <3>1, ArriveStep
  <2> QED
    BY <2>4, <2>5
<1>11. CASE line # 0 /\ buffer[line] \notin Statuses
  <2>1. ansCall' = [ansCall EXCEPT ![c] = AnswerIdle]
    BY <1>4, <1>11
  <2> QED
    BY <1>1, <1>2, <2>1, AnsIdleCalls, ArriveStep
<1> QED
  BY <1>9, <1>10, <1>11

\* A read ends: if it reports Ok, the answer 200 it had in hand is reported.
LEMMA BodyEndsKeeps ==
    ASSUME AnsInv, NEW c \in Callers, BodyEnds(c)
    PROVE  AnsInv'
<1>1. PICK h : h = ansCall[c].fd
  OBVIOUS
<1>2. /\ ansCall[c].stage = "body" /\ ansCall' = [ansCall EXCEPT ![c] = AnswerIdle]
      /\ UNCHANGED <<ansCtx, ansTop, ansMade>>
      /\ \/ ansPast' = ansPast
         \/ /\ ansCall[c].status = "200"
            /\ ansPast' = [ansPast EXCEPT !["ipfs"][h].oks = @ + 1]
  BY <1>1 DEF BodyEnds, Accepted, End
<1>3. CASE ansPast' = ansPast
  <2>1. ansMade' \in 0 .. MaxCalls
    BY <1>2 DEF AnsInv, AnsShape
  <2> QED
    BY <1>2, <1>3, <2>1, AnsIdleCalls, CallStep
<1>4. CASE ansCall[c].status = "200" /\ ansPast' = [ansPast EXCEPT !["ipfs"][h].oks = @ + 1]
  <2>1. /\ AnsShape /\ h \in 1 .. ansTop["ipfs"] /\ Takes(ansCall[c], h)
        /\ ansPast \in [Services -> Seq(Pasts)] /\ ansPast["ipfs"] \in Seq(Pasts)
        /\ Len(ansPast["ipfs"]) = ansTop["ipfs"] /\ ansTop["ipfs"] \in Nat
        /\ \A t \in Services : Len(ansPast[t]) = ansTop[t]
    BY <1>1, <1>2, <1>4, ServiceNames DEF AnsInv, AnsShape, CallSound, Waiting, Takes
  <2> DEFINE old == ansPast["ipfs"][h]
             p == [old EXCEPT !.oks = old.oks + 1]
  <2>2. old \in Pasts /\ old.oks \in Nat /\ old.accepted \in Nat
    BY <2>1, AnsNumbers
  <2>3. /\ p \in Pasts /\ p.req = old.req /\ p.got = old.got
        /\ p.oks = old.oks + 1 /\ p.accepted = old.accepted
    BY <2>2 DEF Pasts
  <2>4. ansPast' = [ansPast EXCEPT !["ipfs"] = [ansPast["ipfs"] EXCEPT ![h] = p]]
    BY <1>4, <2>1, ServiceNames
  <2> HIDE DEF p, old
  <2>5. /\ [ansPast["ipfs"] EXCEPT ![h] = p] \in Seq(Pasts)
        /\ Len([ansPast["ipfs"] EXCEPT ![h] = p]) = ansTop["ipfs"]
        /\ \A x \in 1 .. ansTop["ipfs"] :
              [ansPast["ipfs"] EXCEPT ![h] = p][x] = IF x = h THEN p ELSE ansPast["ipfs"][x]
    BY <2>1, <2>3, ExceptSeq
  <2>6. /\ ansPast' \in [Services -> Seq(Pasts)]
        /\ ansPast'["ipfs"] = [ansPast["ipfs"] EXCEPT ![h] = p]
        /\ \A t \in Services : t # "ipfs" => ansPast'[t] = ansPast[t]
    BY <2>1, <2>4, <2>5, ServiceNames
  <2>7. \A t \in Services : Len(ansPast'[t]) = ansTop'[t]
    BY <1>2, <2>1, <2>5, <2>6
  <2>8. \A x \in 1 .. ansTop["ipfs"] : ansPast'["ipfs"][x] = IF x = h THEN p ELSE ansPast["ipfs"][x]
    BY <2>5, <2>6
  <2>9. AnsHeld'
    <3>1. ASSUME NEW t \in Services, NEW x \in DOMAIN ansCtx'[t]
          PROVE  AnswerHeld(ansCtx'[t][x], ansPast'[t][x]) /\ x \in 1 .. ansTop'[t]
      <4>1. ansCtx'[t][x] = ansCtx[t][x] /\ AnswerHeld(ansCtx[t][x], ansPast[t][x]) /\ x \in 1 .. ansTop[t]
        BY <1>2, <3>1 DEF AnsInv, AnsHeld
      <4>2. ansPast'[t][x].req = ansPast[t][x].req /\ ansPast'[t][x].got = ansPast[t][x].got
        BY <2>3, <2>6, <2>8, <4>1 DEF old
      <4> QED
        BY <1>2, <4>1, <4>2 DEF AnswerHeld
    <3> QED
      BY <3>1 DEF AnsHeld
  <2>10. ansCall' \in [Callers -> AnswerCalls] /\ \A d \in Callers : CallSound(ansCall'[d], ansTop'["ipfs"])
    <3>1. ansTop'["ipfs"] \in Nat /\ ansTop["ipfs"] <= ansTop'["ipfs"]
      BY <1>2, <2>1
    <3>2. AnswerIdle \in AnswerCalls /\ CallSound(AnswerIdle, ansTop'["ipfs"])
      BY AnsIdleCalls
    <3> QED
      BY <1>2, <3>1, <3>2, CallsMove
  <2>11. ASSUME NEW x \in 1 .. ansTop["ipfs"] PROVE Accounted(x)'
    <3>1. /\ Unread(x)' = Unread(x) /\ Unread(x) \in Nat
          /\ IsFiniteSet(Takers(x)) /\ Cardinality(Takers(x)) \in Nat
      BY <1>2, AnsNumbers DEF Unread
    <3>2. /\ IsFiniteSet(Takers(x)') /\ Cardinality(Takers(x)') \in Nat
          /\ Takes(ansCall[c], x) => Cardinality(Takers(x)') + 1 = Cardinality(Takers(x))
          /\ Cardinality(Takers(x)') <= Cardinality(Takers(x))
      BY <1>2, <2>1, <3>1, AnsIdleCalls, TakersMove
    <3>3. CASE x = h
      <4>1. Accounted(h)
        BY <2>1 DEF AnsInv
      <4>2. old.oks + Cardinality(Takers(h)) + Unread(h) <= old.accepted
        BY <4>1 DEF Accounted, old
      <4>3. ansPast'["ipfs"][h] = p
        BY <2>1, <2>8
      <4> QED
        BY <2>1, <2>2, <2>3, <3>1, <3>2, <3>3, <4>2, <4>3, SMTT(20) DEF Accounted
    <3>4. CASE x # h
      BY <2>8, <3>1, <3>2, <3>4, StaysAccounted
    <3> QED
      BY <3>3, <3>4
  <2>12. AnsShape'
    BY <1>2, <2>1, <2>6, <2>7, <2>10 DEF AnsShape
  <2> QED
    BY <1>2, <2>9, <2>10, <2>11, <2>12 DEF AnsInv
<1> QED
  BY <1>2, <1>3, <1>4

LEMMA AnsInit == AnswersInit => AnsInv
<1> SUFFICES ASSUME AnswersInit PROVE AnsInv
  OBVIOUS
<1>1. AnsShape
  <2>1. <<>> \in Seq(Pasts) /\ Len(<<>>) = 0
    OBVIOUS
  <2> QED
    BY <2>1, AnsIdleCalls, HandleAssumption DEF AnswersInit, AnsShape
<1>2. AnsHeld
  BY DEF AnswersInit, AnsHeld
<1>3. \A c \in Callers : CallSound(ansCall[c], ansTop["ipfs"])
  BY AnsIdleCalls DEF AnswersInit
<1>4. 1 .. ansTop["ipfs"] = {}
  BY ServiceNames DEF AnswersInit
<1> QED
  BY <1>1, <1>2, <1>3, <1>4 DEF AnsInv

LEMMA AnsNext == AnsInv /\ [AnswersNext]_answerVars => AnsInv'
<1> SUFFICES ASSUME AnsInv, [AnswersNext]_answerVars PROVE AnsInv'
  OBVIOUS
<1>1. CASE UNCHANGED answerVars
  BY <1>1 DEF answerVars, AnsInv, AnsShape, AnsHeld, Accounted, Takers, Unread
<1>2. ASSUME NEW h \in AnswerHandles, PeerCloses(h) PROVE AnsInv'
  BY <1>2, PeerClosesKeeps
<1>3. ASSUME NEW c \in Callers, AnswerStep(c) PROVE AnsInv'
  <2>1. CASE Answered(c)
    BY <2>1, AnsweredKeeps
  <2>2. CASE Written(c)
    BY <2>2, WrittenKeeps
  <2>3. CASE BodyEnds(c)
    BY <2>3, BodyEndsKeeps
  <2>4. ASSUME NEW n, HeadArrives(c, n) \/ BodyArrives(c, n) PROVE AnsInv'
    BY <2>4, HeadArrivesKeeps, BodyArrivesKeeps
  <2>5. ASSUME NEW s \in Services, NEW h \in AnswerHandles, AnswerClose(c, s, h) PROVE AnsInv'
    BY <2>5, AnsCloseKeeps
  <2>6. ASSUME NEW s \in Services, NEW h \in AnswerHandles, NEW room \in Sizes, Read(c, s, h, room)
        PROVE  AnsInv'
    BY <2>6, AnsReadKeeps
  <2>7. CASE \/ Refused(c) \/ SendFails(c) \/ Fails(c) \/ Dangling(c)
             \/ HeadEnds(c) \/ Spins(c) \/ RawChunk(c)
             \/ \E s \in Services : Send(c, s) \/ \E h \in AnswerHandles : AnswerInvalid(c, s, h)
             \/ \E h \in AnswerHandles : RawWrite(c, h) \/ RawRead(c, h)
    BY <2>7, CallSteps
  <2> QED
    BY <1>3, <2>1, <2>2, <2>3, <2>4, <2>5, <2>6, <2>7 DEF AnswerStep
<1> QED
  BY <1>1, <1>2, <1>3 DEF AnswersNext

LEMMA AnsInvariant == AnswersSpec => []AnsInv
BY AnsInit, AnsNext, PTL DEF AnswersSpec

\* The types of the ipfs and the s3 driver's variables, for every number of
\* guests and calls (ipfs_driver/mod.rs, s3_driver/mod.rs).
THEOREM AnswerTypes == AnswersSpec => []AnswersTypeOK
<1>1. AnsInv => AnswersTypeOK
  BY DEF AnsInv, AnsShape, AnsHeld, AnswerHeld, AnswersTypeOK
<1> QED
  BY <1>1, AnsInvariant, PTL

\* A handle stands for the answer to its request, and its readers get the bytes
\* of that answer in order and once (command, bucket_command, copy_remain).
THEOREM AnswersInOrder == AnswersSpec => []BytesInOrder
<1>1. AnsInv => BytesInOrder
  BY DEF AnsInv, AnsHeld, AnswerHeld, BytesInOrder
<1> QED
  BY <1>1, AnsInvariant, PTL

\* A read of a raw connection returns Ok once at most for each write that the
\* daemon has accepted (read_response, read_bulks).
THEOREM OksAreAccepted == AnswersSpec => []OkOnce
<1>1. AnsInv => OkOnce
  <2> SUFFICES ASSUME AnsInv, NEW h \in 1 .. ansTop["ipfs"]
               PROVE  ansPast["ipfs"][h].oks <= ansPast["ipfs"][h].accepted
    BY DEF OkOnce
  <2>1. Accounted(h)
    BY DEF AnsInv
  <2> QED
    BY <2>1, AnsNumbers DEF Accounted
<1> QED
  BY <1>1, AnsInvariant, PTL

=============================================================================

--------------------------- MODULE AnswerDrivers ---------------------------
(* The ipfs and the s3 driver (ipfs_driver/, s3_driver/, read_ext.rs). Each *)
(* keeps a map of handles. A command waits for the whole answer before the  *)
(* guest gets a handle, and the answer is read piece by piece; the ipfs     *)
(* command files/write gives a raw connection instead, to which the guest   *)
(* writes, and whose answer the driver takes apart itself (http_raw.rs).    *)
(*                                                                          *)
(* A caller is a guest of the process; what happens between two awaits is   *)
(* one action. What a connection delivers is a sequence of tokens: a status *)
(* line with its headers, a chunk's size, the halves of its data, an end of *)
(* line, and the last chunk. They arrive in pieces of any number of tokens. *)
(*                                                                          *)
(* Names that HttpDriver has too are prefixed: the theorems about all       *)
(* drivers extend both modules.                                             *)
EXTENDS HandleParameters, Sequences

Ext == INSTANCE SequencesExt

VARIABLES
    ansCtx,     \* get_ctx() of each driver: handle -> entry
    ansTop,     \* MAX_HANDLE of each driver
    ansCall,    \* caller -> the call it is in
    ansMade,    \* calls begun
    ansPast     \* history: of each driver's handles what guests were told

answerVars == <<ansCtx, ansTop, ansCall, ansMade, ansPast>>

Services == {"ipfs", "s3"}
AnswerHandles == 1 .. MaxCalls

Statuses == {"200", "500"}
Tokens == Statuses \cup {"size", "half", "eol", "last"}

\* The forms of an answer: with a body, with an empty one, without chunks.
Forms == {<<"size", "half", "half", "eol", "last">>, <<"last">>, <<>>}

\* Response and VecResult have bytes and a read point, S3Ctx::None nothing, and
\* HttpRaw its connection: what is under way, and whether the peer has closed it.
AnswerEntries == [kind : {"bytes", "none", "raw"}, req : Nat, len : 0 .. Length,
                  point : 0 .. Length, wire : Seq(Tokens), eof : BOOLEAN]
NewAnswer(req, kind, len) ==
    [kind |-> kind, req |-> req, len |-> len, point |-> 0, wire |-> <<>>, eof |-> FALSE]

\* A call waits for a command ("send"), for its bytes to be written, for a status
\* line, or for chunks; "spin" reads the end of the connection again and again, and
\* "gone" is a guest that its host call has killed.
AnswerStages == {"idle", "send", "write", "head", "body", "spin", "gone"}
AnswerCalls == [stage : AnswerStages, service : Services, fd : Nat, req : Nat,
                status : Statuses \cup {"0"}, buffer : Seq(Tokens)]
AnswerIdle == [stage |-> "idle", service |-> "ipfs", fd |-> 0, req |-> 0,
               status |-> "0", buffer |-> <<>>]
AnswerGone == [AnswerIdle EXCEPT !.stage = "gone"]

\* For a handle: its request, the bytes its readers got, the answers 200 that the
\* daemon gave to what was written, and the reads that returned Ok for one.
Pasts == [req : Nat, got : Seq(1 .. Length), accepted : Nat, oks : Nat]

AnswersInit ==
    /\ ansCtx = [s \in Services |-> << >>]
    /\ ansTop = [s \in Services |-> 0]
    /\ ansCall = [c \in Callers |-> AnswerIdle]
    /\ ansMade = 0
    /\ ansPast = [s \in Services |-> <<>>]

PutAnswer(s, h, e) ==
    [ansCtx EXCEPT ![s] = [x \in DOMAIN ansCtx[s] \cup {h} |-> IF x = h THEN e ELSE ansCtx[s][x]]]

\* A guest is in one call at a time.
AnswerBegin(c) ==
    /\ ansMade < MaxCalls
    /\ ansCall[c] = AnswerIdle
    /\ ansMade' = ansMade + 1

Holds(s, h, kind) == h \in DOMAIN ansCtx[s] /\ ansCtx[s][h].kind = kind

-----------------------------------------------------------------------------
(* Commands. *)

\* Parameters, method or buffer are refused; or an object is put into a bucket,
\* which has no handle.
Refused(c) ==
    /\ AnswerBegin(c)
    /\ UNCHANGED <<ansCtx, ansTop, ansCall, ansPast>>

Send(c, s) ==
    /\ AnswerBegin(c)
    /\ ansCall' = [ansCall EXCEPT ![c] = [AnswerIdle EXCEPT !.stage = "send", !.service = s,
                                                            !.req = ansMade']]
    /\ UNCHANGED <<ansCtx, ansTop, ansPast>>

\* The request or the connection fails, or s3 answers with another status than 200.
SendFails(c) ==
    /\ ansCall[c].stage = "send"
    /\ ansCall' = [ansCall EXCEPT ![c] = AnswerIdle]
    /\ UNCHANGED <<ansCtx, ansTop, ansMade, ansPast>>

\* increase_fd.
NewAnswerHandle(s) == ansTop[s] + 1

\* What a command gives: its answer; a connection for files/write; and nothing for
\* the deletion of an object.
Kinds(s) == {"bytes", IF s = "ipfs" THEN "raw" ELSE "none"}

Answered(c) ==
    /\ ansCall[c].stage = "send"
    /\ LET s == ansCall[c].service
       IN  /\ ansTop' = [ansTop EXCEPT ![s] = NewAnswerHandle(s)]
           /\ \E kind \in Kinds(s), len \in 0 .. Length :
                 /\ kind # "bytes" => len = 0
                 /\ ansCtx' = PutAnswer(s, ansTop'[s], NewAnswer(ansCall[c].req, kind, len))
           /\ ansPast' = [ansPast EXCEPT ![s] = Append(@, [req |-> ansCall[c].req, got |-> <<>>,
                                                           accepted |-> 0, oks |-> 0])]
    /\ ansCall' = [ansCall EXCEPT ![c] = AnswerIdle]
    /\ UNCHANGED ansMade

\* close: also of a handle that is not there, or that a call is waiting with.
AnswerClose(c, s, h) ==
    /\ AnswerBegin(c)
    /\ ansCtx' = [ansCtx EXCEPT ![s] = [x \in DOMAIN @ \ {h} |-> @[x]]]
    /\ UNCHANGED <<ansTop, ansCall, ansPast>>

-----------------------------------------------------------------------------
(* Reading an answer: copy_remain. *)

\* Mutation: the read point is what this read has taken.
PointSet(point, size) == size

\* set_read_point.
PointAfter(point, size) == point + size

Read(c, s, h, room) ==
    /\ AnswerBegin(c)
    /\ Holds(s, h, "bytes")
    /\ LET e == ansCtx[s][h]
           remain == e.len - e.point
           size == IF remain <= room THEN remain ELSE room
       IN  /\ ansCtx' = PutAnswer(s, h, [e EXCEPT !.point = IF size > 0 THEN PointAfter(@, size) ELSE @])
           /\ ansPast' = [ansPast EXCEPT ![s][h].got = @ \o [i \in 1 .. size |-> e.point + i]]
    /\ UNCHANGED <<ansTop, ansCall>>

\* InvalidHandle: an absent handle, the handle of a deletion.
AnswerInvalid(c, s, h) ==
    /\ AnswerBegin(c)
    /\ h \notin DOMAIN ansCtx[s] \/ Holds(s, h, "none")
    /\ UNCHANGED <<ansCtx, ansTop, ansCall, ansPast>>

-----------------------------------------------------------------------------
(* The raw connection of files/write. *)

\* The entry that call c waits with: the driver keeps a reference into the map
\* across its awaits.
Raw(c) == ansCtx["ipfs"][ansCall[c].fd]
There(c) == Holds("ipfs", ansCall[c].fd, "raw")
SetRaw(c, e) == ansCtx' = PutAnswer("ipfs", ansCall[c].fd, e)

Wait(c, stage, h) ==
    /\ AnswerBegin(c)
    /\ Holds("ipfs", h, "raw")
    /\ ansCall' = [ansCall EXCEPT ![c] = [AnswerIdle EXCEPT !.stage = stage, !.fd = h]]
    /\ UNCHANGED <<ansCtx, ansTop, ansPast>>

\* ipfs_write and ipfs_read.
RawWrite(c, h) == Wait(c, "write", h)
RawRead(c, h) == Wait(c, "head", h)

End(c) == ansCall' = [ansCall EXCEPT ![c] = AnswerIdle]

\* All is written, and the daemon answers it. What a second write sends comes
\* behind the end of the request and is answered as a request of its own.
Written(c) ==
    /\ ansCall[c].stage = "write" /\ There(c) /\ ~Raw(c).eof
    /\ \E status \in Statuses, form \in Forms :
          /\ SetRaw(c, [Raw(c) EXCEPT !.wire = @ \o <<status>> \o form])
          /\ ansPast' = IF status = "200"
                        THEN [ansPast EXCEPT !["ipfs"][ansCall[c].fd].accepted = @ + 1] ELSE ansPast
    /\ End(c)
    /\ UNCHANGED <<ansTop, ansMade>>

\* The connection fails: RequestError.
Fails(c) ==
    /\ ansCall[c].stage \in {"write", "head", "body"}
    /\ End(c)
    /\ UNCHANGED <<ansCtx, ansTop, ansMade, ansPast>>

\* The daemon closes the connection behind what it has sent.
PeerCloses(h) ==
    /\ Holds("ipfs", h, "raw") /\ ~ansCtx["ipfs"][h].eof
    /\ ansCtx' = [ansCtx EXCEPT !["ipfs"][h].eof = TRUE]
    /\ UNCHANGED <<ansTop, ansCall, ansMade, ansPast>>

\* The entry was closed under a call that waits with it: the reference dangles, and
\* the call fails or ends its guest.
Dangling(c) ==
    /\ ansCall[c].stage \in {"write", "head", "body"} /\ ~There(c)
    /\ ansCall' = [ansCall EXCEPT ![c] = AnswerGone]
    /\ UNCHANGED <<ansCtx, ansTop, ansMade, ansPast>>

\* The next n tokens come into the buffer of the call.
Arrive(c, n) ==
    /\ There(c) /\ n \in 1 .. Len(Raw(c).wire)
    /\ SetRaw(c, [Raw(c) EXCEPT !.wire = SubSeq(@, n + 1, Len(@))])
    /\ UNCHANGED <<ansTop, ansMade, ansPast>>
Arrived(c, n) == ansCall[c].buffer \o SubSeq(Raw(c).wire, 1, n)

\* read_response: empty lines before the status line are skipped.
FirstLine(buffer) == Ext!SelectInSeq(buffer, LAMBDA t : t # "eol")
AfterHead(buffer) == SubSeq(buffer, FirstLine(buffer) + 1, Len(buffer))

HeadArrives(c, n) ==
    /\ ansCall[c].stage = "head"
    /\ Arrive(c, n)
    /\ LET buffer == Arrived(c, n)
           line == FirstLine(buffer)
       IN  ansCall' = [ansCall EXCEPT ![c] =
              IF line = 0 THEN [@ EXCEPT !.buffer = buffer]
              ELSE IF buffer[line] \in Statuses
                   THEN [@ EXCEPT !.stage = "body", !.status = buffer[line],
                                  !.buffer = AfterHead(buffer)]
                   ELSE AnswerIdle]

\* Nine reads bring nothing: the chunks are read without a status.
HeadEnds(c) ==
    /\ ansCall[c].stage = "head" /\ There(c)
    /\ Raw(c).eof /\ Raw(c).wire = <<>>
    /\ ansCall' = [ansCall EXCEPT ![c].stage = "body"]
    /\ UNCHANGED <<ansCtx, ansTop, ansMade, ansPast>>

\* read_bulks: more bytes for a size that is not complete; at the end of the
\* connection none come, and the loop goes on.
BodyArrives(c, n) ==
    /\ ansCall[c].stage = "body" /\ ansCall[c].buffer = <<>>
    /\ Arrive(c, n)
    /\ ansCall' = [ansCall EXCEPT ![c].buffer = Arrived(c, n)]

Spins(c) ==
    /\ ansCall[c].stage = "body" /\ ansCall[c].buffer = <<>> /\ There(c)
    /\ Raw(c).eof /\ Raw(c).wire = <<>>
    /\ ansCall' = [ansCall EXCEPT ![c].stage = "spin"]
    /\ UNCHANGED <<ansCtx, ansTop, ansMade, ansPast>>

\* A chunk whose data is here, with the end of line if that is here too. The data
\* that is missing is read into a vector without length, and split_to panics.
Whole(buffer) == Ext!IsPrefix(<<"size", "half", "half">>, buffer)
RawChunk(c) ==
    /\ ansCall[c].stage = "body" /\ Ext!IsPrefix(<<"size">>, ansCall[c].buffer)
    /\ LET buffer == ansCall[c].buffer
           used == IF Len(buffer) > 3 /\ buffer[4] = "eol" THEN 4 ELSE 3
       IN  ansCall' = [ansCall EXCEPT ![c] =
              IF Whole(buffer) THEN [@ EXCEPT !.buffer = SubSeq(buffer, used + 1, Len(buffer))]
              ELSE AnswerGone]
    /\ UNCHANGED <<ansCtx, ansTop, ansMade, ansPast>>

\* Mutation: the status is not looked at.
AcceptedAny(status) == TRUE

\* read_body: Ok(0) for status 200.
Accepted(status) == status = "200"

\* The last chunk, or an end of line that was not there when its chunk was taken,
\* which counts as a size of zero; a status or data is no size. What else is in the
\* buffer is lost.
BodyEnds(c) ==
    /\ ansCall[c].stage = "body" /\ ansCall[c].buffer # <<>> /\ ansCall[c].buffer[1] # "size"
    /\ ansPast' = IF ansCall[c].buffer[1] \in {"last", "eol"} /\ Accepted(ansCall[c].status)
                  THEN [ansPast EXCEPT !["ipfs"][ansCall[c].fd].oks = @ + 1] ELSE ansPast
    /\ End(c)
    /\ UNCHANGED <<ansCtx, ansTop, ansMade>>

-----------------------------------------------------------------------------
AnswerStep(c) ==
    \/ Refused(c) \/ SendFails(c) \/ Answered(c)
    \/ Written(c) \/ Fails(c) \/ Dangling(c)
    \/ There(c) /\ \E n \in 1 .. Len(Raw(c).wire) : HeadArrives(c, n) \/ BodyArrives(c, n)
    \/ HeadEnds(c) \/ Spins(c) \/ RawChunk(c) \/ BodyEnds(c)
    \* A new call; the bound is looked at before the arguments are enumerated.
    \/ /\ ansMade < MaxCalls
       /\ \/ \E s \in Services :
                \/ Send(c, s)
                \/ \E h \in AnswerHandles : AnswerClose(c, s, h) \/ AnswerInvalid(c, s, h)
                \/ \E h \in AnswerHandles, room \in Sizes : Read(c, s, h, room)
          \/ \E h \in AnswerHandles : RawWrite(c, h) \/ RawRead(c, h)

AnswersNext == (\E c \in Callers : AnswerStep(c)) \/ (\E h \in AnswerHandles : PeerCloses(h))

AnswersSpec == AnswersInit /\ [][AnswersNext]_answerVars

-----------------------------------------------------------------------------
(* Properties. *)

\* The types of the variables; handles are numbers that increase_fd has given.
AnswersTypeOK ==
    /\ ansTop \in [Services -> Nat]
    /\ ansMade \in 0 .. MaxCalls
    /\ ansCall \in [Callers -> AnswerCalls]
    /\ DOMAIN ansCtx = Services
    /\ ansPast \in [Services -> Seq(Pasts)]
    /\ \A s \in Services :
          /\ DOMAIN ansCtx[s] \subseteq 1 .. ansTop[s]
          /\ \A h \in DOMAIN ansCtx[s] : ansCtx[s][h] \in AnswerEntries
          /\ Len(ansPast[s]) = ansTop[s]

\* A handle stands for the answer to the request it was given for, although
\* commands of several guests end in any order, and its readers get the bytes of
\* that answer in order and once (command, bucket_command, copy_remain).
BytesInOrder ==
    \A s \in Services : \A h \in DOMAIN ansCtx[s] :
        /\ ansCtx[s][h].req = ansPast[s][h].req
        /\ ansPast[s][h].got = [i \in 1 .. ansCtx[s][h].point |-> i]

\* A read of a raw connection returns Ok once at most for each write that the
\* daemon has accepted, however its answers are cut into pieces and whoever reads
\* them (read_response, read_bulks).
OkOnce == \A h \in 1 .. ansTop["ipfs"] : ansPast["ipfs"][h].oks <= ansPast["ipfs"][h].accepted

=============================================================================

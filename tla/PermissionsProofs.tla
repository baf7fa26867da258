------------------------- MODULE PermissionsProofs -------------------------
(* Theorems about Permissions, for any number of threads, any options, any  *)
(* items and any lines that are typed.                                      *)
EXTENDS Permissions, SequenceTheorems, TLAPS

\* The stages of a check that waits for the prompter; of a prompter that has the
\* screen; and of a thread that has stdin.
Prompting == {"prompt", "screen", "stdin", "clear", "reclear", "ask", "answered"}
Screening == {"stdin", "clear", "reclear", "ask", "answered"}
Listening == {"reading", "clear", "reclear", "ask", "answered"}

\* Who holds which lock. Nothing is asked of the streams once the process has ended.
LockInv ==
    /\ \A t \in Threads : call[t].stage \in Prompting <=> container = t
    /\ alive => \A t \in Threads : /\ call[t].stage \in Screening <=> screen = t
                                   /\ call[t].stage \in Listening <=> stdinLock = t

\* What a prompter reads as the answer to the question on the screen: the queue has
\* lines that were typed while it was displayed, and the buffer only the rest of a line.
LineInv ==
    /\ rest = NoLine \/ rest.begun
    /\ \A t \in Threads : At(t, "ask") => \A i \in 1 .. Len(typed) : typed[i].asked = shown

\* An answer that has been read and not been returned yet.
Pending(k, x, response) ==
    \E t \in Threads : /\ call[t].stage = "answered" /\ call[t].response = response
                       /\ call[t].kind = k /\ call[t].item = x

\* What the container has is what the options and the answers of the user say.
PermsInv ==
    \A k \in Kinds :
        /\ perms[k].deniedAll = config.deny[k].all
        /\ perms[k].grantedAll => \/ config.allowAll \/ config.allow[k].all
                                  \/ \E a \in answers : a.kind = k /\ a.response = "AllowAll"
        /\ \A x \in Items :
              /\ x \in perms[k].denied <=> ~config.allowAll /\ ~config.deny[k].all /\ x \in config.deny[k].list
              /\ x \in perms[k].granted => OptionsAllow(k, x) \/ UserAllows(k, x)
              /\ UserDenies(k, x) => x \in perms[k].refused \/ Pending(k, x, "Deny")

\* An answer that gives a permission has been read for this very question.
PendingInv ==
    \A t \in Threads :
        call[t].stage = "answered" /\ call[t].response # "Deny" =>
            \E a \in answers : /\ a.kind = call[t].kind /\ a.response = call[t].response
                               /\ a.item = call[t].item

\* What is asked is neither granted nor denied; what was used is still granted.
AskedInv ==
    /\ \A t \in Threads : call[t].stage \in Prompting =>
          ~Granted(call[t].kind, call[t].item) /\ ~Denied(call[t].kind, call[t].item)
    /\ \A u \in used : Granted(u[1], u[2])

GrantInv == PermsInv /\ PendingInv /\ AskedInv

-----------------------------------------------------------------------------
(* Types. *)

LEMMA IdleTypes == NoCall \in Calls /\ NoLine \in Lines
<1>1. /\ (CHOOSE k \in Kinds : TRUE) \in Kinds
      /\ (CHOOSE x \in Items : TRUE) \in Items
  BY PermissionsAssumption
<1>2. NoCall \in Calls
  BY <1>1 DEF NoCall, Calls, Stages, Responses
<1>3. NoLine \in Lines
  BY DEF NoLine, Lines
<1> QED
  BY <1>2, <1>3

\* What a reader of stdin finds first, and what it leaves in the queue.
LEMMA LineTypes ==
    ASSUME TypeOK, Available
    PROVE  FirstLine \in Lines /\ Queue \in Seq(Lines)
<1>1. CASE Buffered
  BY <1>1 DEF TypeOK, FirstLine, Queue
<1>2. CASE ~Buffered
  <2>1. typed # <<>> /\ typed \in Seq(Lines)
    BY <1>2 DEF TypeOK, Available
  <2> QED
    BY <1>2, <2>1, HeadTailProperties DEF FirstLine, Queue
<1> QED
  BY <1>1, <1>2

\* What is left of a line whose beginning a guest has read.
LEMMA RestType ==
    ASSUME NEW line \in Lines, NEW n \in Nat
    PROVE  [line EXCEPT !.text = SubSeq(@, n + 1, Len(@)), !.begun = TRUE] \in Lines
<1>1. line.text \in Seq(STRING)
  BY DEF Lines
<1>2. SubSeq(line.text, n + 1, Len(line.text)) \in Seq(STRING)
  BY <1>1
<1> QED
  BY <1>2 DEF Lines

\* The prompter returns.
LEMMA RespondTypes ==
    ASSUME TypeOK, NEW t \in Threads, NEW response \in Responses, Respond(t, response)
    PROVE  /\ perms' \in [Kinds -> Container]
           /\ container' \in Threads \cup {Nobody}
           /\ used' \subseteq Kinds \X Items
           /\ call' \in [Threads -> Calls]
<1> DEFINE k == call[t].kind
           x == call[t].item
<1>1. k \in Kinds /\ x \in Items
  BY DEF TypeOK, Calls
<1>2. Answered(k, x, response) \in Container
  <2> DEFINE p == perms[k]
  <2>1. p \in Container
    BY <1>1 DEF TypeOK
  <2>2. /\ (IF response = "Allow" THEN p.granted \cup {x} ELSE p.granted) \in SUBSET Items
        /\ (p.grantedAll \/ response = "AllowAll") \in BOOLEAN
        /\ (IF response = "Deny" THEN p.refused \cup {x} ELSE p.refused) \in SUBSET Items
    BY <1>1, <2>1 DEF Container
  <2> QED
    BY <2>1, <2>2 DEF Answered, Container
<1>3. perms' = [perms EXCEPT ![k] = Answered(k, x, response)]
  BY DEF Respond
<1>4. perms' \in [Kinds -> Container]
  BY <1>1, <1>2, <1>3 DEF TypeOK
<1>5. container' = Nobody /\ used' \subseteq Kinds \X Items
  BY <1>1 DEF TypeOK, Respond
<1>6. call' \in [Threads -> Calls]
  BY IdleTypes DEF TypeOK, Respond
<1> QED
  BY <1>4, <1>5, <1>6

LEMMA ConfigTypes ==
    ASSUME NEW c \in ConfigType, NEW k \in Kinds
    PROVE  SetConfig(c, k) \in Container
<1>1. c.allow[k] \in Grants /\ c.deny[k] \in Grants /\ c.allowAll \in BOOLEAN
  BY DEF ConfigType
<1>2. Options(c, k) \in Container
  BY <1>1 DEF Options, Container, Grants
<1> QED
  BY <1>1, <1>2 DEF SetConfig, Container, Grants

LEMMA TypeInit == Init => TypeOK
<1> SUFFICES ASSUME Init PROVE TypeOK
  OBVIOUS
<1>1. config \in ConfigType /\ perms \in [Kinds -> Container]
  BY PermissionsAssumption, ConfigTypes DEF Init
<1>2. call \in [Threads -> Calls] /\ rest \in Lines
  BY IdleTypes DEF Init
<1> QED
  BY <1>1, <1>2, PermissionsAssumption DEF Init, TypeOK, Stdins

\* The user, the terminal, and what the guest does with the streams.
LEMMA WorldTypes ==
    ASSUME TypeOK,
           \/ HangUp \/ ReaderTakes \/ ReaderEnds
           \/ \E text \in Texts : Type(text)
           \/ \E t \in Threads : GuestWrite(t) \/ GuestRead(t) \/ Reads(t)
    PROVE  TypeOK'
<1> USE DEF world, checks
<1>1. CASE HangUp
  <2>1. terminal' \in BOOLEAN
    BY <1>1 DEF HangUp
  <2>2. typed' \in Seq(Lines)
    BY <1>1 DEF HangUp
  <2> QED
    BY <1>1, <2>1, <2>2 DEF TypeOK, HangUp
<1>2. CASE ReaderTakes
  <2>1. Tail(typed) \in Seq(Lines)
    BY <1>2, HeadTailProperties DEF TypeOK, ReaderTakes
  <2> QED
    BY <1>2, <2>1 DEF TypeOK, ReaderTakes
<1>3. CASE ReaderEnds
  BY <1>3 DEF TypeOK, ReaderEnds
<1>4. ASSUME NEW text \in Texts, Type(text) PROVE TypeOK'
  <2>1. lines + 1 \in 0 .. MaxLines
    BY <1>4, PermissionsAssumption DEF TypeOK, Type
  <2>2. [text |-> text, asked |-> IF Standing THEN display ELSE 0, begun |-> FALSE] \in Lines
    BY PermissionsAssumption DEF TypeOK, Lines
  <2>3. typed' \in Seq(Lines)
    <3>1. typed \in Seq(Lines)
      BY DEF TypeOK
    <3>2. typed' = Append(typed, [text |-> text, asked |-> IF Standing THEN display ELSE 0, begun |-> FALSE])
      BY <1>4 DEF Type
    <3> QED
      BY <2>2, <3>1, <3>2, AppendProperties
  <2> QED
    BY <1>4, <2>1, <2>3 DEF TypeOK, Type
<1>5. ASSUME NEW t \in Threads, GuestWrite(t) PROVE TypeOK'
  BY <1>5 DEF TypeOK, GuestWrite
<1>6. ASSUME NEW t \in Threads, GuestRead(t) PROVE TypeOK'
  <2>1. calls + 1 \in 0 .. MaxCalls
    BY <1>6, PermissionsAssumption DEF TypeOK, GuestRead
  <2>2. [NoCall EXCEPT !.stage = "reading"] \in Calls
    BY IdleTypes DEF Calls, Stages
  <2>3. call' \in [Threads -> Calls]
    BY <1>6, <2>2 DEF TypeOK, GuestRead
  <2> QED
    BY <1>6, <2>1, <2>3 DEF TypeOK, GuestRead
<1>7. ASSUME NEW t \in Threads, Reads(t) PROVE TypeOK'
  <2>1. ASSUME Available, NEW n \in 1 .. Len(FirstLine.text), GuestReads(t, n) PROVE TypeOK'
    <3>1. FirstLine \in Lines /\ Queue \in Seq(Lines)
      BY <2>1, LineTypes
    <3>2. n \in Nat
      BY <2>1
    <3>3. rest' \in Lines /\ typed' \in Seq(Lines)
      BY <2>1, <3>1, <3>2, RestType, IdleTypes DEF GuestReads
    <3>4. call' \in [Threads -> Calls]
      BY <2>1, IdleTypes DEF TypeOK, GuestReads
    <3> QED
      BY <2>1, <3>3, <3>4 DEF TypeOK, GuestReads
  <2>2. ASSUME GuestReadsEnd(t) PROVE TypeOK'
    BY <2>2, IdleTypes DEF TypeOK, GuestReadsEnd
  <2> QED
    BY <1>7, <2>1, <2>2 DEF Reads
<1> QED
  BY <1>1, <1>2, <1>3, <1>4, <1>5, <1>6, <1>7

LEMMA CheckTypes ==
    ASSUME TypeOK, NEW t \in Threads, NEW k \in Kinds, NEW x \in Items, Check(t, k, x)
    PROVE  TypeOK'
<1>1. calls + 1 \in 0 .. MaxCalls
  BY PermissionsAssumption DEF TypeOK, Check
<1>2. [stage |-> "prompt", kind |-> k, item |-> x, response |-> "Deny"] \in Calls
  BY DEF Calls, Stages, Responses
<1>3. /\ used' \subseteq Kinds \X Items
      /\ call' \in [Threads -> Calls]
      /\ container' \in Threads \cup {Nobody}
  BY <1>2 DEF TypeOK, Check
<1> QED
  BY <1>1, <1>3 DEF TypeOK, Check, world, streams

LEMMA PromptTypes ==
    ASSUME TypeOK, NEW t \in Threads, Prompter(t)
    PROVE  TypeOK'
<1> USE DEF world, checks, streams, Unlock, Goes
<1>1. \A stage \in Stages : [call EXCEPT ![t].stage = stage] \in [Threads -> Calls]
  BY DEF TypeOK, Calls
<1>2. {"screen", "stdin", "clear", "reclear", "ask", "answered"} \subseteq Stages /\ "Deny" \in Responses
  BY DEF Stages, Responses
<1>3. CASE PromptDenied(t)
  <2>1. Respond(t, "Deny") /\ display' \in Nat
    BY <1>3 DEF TypeOK, PromptDenied
  <2>2. /\ perms' \in [Kinds -> Container] /\ container' \in Threads \cup {Nobody}
        /\ used' \subseteq Kinds \X Items /\ call' \in [Threads -> Calls]
    BY <1>2, <2>1, RespondTypes
  <2> QED
    BY <1>3, <2>1, <2>2 DEF TypeOK, PromptDenied
<1>4. CASE PromptBegins(t)
  <2>1. call' \in [Threads -> Calls]
    BY <1>1, <1>2, <1>4 DEF TypeOK, PromptBegins, Panic
  <2> QED
    BY <1>4, <2>1 DEF TypeOK, PromptBegins, Panic
<1>5. CASE LockScreen(t)
  <2>1. call' \in [Threads -> Calls]
    BY <1>1, <1>2, <1>5 DEF LockScreen
  <2> QED
    BY <1>5, <2>1 DEF TypeOK, LockScreen, ScreenHeld
<1>6. CASE LockStdin(t)
  <2>1. call' \in [Threads -> Calls]
    BY <1>1, <1>2, <1>6 DEF LockStdin
  <2> QED
    BY <1>6, <2>1 DEF TypeOK, LockStdin
<1>7. CASE Flush(t)
  BY <1>7 DEF TypeOK, Flush
<1>8. CASE Display(t)
  <2>1. call' \in [Threads -> Calls] /\ shown + 1 \in Nat
    BY <1>1, <1>2, <1>8 DEF TypeOK, Display
  <2> QED
    BY <1>8, <2>1 DEF TypeOK, Display
<1>9. CASE Ask(t)
  <2>1. call' \in [Threads -> Calls]
    BY <1>1, <1>2, <1>9 DEF Ask
  <2> QED
    BY <1>9, <2>1 DEF TypeOK, Ask
<1>10. CASE ClearFails(t)
  <2>1. /\ perms' \in [Kinds -> Container] /\ container' \in Threads \cup {Nobody}
        /\ used' \subseteq Kinds \X Items /\ call' \in [Threads -> Calls]
    BY <1>2, <1>10, RespondTypes DEF ClearFails
  <2> QED
    BY <1>10, <2>1 DEF TypeOK, ClearFails
<1>11. CASE ReadAnswer(t)
  <2>1. FirstLine \in Lines /\ typed' \in Seq(Lines) /\ rest' \in Lines
    BY <1>11, LineTypes, IdleTypes DEF ReadAnswer
  <2>2. PICK r \in ResponsesTo(Trimmed(FirstLine.text)) :
          IF r = "Again"
          THEN /\ shown' = shown + 1 /\ display' = shown + 1
               /\ Goes(t, "reclear")
               /\ UNCHANGED answers
          ELSE /\ answers' = answers \cup {[question |-> shown, kind |-> call[t].kind, item |-> call[t].item,
                                           line |-> FirstLine, response |-> r]}
               /\ call' = [call EXCEPT ![t].stage = "answered", ![t].response = r]
               /\ UNCHANGED <<shown, display>>
    BY <1>11 DEF ReadAnswer
  <2>3. CASE r = "Again"
    <3>1. call' \in [Threads -> Calls] /\ shown + 1 \in Nat
      BY <1>1, <1>2, <2>2, <2>3 DEF TypeOK
    <3> QED
      BY <1>11, <2>1, <2>2, <2>3, <3>1 DEF TypeOK, ReadAnswer
  <2>4. CASE r # "Again"
    <3>1. r \in Responses
      BY <2>2, <2>4 DEF ResponsesTo
    <3>2. call[t] \in Calls
      BY DEF TypeOK
    <3>3. [question |-> shown, kind |-> call[t].kind, item |-> call[t].item,
           line |-> FirstLine, response |-> r] \in Answers
      BY <2>1, <3>1, <3>2 DEF TypeOK, Calls, Answers
    <3>4. call' \in [Threads -> Calls]
      BY <1>2, <2>2, <2>4, <3>1, <3>2, SMTT(20) DEF TypeOK, Calls
    <3>5. answers' \subseteq Answers
      BY <2>2, <2>4, <3>3 DEF TypeOK
    <3> QED
      BY <1>11, <2>1, <2>2, <2>4, <3>4, <3>5 DEF TypeOK, ReadAnswer
  <2> QED
    BY <2>3, <2>4
<1>12. CASE ReadNothing(t)
  <2>1. call' \in [Threads -> Calls]
    BY <1>2, <1>12 DEF TypeOK, ReadNothing, Calls
  <2> QED
    BY <1>12, <2>1 DEF TypeOK, ReadNothing
<1>13. CASE Finish(t)
  <2>1. CASE terminal
    <3>1. call[t].response \in Responses
      BY DEF TypeOK, Calls
    <3>2. /\ perms' \in [Kinds -> Container] /\ container' \in Threads \cup {Nobody}
          /\ used' \subseteq Kinds \X Items /\ call' \in [Threads -> Calls]
      BY <1>13, <2>1, <3>1, RespondTypes DEF Finish
    <3> QED
      BY <1>13, <2>1, <3>2 DEF TypeOK, Finish
  <2>2. CASE ~terminal
    BY <1>13, <2>2 DEF TypeOK, Finish, Panic
  <2> QED
    BY <2>1, <2>2
<1>14. CASE WriteFails(t)
  BY <1>14 DEF TypeOK, WriteFails, Panic
<1> QED
  BY <1>3, <1>4, <1>5, <1>6, <1>7, <1>8, <1>9, <1>10, <1>11, <1>12, <1>13, <1>14 DEF Prompter

\* The parts of a step.
LEMMA NextParts ==
    ASSUME Next
    PROVE  \/ HangUp \/ ReaderTakes \/ ReaderEnds
           \/ \E text \in Texts : Type(text)
           \/ \E t \in Threads : GuestWrite(t) \/ GuestRead(t) \/ Reads(t)
           \/ \E t \in Threads : Prompter(t)
           \/ \E t \in Threads, k \in Kinds, x \in Items : Check(t, k, x)
BY DEF Next

\* The variables keep their types, for any options and any lines.
THEOREM TypeCorrect == Spec => []TypeOK
<1>1. TypeOK /\ [Next]_vars => TypeOK'
  <2>1. CASE UNCHANGED vars
    BY <2>1 DEF TypeOK, vars
  <2>2. ASSUME TypeOK, Next PROVE TypeOK'
    BY <2>2, NextParts, WorldTypes, PromptTypes, CheckTypes
  <2> QED
    BY <2>1, <2>2
<1> QED
  BY <1>1, TypeInit, PTL DEF Spec

-----------------------------------------------------------------------------
(* The locks. *)

LEMMA LockInit == Init => LockInv
BY PermissionsAssumption DEF Init, LockInv, NoCall, Prompting, Screening, Listening

LEMMA WorldLocks ==
    ASSUME TypeOK, LockInv,
           \/ HangUp \/ ReaderTakes \/ ReaderEnds
           \/ \E text \in Texts : Type(text)
           \/ \E t \in Threads : GuestWrite(t) \/ GuestRead(t) \/ Reads(t)
    PROVE  LockInv'
<1> USE DEF world, checks
<1>1. CASE HangUp \/ ReaderTakes \/ (\E text \in Texts : Type(text)) \/ (\E t \in Threads : GuestWrite(t))
  <2>1. UNCHANGED <<container, screen, stdinLock, call, alive>>
    BY <1>1 DEF HangUp, ReaderTakes, Type, GuestWrite
  <2> QED
    BY <2>1 DEF LockInv
<1>2. CASE ReaderEnds
  BY <1>2, PermissionsAssumption DEF LockInv, ReaderEnds
<1>3. ASSUME NEW t \in Threads, GuestRead(t) PROVE LockInv'
  <2>1. call' = [call EXCEPT ![t] = [NoCall EXCEPT !.stage = "reading"]] /\ stdinLock' = t
    BY <1>3 DEF GuestRead
  <2>2. call[t].stage = "idle" /\ stdinLock = Nobody /\ alive
    BY <1>3 DEF GuestRead, Idle, At
  <2>3. [NoCall EXCEPT !.stage = "reading"].stage = "reading"
    BY DEF NoCall
  <2>4. ASSUME NEW s \in Threads
        PROVE  call'[s].stage = IF s = t THEN "reading" ELSE call[s].stage
    BY <2>1, <2>3 DEF TypeOK
  <2>5. UNCHANGED <<container, screen, alive>>
    BY <1>3 DEF GuestRead
  <2> QED
    BY <2>1, <2>2, <2>4, <2>5, PermissionsAssumption DEF LockInv, Prompting, Screening, Listening
<1>4. ASSUME NEW t \in Threads, Reads(t) PROVE LockInv'
  <2>1. call[t].stage = "reading" /\ alive /\ call' = [call EXCEPT ![t] = NoCall] /\ stdinLock' = Nobody
    BY <1>4 DEF Reads, GuestReads, GuestReadsEnd, At
  <2>2. UNCHANGED <<container, screen, alive>>
    BY <1>4 DEF Reads, GuestReads, GuestReadsEnd
  <2>3. ASSUME NEW s \in Threads
        PROVE  call'[s].stage = IF s = t THEN "idle" ELSE call[s].stage
    BY <2>1 DEF TypeOK, NoCall
  <2> QED
    BY <2>1, <2>2, <2>3, PermissionsAssumption DEF LockInv, Prompting, Screening, Listening
<1> QED
  BY <1>1, <1>2, <1>3, <1>4

LEMMA CheckLocks ==
    ASSUME TypeOK, LockInv, NEW t \in Threads, NEW k \in Kinds, NEW x \in Items, Check(t, k, x)
    PROVE  LockInv'
<1>1. call[t].stage = "idle" /\ alive /\ container = Nobody
  BY DEF Check, Idle, At
<1>2. UNCHANGED <<alive, screen, stdinLock>>
  BY DEF Check, world, streams
<1>3. CASE UNCHANGED <<container, call>>
  BY <1>2, <1>3 DEF LockInv
<1>4. CASE /\ container' = t
           /\ call' = [call EXCEPT ![t] = [stage |-> "prompt", kind |-> k, item |-> x, response |-> "Deny"]]
  <2>1. ASSUME NEW s \in Threads
        PROVE  call'[s].stage = IF s = t THEN "prompt" ELSE call[s].stage
    BY <1>4 DEF TypeOK
  <2> QED
    BY <1>1, <1>2, <1>4, <2>1, PermissionsAssumption DEF LockInv, Prompting, Screening, Listening
<1> QED
  BY <1>3, <1>4 DEF Check

\* A step of the prompter of t is in one of these parts of the protocol.
PromptMove(t, from, to) ==
    /\ call[t].stage = from /\ alive
    /\ \A s \in Threads : call'[s].stage = IF s = t THEN to ELSE call[s].stage

LEMMA PromptLocks ==
    ASSUME TypeOK, LockInv, NEW t \in Threads, Prompter(t)
    PROVE  LockInv'
<1> USE DEF world, checks, streams
<1>1. ASSUME NEW from \in Stages, NEW to \in Stages \cup {call[t].stage}, call[t].stage = from, alive, Goes(t, to)
      PROVE  PromptMove(t, from, to)
  BY <1>1 DEF TypeOK, Calls, Goes, PromptMove
<1>2. ASSUME NEW from \in Stages, NEW response \in Responses, call[t].stage = from, alive, Respond(t, response)
      PROVE  PromptMove(t, from, "idle") /\ container' = Nobody
  BY <1>2 DEF TypeOK, Respond, NoCall, PromptMove
<1>3. /\ {"prompt", "screen", "stdin", "clear", "reclear", "ask", "answered", "idle"} \subseteq Stages
      /\ "Deny" \in Responses /\ call[t].response \in Responses
  BY DEF Stages, Responses, TypeOK, Calls
<1> USE PermissionsAssumption DEF Prompting, Screening, Listening
<1>4. CASE PromptDenied(t)
  <2>1. PromptMove(t, "prompt", "idle") /\ container' = Nobody /\ UNCHANGED <<screen, stdinLock, alive>>
    BY <1>2, <1>3, <1>4 DEF PromptDenied, At
  <2> QED
    BY <2>1 DEF LockInv, PromptMove
<1>5. CASE PromptBegins(t)
  <2>1. CASE InheritKnown
    <3>1. PromptMove(t, "prompt", "screen") /\ UNCHANGED <<container, screen, stdinLock, alive>>
      BY <1>1, <1>3, <1>5, <2>1 DEF PromptBegins, At
    <3> QED
      BY <3>1 DEF LockInv, PromptMove
  <2>2. CASE ~InheritKnown
    BY <1>5, <2>2 DEF LockInv, PromptBegins, Panic
  <2> QED
    BY <2>1, <2>2
<1>6. CASE LockScreen(t)
  <2>1. PromptMove(t, "screen", "stdin") /\ screen = Nobody /\ screen' = t /\ UNCHANGED <<container, stdinLock, alive>>
    BY <1>1, <1>3, <1>6 DEF LockScreen, ScreenHeld, At
  <2> QED
    BY <2>1 DEF LockInv, PromptMove
<1>7. CASE LockStdin(t)
  <2>1. PromptMove(t, "stdin", "clear") /\ stdinLock = Nobody /\ stdinLock' = t /\ UNCHANGED <<container, screen, alive>>
    BY <1>1, <1>3, <1>7 DEF LockStdin, At
  <2> QED
    BY <2>1 DEF LockInv, PromptMove
<1>8. CASE Flush(t)
  BY <1>8 DEF LockInv, Flush
<1>9. CASE Display(t)
  <2>1. PromptMove(t, "clear", "reclear") /\ UNCHANGED <<container, screen, stdinLock, alive>>
    BY <1>1, <1>3, <1>9 DEF Display, At
  <2> QED
    BY <2>1 DEF LockInv, PromptMove
<1>10. CASE Ask(t)
  <2>1. PromptMove(t, "reclear", "ask") /\ UNCHANGED <<container, screen, stdinLock, alive>>
    BY <1>1, <1>3, <1>10 DEF Ask, At
  <2> QED
    BY <2>1 DEF LockInv, PromptMove
<1>11. CASE ClearFails(t)
  <2>1. PICK from \in {"clear", "reclear"} : call[t].stage = from /\ alive
    BY <1>11 DEF ClearFails, Clearing, At
  <2>2. PromptMove(t, from, "idle") /\ container' = Nobody
        /\ screen' = Nobody /\ stdinLock' = Nobody /\ UNCHANGED alive
    BY <1>2, <1>3, <1>11, <2>1 DEF ClearFails, Unlock
  <2> QED
    BY <2>1, <2>2 DEF LockInv, PromptMove
<1>12. CASE ReadAnswer(t) \/ ReadNothing(t)
  <2>1. UNCHANGED <<container, screen, stdinLock, alive>>
    BY <1>12 DEF ReadAnswer, ReadNothing
  <2>2. PICK to \in {"reclear", "answered"} : PromptMove(t, "ask", to)
    BY <1>12 DEF TypeOK, Calls, ReadAnswer, ReadNothing, At, Goes, PromptMove
  <2> QED
    BY <2>1, <2>2 DEF LockInv, PromptMove
<1>13. CASE Finish(t)
  <2>1. call[t].stage = "answered" /\ alive /\ screen' = Nobody /\ stdinLock' = Nobody
    BY <1>13 DEF Finish, At, Unlock
  <2>2. CASE terminal
    <3>1. PromptMove(t, "answered", "idle") /\ container' = Nobody /\ UNCHANGED alive
      BY <1>2, <1>3, <1>13, <2>1, <2>2 DEF Finish
    <3> QED
      BY <2>1, <3>1 DEF LockInv, PromptMove
  <2>3. CASE ~terminal
    BY <1>13, <2>3 DEF LockInv, Finish, Panic
  <2> QED
    BY <2>2, <2>3
<1>14. CASE WriteFails(t)
  BY <1>14 DEF LockInv, WriteFails, Panic
<1> QED
  BY <1>4, <1>5, <1>6, <1>7, <1>8, <1>9, <1>10, <1>11, <1>12, <1>13, <1>14 DEF Prompter

-----------------------------------------------------------------------------
(* Questions and lines. *)

\* Only one thread is at its question, and it has the screen.
LEMMA OnePrompter ==
    ASSUME LockInv, alive, NEW s \in Threads, NEW t \in Threads,
           call[s].stage \in Prompting, call[t].stage \in Prompting
    PROVE  s = t
BY DEF LockInv

LEMMA WorldLines ==
    ASSUME TypeOK, LockInv, LineInv, QuestionStands,
           \/ HangUp \/ ReaderTakes \/ ReaderEnds
           \/ \E text \in Texts : Type(text)
           \/ \E t \in Threads : GuestWrite(t) \/ GuestRead(t) \/ Reads(t)
    PROVE  LineInv' /\ QuestionStands'
<1> USE DEF world, checks
<1>1. CASE HangUp
  <2>1. typed' = <<>> /\ UNCHANGED <<rest, call, alive, display, shown>>
    BY <1>1 DEF HangUp
  <2> QED
    BY <2>1 DEF LineInv, QuestionStands, At
<1>2. CASE ReaderTakes
  <2>1. typed' = Tail(typed) /\ stdinLock = Reader /\ alive /\ UNCHANGED <<rest, call, alive, display, shown>>
    BY <1>2 DEF ReaderTakes
  <2>2. \A t \in Threads : ~At(t, "ask")
    BY <2>1, PermissionsAssumption DEF LockInv, Listening, At
  <2> QED
    BY <2>1, <2>2 DEF LineInv, QuestionStands, At
<1>3. CASE ReaderEnds
  <2>1. UNCHANGED <<typed, rest, call, alive, display, shown>>
    BY <1>3 DEF ReaderEnds
  <2> QED
    BY <2>1 DEF LineInv, QuestionStands, At
<1>4. ASSUME NEW text \in Texts, Type(text) PROVE LineInv' /\ QuestionStands'
  <2>1. UNCHANGED <<rest, call, alive, display, shown>>
    BY <1>4 DEF Type
  <2> DEFINE line == [text |-> text, asked |-> IF Standing THEN display ELSE 0, begun |-> FALSE]
  <2>2. typed \in Seq(Lines) /\ typed' = Append(typed, line)
    BY <1>4 DEF TypeOK, Type
  <2>3. ASSUME NEW t \in Threads, At(t, "ask")
        PROVE  \A i \in 1 .. Len(typed') : typed'[i].asked = shown
    <3>1. Standing /\ display = shown
      BY <2>3 DEF Standing, At, QuestionStands
    <3>2. line.asked = shown
      BY <3>1
    <3>3. \A i \in 1 .. Len(typed) : typed[i].asked = shown
      BY <2>3 DEF LineInv
    <3> HIDE DEF line
    <3> QED
      BY <2>2, <3>2, <3>3
  <2> QED
    BY <2>1, <2>3 DEF LineInv, QuestionStands, At
<1>5. ASSUME NEW t \in Threads, GuestWrite(t) PROVE LineInv' /\ QuestionStands'
  <2>1. screen = Nobody /\ alive /\ UNCHANGED <<typed, rest, call, alive, shown>>
    BY <1>5 DEF GuestWrite, Idle, At
  <2>2. \A s \in Threads : ~At(s, "reclear") /\ ~At(s, "ask")
    BY <2>1, PermissionsAssumption DEF LockInv, Screening, At
  <2> QED
    BY <2>1, <2>2 DEF LineInv, QuestionStands, At
<1>6. ASSUME NEW t \in Threads, GuestRead(t) PROVE LineInv' /\ QuestionStands'
  <2>1. UNCHANGED <<typed, rest, alive, display, shown>>
    BY <1>6 DEF GuestRead
  <2>2. call' = [call EXCEPT ![t] = [NoCall EXCEPT !.stage = "reading"]]
    BY <1>6 DEF GuestRead
  <2>3. \A s \in Threads : call'[s].stage # "reading" => call'[s] = call[s]
    BY <2>2 DEF TypeOK, NoCall
  <2> QED
    BY <2>1, <2>3 DEF LineInv, QuestionStands, At
<1>7. ASSUME NEW t \in Threads, Reads(t) PROVE LineInv' /\ QuestionStands'
  <2>1. call[t].stage = "reading" /\ alive /\ call' = [call EXCEPT ![t] = NoCall]
    BY <1>7 DEF Reads, GuestReads, GuestReadsEnd, At
  <2>2. UNCHANGED <<alive, display, shown>>
    BY <1>7 DEF Reads, GuestReads, GuestReadsEnd
  <2>3. \A s \in Threads : call'[s].stage # "idle" => call'[s] = call[s]
    BY <2>1 DEF TypeOK, NoCall
  <2>4. \A s \in Threads : ~At(s, "ask")
    BY <2>1 DEF LockInv, Listening, At
  <2>5. rest' = rest \/ rest' = NoLine \/ rest'.begun
    <3>1. ASSUME Available, NEW n \in 1 .. Len(FirstLine.text), GuestReads(t, n)
          PROVE  rest' = NoLine \/ rest'.begun
      <4>1. FirstLine \in Lines
        BY <3>1, LineTypes
      <4>2. [FirstLine EXCEPT !.text = SubSeq(@, n + 1, Len(@)), !.begun = TRUE].begun
        BY <4>1 DEF Lines
      <4> QED
        BY <3>1, <4>2 DEF GuestReads
    <3>2. ASSUME GuestReadsEnd(t) PROVE rest' = rest
      BY <3>2 DEF GuestReadsEnd
    <3> QED
      BY <1>7, <3>1, <3>2 DEF Reads
  <2> QED
    BY <2>2, <2>3, <2>4, <2>5 DEF LineInv, QuestionStands, At
<1> QED
  BY <1>1, <1>2, <1>3, <1>4, <1>5, <1>6, <1>7

LEMMA CheckLines ==
    ASSUME TypeOK, LineInv, QuestionStands, NEW t \in Threads, NEW k \in Kinds, NEW x \in Items,
           Check(t, k, x)
    PROVE  LineInv' /\ QuestionStands'
<1>1. UNCHANGED <<typed, rest, alive, display, shown>>
  BY DEF Check, world, streams
<1>2. \A s \in Threads : call'[s].stage # "prompt" => call'[s] = call[s]
  BY DEF Check, TypeOK
<1> QED
  BY <1>1, <1>2 DEF LineInv, QuestionStands, At

LEMMA PromptLines ==
    ASSUME TypeOK, LockInv, LineInv, QuestionStands, NEW t \in Threads, Prompter(t)
    PROVE  LineInv' /\ QuestionStands'
<1> USE DEF world, checks, streams
<1>1. ASSUME NEW s \in Threads, s # t PROVE call'[s] = call[s]
  BY <1>1 DEF Prompter, TypeOK, PromptDenied, PromptBegins, LockScreen, LockStdin, Flush, Display, Ask,
         ClearFails, WriteFails, ReadAnswer, ReadNothing, Finish, Respond, Panic, Goes
<1>2. /\ \A response \in Responses : Respond(t, response) => call'[t].stage = "idle"
      /\ \A stage \in Stages : Goes(t, stage) => call'[t].stage = stage
  BY DEF TypeOK, Calls, Respond, NoCall, Goes
<1>3. /\ {"screen", "stdin", "clear", "reclear", "ask", "answered", "idle"} \subseteq Stages
      /\ "Deny" \in Responses /\ call[t].response \in Responses
  BY DEF Stages, Responses, TypeOK, Calls
<1>4. alive /\ (alive' => UNCHANGED alive)
  BY DEF Prompter, PromptDenied, PromptBegins, LockScreen, LockStdin, Flush, Clearing, Display, Ask,
         ClearFails, WriteFails, ReadAnswer, ReadNothing, Finish, At
<1>5. ASSUME NEW s \in Threads, s # t, call[t].stage \in Screening \/ screen = Nobody
      PROVE  call[s].stage \notin Screening
  BY <1>4, <1>5, PermissionsAssumption DEF LockInv
\* A step that puts t neither at its question nor before it.
<1>6. ASSUME call'[t].stage \notin {"reclear", "ask"}, UNCHANGED <<display, shown>>, rest' = rest \/ rest' = NoLine,
             typed' = typed \/ typed' = <<>> \/ \A s \in Threads : s # t => call[s].stage # "ask"
      PROVE  LineInv' /\ QuestionStands'
  <2>1. ASSUME NEW s \in Threads, At(s, "reclear")' \/ At(s, "ask")'
        PROVE  s # t /\ call'[s] = call[s]
    BY <1>1, <1>6, <2>1 DEF At
  <2>2. QuestionStands'
    BY <1>4, <1>6, <2>1 DEF QuestionStands, At
  <2>3. ASSUME NEW s \in Threads, At(s, "ask")' PROVE \A i \in 1 .. Len(typed') : typed'[i].asked = shown'
    <3>1. At(s, "ask") /\ s # t
      BY <1>4, <2>1, <2>3 DEF At
    <3>2. CASE typed' = typed
      BY <1>6, <3>1, <3>2 DEF LineInv
    <3>3. CASE typed' = <<>>
      BY <3>3
    <3> QED
      BY <1>6, <3>1, <3>2, <3>3 DEF At
  <2> QED
    BY <1>6, <2>2, <2>3 DEF LineInv
<1>7. CASE PromptDenied(t)
  <2>1. call'[t].stage = "idle" /\ UNCHANGED <<typed, rest, shown, alive>>
    BY <1>2, <1>3, <1>7 DEF PromptDenied
  <2>2. CASE UNCHANGED display
    BY <1>6, <2>1, <2>2
  <2>3. CASE screen = Nobody
    <3>1. \A s \in Threads : ~At(s, "reclear")' /\ ~At(s, "ask")'
      BY <1>1, <1>5, <2>1, <2>3 DEF At, Screening
    <3> QED
      BY <2>1, <3>1 DEF LineInv, QuestionStands
  <2> QED
    BY <1>7, <2>2, <2>3 DEF PromptDenied
<1>8. CASE PromptBegins(t)
  <2>1. CASE InheritKnown
    <3>1. call'[t].stage = "screen" /\ UNCHANGED <<typed, rest, shown, display>>
      BY <1>2, <1>3, <1>8, <2>1 DEF PromptBegins
    <3> QED
      BY <1>6, <3>1
  <2>2. CASE ~InheritKnown
    <3>1. ~alive' /\ UNCHANGED rest
      BY <1>8, <2>2 DEF PromptBegins, Panic
    <3> QED
      BY <3>1 DEF LineInv, QuestionStands, At
  <2> QED
    BY <2>1, <2>2
<1>9. CASE LockScreen(t)
  <2>1. call'[t].stage = "stdin" /\ UNCHANGED <<typed, rest, shown, display>>
    BY <1>2, <1>3, <1>9 DEF LockScreen
  <2> QED
    BY <1>6, <2>1
<1>10. CASE LockStdin(t)
  <2>1. call'[t].stage = "clear" /\ UNCHANGED <<typed, rest, shown, display>>
    BY <1>2, <1>3, <1>10 DEF LockStdin
  <2> QED
    BY <1>6, <2>1
<1>11. CASE Flush(t)
  <2>1. typed' = <<>> /\ UNCHANGED <<rest, call, shown, display, alive>>
    BY <1>11 DEF Flush
  <2> QED
    BY <2>1 DEF LineInv, QuestionStands, At
<1>12. CASE Display(t)
  <2>1. /\ call[t].stage = "clear" /\ call'[t].stage = "reclear"
        /\ shown' = shown + 1 /\ display' = shown + 1 /\ UNCHANGED <<typed, rest, alive>>
    BY <1>2, <1>3, <1>12 DEF Display, At
  <2>2. \A s \in Threads : s # t => ~At(s, "reclear")' /\ ~At(s, "ask")'
    BY <1>1, <1>5, <2>1 DEF At, Screening
  <2>3. shown \in Nat
    BY DEF TypeOK
  <2> QED
    BY <2>1, <2>2, <2>3 DEF LineInv, QuestionStands, At
<1>13. CASE Ask(t)
  <2>1. /\ call[t].stage = "reclear" /\ call'[t].stage = "ask" /\ typed = <<>>
        /\ UNCHANGED <<typed, rest, shown, display, alive>>
    BY <1>2, <1>3, <1>13 DEF Ask, At, Quiet
  <2> QED
    BY <1>1, <1>4, <2>1 DEF LineInv, QuestionStands, At
<1>14. CASE ClearFails(t)
  <2>1. /\ call[t].stage \in {"clear", "reclear"} /\ call'[t].stage = "idle"
        /\ UNCHANGED <<typed, rest, shown, alive>>
    BY <1>2, <1>3, <1>14 DEF ClearFails, Clearing, At
  <2>2. \A s \in Threads : ~At(s, "reclear")' /\ ~At(s, "ask")'
    BY <1>1, <1>5, <2>1 DEF At, Screening
  <2> QED
    BY <2>1, <2>2 DEF LineInv, QuestionStands
<1>15. CASE ReadAnswer(t)
  <2>1. call[t].stage = "ask" /\ rest' = NoLine /\ UNCHANGED alive
    BY <1>15 DEF ReadAnswer, At
  <2>2. \A s \in Threads : s # t => call[s].stage \notin Screening
    BY <1>5, <2>1 DEF Screening
  <2>3. CASE call'[t].stage = "answered" /\ UNCHANGED <<shown, display>>
    BY <1>6, <2>1, <2>2, <2>3 DEF Screening
  <2>4. CASE shown' = shown + 1 /\ display' = shown + 1 /\ call'[t].stage = "reclear"
    <3>1. \A s \in Threads : s # t => ~At(s, "reclear")' /\ ~At(s, "ask")'
      BY <1>1, <2>2 DEF At, Screening
    <3>2. shown \in Nat
      BY DEF TypeOK
    <3> QED
      BY <2>1, <2>4, <3>1, <3>2 DEF LineInv, QuestionStands, At
  <2>5. ASSUME NEW r, call' = [call EXCEPT ![t].stage = "answered", ![t].response = r]
        PROVE  call'[t].stage = "answered"
    BY <2>5 DEF TypeOK, Calls
  <2> QED
    BY <1>2, <1>3, <1>15, <2>3, <2>4, <2>5 DEF ReadAnswer
<1>16. CASE ReadNothing(t)
  <2>1. call'[t].stage = "answered" /\ UNCHANGED <<typed, rest, shown, display>>
    BY <1>16 DEF ReadNothing, TypeOK, Calls
  <2> QED
    BY <1>6, <2>1
<1>17. CASE Finish(t)
  <2>1. UNCHANGED <<typed, rest, shown, display>>
    BY <1>17 DEF Finish
  <2>2. CASE terminal
    <3>1. call'[t].stage = "idle"
      BY <1>2, <1>3, <1>17, <2>2 DEF Finish
    <3> QED
      BY <1>6, <2>1, <3>1
  <2>3. CASE ~terminal
    <3>1. ~alive'
      BY <1>17, <2>3 DEF Finish, Panic
    <3> QED
      BY <2>1, <3>1 DEF LineInv, QuestionStands, At
  <2> QED
    BY <2>2, <2>3
<1>18. CASE WriteFails(t)
  <2>1. ~alive' /\ UNCHANGED rest
    BY <1>18 DEF WriteFails, Panic
  <2> QED
    BY <2>1 DEF LineInv, QuestionStands, At
<1> QED
  BY <1>7, <1>8, <1>9, <1>10, <1>11, <1>12, <1>13, <1>14, <1>15, <1>16, <1>17, <1>18 DEF Prompter

\* What a step adds to the answers.
LEMMA NewAnswers ==
    ASSUME TypeOK, [Next]_vars
    PROVE  \/ UNCHANGED answers
           \/ \E t \in Threads, r \in Responses :
                 /\ At(t, "ask") /\ Available
                 /\ answers' = answers \cup {[question |-> shown, kind |-> call[t].kind, item |-> call[t].item,
                                              line |-> FirstLine, response |-> r]}
                 /\ call' = [call EXCEPT ![t].stage = "answered", ![t].response = r]
<1>1. CASE UNCHANGED vars
  BY <1>1 DEF vars
<1>2. ASSUME NEW t \in Threads, ReadAnswer(t)
      PROVE  \/ UNCHANGED answers
             \/ \E r \in Responses :
                   /\ At(t, "ask") /\ Available
                   /\ answers' = answers \cup {[question |-> shown, kind |-> call[t].kind, item |-> call[t].item,
                                                line |-> FirstLine, response |-> r]}
                   /\ call' = [call EXCEPT ![t].stage = "answered", ![t].response = r]
  <2>1. \A r \in ResponsesTo(Trimmed(FirstLine.text)) : r # "Again" => r \in Responses
    BY DEF ResponsesTo
  <2> QED
    BY <1>2, <2>1 DEF ReadAnswer
<1>3. ASSUME NEW t \in Threads, Prompter(t), ~ReadAnswer(t) PROVE UNCHANGED answers
  BY <1>3 DEF Prompter, PromptDenied, PromptBegins, LockScreen, LockStdin, Flush, Display, Ask,
              ClearFails, WriteFails, ReadNothing, Finish
<1>4. ASSUME \/ HangUp \/ ReaderTakes \/ ReaderEnds
             \/ \E text \in Texts : Type(text)
             \/ \E t \in Threads : GuestWrite(t) \/ GuestRead(t) \/ Reads(t)
             \/ \E t \in Threads, k \in Kinds, x \in Items : Check(t, k, x)
      PROVE  UNCHANGED answers
  BY <1>4 DEF HangUp, ReaderTakes, ReaderEnds, Type, GuestWrite, GuestRead, Reads, GuestReads,
              GuestReadsEnd, Check
<1> QED
  BY <1>1, <1>2, <1>3, <1>4, NextParts

LEMMA FreshStep ==
    ASSUME TypeOK, LineInv, AnswerFresh, [Next]_vars
    PROVE  AnswerFresh'
<1>1. CASE UNCHANGED answers
  BY <1>1 DEF AnswerFresh
<1>2. ASSUME NEW t \in Threads, NEW r \in Responses, At(t, "ask"), Available,
             answers' = answers \cup {[question |-> shown, kind |-> call[t].kind, item |-> call[t].item,
                                       line |-> FirstLine, response |-> r]}
      PROVE  AnswerFresh'
  <2>1. FirstLine.asked = shown \/ FirstLine.begun
    <3>1. CASE Buffered
      BY <3>1 DEF LineInv, Buffered, FirstLine
    <3>2. CASE ~Buffered
      <4>1. typed # <<>> /\ typed \in Seq(Lines)
        BY <1>2, <3>2 DEF TypeOK, Available
      <4>2. FirstLine = typed[1] /\ 1 \in 1 .. Len(typed)
        BY <3>2, <4>1 DEF FirstLine
      <4> QED
        BY <1>2, <4>2 DEF LineInv
    <3> QED
      BY <3>1, <3>2
  <2> QED
    BY <1>2, <2>1 DEF AnswerFresh
<1> QED
  BY <1>1, <1>2, NewAnswers

\* The streams and the questions, whatever other threads and the user do.
LEMMA StreamInvariant == Spec => [](LockInv /\ LineInv /\ QuestionStands /\ AnswerFresh)
<1> DEFINE StreamInv == LockInv /\ LineInv /\ QuestionStands /\ AnswerFresh
<1>1. Init => StreamInv
  <2> SUFFICES ASSUME Init PROVE StreamInv
    OBVIOUS
  <2>1. \A t \in Threads : call[t].stage = "idle"
    BY DEF Init, NoCall
  <2>2. LineInv /\ QuestionStands
    BY <2>1 DEF Init, LineInv, QuestionStands, At
  <2> QED
    BY <2>2, LockInit DEF Init, AnswerFresh
<1>2. TypeOK /\ StreamInv /\ [Next]_vars => StreamInv'
  <2> SUFFICES ASSUME TypeOK, StreamInv, [Next]_vars PROVE StreamInv'
    OBVIOUS
  <2>1. AnswerFresh'
    BY FreshStep
  <2>2. CASE UNCHANGED vars
    BY <2>1, <2>2 DEF vars, LockInv, LineInv, QuestionStands, At
  <2>3. CASE Next
    <3>1. LockInv'
      BY <2>3, NextParts, WorldLocks, PromptLocks, CheckLocks
    <3>2. LineInv' /\ QuestionStands'
      BY <2>3, NextParts, WorldLines, PromptLines, CheckLines
    <3> QED
      BY <2>1, <3>1, <3>2
  <2> QED
    BY <2>2, <2>3
<1> QED
  BY <1>1, <1>2, TypeCorrect, PTL DEF Spec

\* A question stays the last thing on the screen until it is answered, for any
\* number of threads that write.
THEOREM StandingQuestions == Spec => []QuestionStands
BY StreamInvariant, PTL

\* A line of the terminal's queue answers only the question it was typed for; the
\* rest of a line that a guest has begun to read answers the next one.
THEOREM FreshAnswers == Spec => []AnswerFresh
BY StreamInvariant, PTL

-----------------------------------------------------------------------------
(* Who waits for whom. *)

\* Thread t needs a lock that thread u has: for a check, a read or a write of the
\* guest, for the message that a question is too long, or for a question.
WaitsFor(t, u) ==
    \/ At(t, "idle") /\ u \in {container, stdinLock, screen}
    \/ At(t, "prompt") /\ u = screen
    \/ At(t, "screen") /\ u = screen
    \/ At(t, "stdin") /\ u = stdinLock

\* How far a thread is on its way through the locks.
Far(stage) == CASE stage = "idle" -> 0
                [] stage \in {"prompt", "screen"} -> 1
                [] stage = "stdin" -> 2
                [] OTHER -> 3

\* Whoever is waited for is farther than who waits.
WaitsForward ==
    \A t, u \in Threads : WaitsFor(t, u) => Far(call[t].stage) < Far(call[u].stage)

\* The lock of the container, of stdout and stderr, and of stdin are taken in one
\* order by checks, prompts and the guest's own reads and writes: threads never
\* wait for each other in a circle, however many there are, and whoever is at the
\* end of a chain of them needs no lock to go on (TtyPrompter::prompt, check_read,
\* Stdin::read_vectored).
THEOREM NoCircle == Spec => []WaitsForward
<1>1. LockInv => WaitsForward
  <2> SUFFICES ASSUME LockInv, NEW t \in Threads, NEW u \in Threads, WaitsFor(t, u)
               PROVE  Far(call[t].stage) < Far(call[u].stage)
    BY DEF WaitsForward
  <2>1. alive
    BY DEF WaitsFor, At
  <2>2. /\ call[u].stage \in Prompting <=> container = u
        /\ call[u].stage \in Screening <=> screen = u
        /\ call[u].stage \in Listening <=> stdinLock = u
    BY <2>1 DEF LockInv
  <2>3. CASE At(t, "idle") /\ u \in {container, stdinLock, screen}
    <3>1. call[t].stage = "idle" /\ call[u].stage \in Prompting \cup Screening \cup Listening
      BY <2>2, <2>3 DEF At
    <3> QED
      BY <3>1 DEF Far, Prompting, Screening, Listening
  <2>4. CASE (At(t, "prompt") \/ At(t, "screen")) /\ u = screen
    <3>1. call[t].stage \in {"prompt", "screen"} /\ call[u].stage \in Screening
      BY <2>2, <2>4 DEF At
    <3> QED
      BY <3>1 DEF Far, Screening
  <2>5. CASE At(t, "stdin") /\ u = stdinLock
    <3>1. call[t].stage = "stdin" /\ call[u].stage \in Listening
      BY <2>2, <2>5 DEF At
    <3> QED
      BY <3>1 DEF Far, Listening
  <2> QED
    BY <2>3, <2>4, <2>5 DEF WaitsFor
<1> QED
  BY <1>1, StreamInvariant, PTL

-----------------------------------------------------------------------------
(* What is permitted. *)

LEMMA GrantInit == Init => GrantInv
<1> SUFFICES ASSUME Init PROVE GrantInv
  OBVIOUS
<1>1. \A t \in Threads : call[t].stage = "idle"
  BY DEF Init, NoCall
<1>2. PendingInv /\ AskedInv
  BY <1>1 DEF Init, PendingInv, AskedInv, Prompting
<1>3. PermsInv
  <2>1. config \in ConfigType /\ answers = {}
    BY PermissionsAssumption DEF Init
  <2> SUFFICES ASSUME NEW k \in Kinds
               PROVE  /\ perms[k].deniedAll = config.deny[k].all
                      /\ perms[k].grantedAll => config.allowAll \/ config.allow[k].all
                      /\ \A x \in Items :
                            /\ x \in perms[k].denied
                                  <=> ~config.allowAll /\ ~config.deny[k].all /\ x \in config.deny[k].list
                            /\ x \in perms[k].granted => OptionsAllow(k, x)
    BY <2>1 DEF PermsInv, UserDenies
  <2>2. perms[k] = SetConfig(config, k)
    BY DEF Init
  <2>3. config.allow[k] \in Grants /\ config.deny[k] \in Grants /\ config.allowAll \in BOOLEAN
    BY <2>1 DEF ConfigType
  <2> QED
    BY <2>2, <2>3 DEF SetConfig, Options, OptionsAllow, Grants
<1> QED
  BY <1>2, <1>3 DEF GrantInv

\* A step that answers nothing: a prompter goes on with the same question, or is denied.
LEMMA GrantKept ==
    ASSUME GrantInv, UNCHANGED <<config, perms, answers, used>>,
           \A s \in Threads : call[s].stage = "answered" => call'[s] = call[s],
           \A s \in Threads : call'[s].stage = "answered" => call'[s] = call[s] \/ call'[s].response = "Deny",
           \A s \in Threads : call'[s].stage \in Prompting =>
               /\ call[s].stage \in Prompting
               /\ call'[s].kind = call[s].kind /\ call'[s].item = call[s].item
    PROVE  GrantInv'
<1>1. \A k \in Kinds, x \in Items : Pending(k, x, "Deny") => Pending(k, x, "Deny")'
  BY DEF Pending
<1>2. PermsInv'
  <2> SUFFICES ASSUME NEW k \in Kinds
               PROVE  (/\ perms[k].deniedAll = config.deny[k].all
                       /\ perms[k].grantedAll => \/ config.allowAll \/ config.allow[k].all
                                                 \/ \E a \in answers : a.kind = k /\ a.response = "AllowAll"
                       /\ \A x \in Items :
                             /\ x \in perms[k].denied
                                   <=> ~config.allowAll /\ ~config.deny[k].all /\ x \in config.deny[k].list
                             /\ x \in perms[k].granted => OptionsAllow(k, x) \/ UserAllows(k, x)
                             /\ UserDenies(k, x) => x \in perms[k].refused \/ Pending(k, x, "Deny"))'
    BY DEF PermsInv
  <2> QED
    BY <1>1 DEF GrantInv, PermsInv, OptionsAllow, UserAllows, UserDenies
<1>3. PendingInv'
  BY DEF GrantInv, PendingInv
<1>4. AskedInv'
  BY DEF GrantInv, AskedInv, Granted, Denied
<1> QED
  BY <1>2, <1>3, <1>4 DEF GrantInv

\* The answer, or the denial, that the prompter returns with.
LEMMA RespondGrants ==
    ASSUME TypeOK, LockInv, GrantInv, NEW t \in Threads, NEW response \in Responses,
           call[t].stage \in Prompting, Respond(t, response), UNCHANGED <<config, answers>>,
           call[t].stage = "answered" => response = call[t].response,
           response = "Deny" \/ call[t].stage = "answered"
    PROVE  GrantInv'
<1> DEFINE k == call[t].kind
           x == call[t].item
<1>1. k \in Kinds /\ x \in Items
  BY DEF TypeOK, Calls
<1>2. \A s \in Threads : s # t => call[s].stage \notin Prompting
  BY DEF LockInv
<1>3. \A s \in Threads : call'[s].stage \notin Prompting
  <2>1. \A s \in Threads : call'[s] = IF s = t THEN NoCall ELSE call[s]
    BY DEF Respond, TypeOK
  <2>2. NoCall.stage \notin Prompting
    BY DEF NoCall, Prompting
  <2> QED
    BY <1>2, <2>1, <2>2
<1>4. \A kk \in Kinds : perms'[kk] = IF kk = k THEN Answered(k, x, response) ELSE perms[kk]
  BY DEF Respond, TypeOK
<1>5. perms[k] \in Container
  BY <1>1 DEF TypeOK
<1>6. /\ perms'[k].granted = IF response = "Allow" THEN perms[k].granted \cup {x} ELSE perms[k].granted
      /\ perms'[k].grantedAll = (perms[k].grantedAll \/ response = "AllowAll")
      /\ perms'[k].refused = IF response = "Deny" THEN perms[k].refused \cup {x} ELSE perms[k].refused
      /\ perms'[k].denied = perms[k].denied /\ perms'[k].deniedAll = perms[k].deniedAll
  BY <1>1, <1>4, <1>5 DEF Answered, Container
<1>7. response # "Deny" => \E a \in answers : a.kind = k /\ a.response = response /\ a.item = x
  BY DEF GrantInv, PendingInv
<1>8. \A kk \in Kinds, xx \in Items :
        Pending(kk, xx, "Deny") => kk = k /\ xx = x /\ response = "Deny"
  BY <1>2 DEF Pending, Prompting
<1>9. ~Granted(k, x) /\ ~Denied(k, x)
  BY DEF GrantInv, AskedInv
<1> HIDE DEF k, x
<1>10. PermsInv'
  <2>1. ASSUME NEW kk \in Kinds, NEW xx \in Items, UserDenies(kk, xx)
        PROVE  xx \in perms'[kk].refused
    <3>1. xx \in perms[kk].refused \/ Pending(kk, xx, "Deny")
      BY <2>1 DEF GrantInv, PermsInv
    <3> QED
      BY <1>4, <1>6, <1>8, <3>1
  <2>2. ASSUME NEW kk \in Kinds, NEW xx \in Items, xx \in perms'[kk].granted
        PROVE  OptionsAllow(kk, xx) \/ UserAllows(kk, xx)
    <3>1. CASE xx \in perms[kk].granted
      BY <3>1 DEF GrantInv, PermsInv
    <3>2. CASE xx \notin perms[kk].granted
      <4>1. kk = k /\ xx = x /\ response = "Allow"
        BY <1>4, <1>6, <2>2, <3>2
      <4> QED
        BY <1>7, <4>1 DEF UserAllows
    <3> QED
      BY <3>1, <3>2
  <2>3. ASSUME NEW kk \in Kinds, perms'[kk].grantedAll
        PROVE  \/ config.allowAll \/ config.allow[kk].all
               \/ \E a \in answers : a.kind = kk /\ a.response = "AllowAll"
    <3>1. CASE perms[kk].grantedAll
      BY <3>1 DEF GrantInv, PermsInv
    <3>2. CASE ~perms[kk].grantedAll
      BY <1>4, <1>6, <1>7, <2>3, <3>2
    <3> QED
      BY <3>1, <3>2
  <2>4. \A kk \in Kinds :
          /\ perms'[kk].deniedAll = config.deny[kk].all
          /\ \A xx \in Items : xx \in perms'[kk].denied
                <=> ~config.allowAll /\ ~config.deny[kk].all /\ xx \in config.deny[kk].list
    BY <1>4, <1>6 DEF GrantInv, PermsInv
  <2> QED
    BY <2>1, <2>2, <2>3, <2>4 DEF PermsInv, OptionsAllow, UserAllows, UserDenies
<1>11. PendingInv'
  BY <1>3 DEF PendingInv, Prompting
<1>12. AskedInv'
  <2>1. ASSUME NEW u \in used' PROVE Granted(u[1], u[2])'
    <3>1. CASE u \in used
      <4>1. u \in Kinds \X Items /\ Granted(u[1], u[2])
        BY <3>1 DEF TypeOK, GrantInv, AskedInv
      <4>2. CASE u[1] # k
        <5>1. perms'[u[1]] = perms[u[1]]
          BY <1>4, <4>1, <4>2
        <5> QED
          BY <4>1, <5>1 DEF Granted, Denied
      <4>3. CASE u[1] = k
        <5>1. u[2] # x
          BY <1>9, <4>1, <4>3
        <5> QED
          BY <1>6, <4>1, <4>3, <5>1 DEF Granted, Denied
      <4> QED
        BY <4>2, <4>3
    <3>2. CASE u \notin used
      <4>1. u = <<k, x>> /\ response # "Deny"
        BY <2>1, <3>2 DEF Respond, k, x
      <4> QED
        BY <1>6, <1>9, <4>1 DEF Granted, Denied, Responses
    <3> QED
      BY <3>1, <3>2
  <2> QED
    BY <1>3, <2>1 DEF AskedInv
<1> QED
  BY <1>10, <1>11, <1>12 DEF GrantInv

\* A line that is an answer: it is remembered until the prompter returns.
LEMMA AnswerGrants ==
    ASSUME TypeOK, GrantInv, NEW t \in Threads, NEW r \in Responses, At(t, "ask"),
           UNCHANGED <<config, perms, used>>,
           answers' = answers \cup {[question |-> shown, kind |-> call[t].kind, item |-> call[t].item,
                                     line |-> FirstLine, response |-> r]},
           call' = [call EXCEPT ![t].stage = "answered", ![t].response = r]
    PROVE  GrantInv'
<1> DEFINE answer == [question |-> shown, kind |-> call[t].kind, item |-> call[t].item,
                      line |-> FirstLine, response |-> r]
<1>1. /\ answer.kind = call[t].kind /\ answer.item = call[t].item /\ answer.response = r
      /\ answers' = answers \cup {answer}
  OBVIOUS
<1>2. /\ call'[t].stage = "answered" /\ call'[t].response = r
      /\ call'[t].kind = call[t].kind /\ call'[t].item = call[t].item
      /\ \A s \in Threads : s # t => call'[s] = call[s]
  BY DEF TypeOK, Calls
<1>3. call[t].stage = "ask"
  BY DEF At
<1> HIDE DEF answer
<1>4. \A kk \in Kinds, xx \in Items : Pending(kk, xx, "Deny") => Pending(kk, xx, "Deny")'
  BY <1>2, <1>3 DEF Pending
<1>5. ASSUME NEW kk \in Kinds, NEW xx \in Items, UserDenies(kk, xx)'
      PROVE  xx \in perms[kk].refused \/ Pending(kk, xx, "Deny")'
  <2>1. CASE UserDenies(kk, xx)
    BY <1>4, <2>1 DEF GrantInv, PermsInv
  <2>2. CASE ~UserDenies(kk, xx)
    <3>1. answer.kind = kk /\ answer.item = xx /\ answer.response = "Deny"
      BY <1>1, <1>5, <2>2 DEF UserDenies
    <3> QED
      BY <1>1, <1>2, <3>1 DEF Pending
  <2> QED
    BY <2>1, <2>2
<1>6. \A kk \in Kinds, xx \in Items : UserAllows(kk, xx) => UserAllows(kk, xx)'
  BY <1>1 DEF UserAllows
<1>7. PermsInv'
  <2>1. \A kk \in Kinds :
          /\ perms[kk].deniedAll = config.deny[kk].all
          /\ perms[kk].grantedAll => \/ config.allowAll \/ config.allow[kk].all
                                     \/ \E a \in answers' : a.kind = kk /\ a.response = "AllowAll"
    BY <1>1 DEF GrantInv, PermsInv
  <2>2. \A kk \in Kinds, xx \in Items :
          /\ xx \in perms[kk].denied
                <=> ~config.allowAll /\ ~config.deny[kk].all /\ xx \in config.deny[kk].list
          /\ xx \in perms[kk].granted => OptionsAllow(kk, xx) \/ UserAllows(kk, xx)'
    BY <1>6 DEF GrantInv, PermsInv
  <2> QED
    BY <1>5, <2>1, <2>2 DEF PermsInv, OptionsAllow
<1>8. PendingInv'
  <2>1. ASSUME NEW s \in Threads, call'[s].stage = "answered", call'[s].response # "Deny"
        PROVE  \E a \in answers' : /\ a.kind = call'[s].kind /\ a.response = call'[s].response
                                   /\ a.item = call'[s].item
    <3>1. CASE s = t
      BY <1>1, <1>2, <3>1
    <3>2. CASE s # t
      <4>1. call'[s] = call[s]
        BY <1>2, <3>2
      <4>2. PICK a \in answers : a.kind = call[s].kind /\ a.response = call[s].response /\ a.item = call[s].item
        BY <2>1, <4>1 DEF GrantInv, PendingInv
      <4>3. a \in answers'
        BY <1>1
      <4> QED
        BY <4>1, <4>2, <4>3
    <3> QED
      BY <3>1, <3>2
  <2> QED
    BY <2>1 DEF PendingInv
<1>9. AskedInv'
  <2>1. ASSUME NEW s \in Threads, call'[s].stage \in Prompting
        PROVE  call[s].stage \in Prompting /\ call'[s].kind = call[s].kind /\ call'[s].item = call[s].item
    BY <1>2, <1>3, <2>1 DEF Prompting
  <2> QED
    BY <2>1 DEF GrantInv, AskedInv, Granted, Denied
<1> QED
  BY <1>7, <1>8, <1>9 DEF GrantInv

LEMMA WorldGrants ==
    ASSUME TypeOK, GrantInv,
           \/ HangUp \/ ReaderTakes \/ ReaderEnds
           \/ \E text \in Texts : Type(text)
           \/ \E t \in Threads : GuestWrite(t) \/ GuestRead(t) \/ Reads(t)
    PROVE  GrantInv'
<1> USE DEF world, checks
<1>1. UNCHANGED <<config, perms, answers, used>>
  BY DEF HangUp, ReaderTakes, ReaderEnds, Type, GuestWrite, GuestRead, Reads, GuestReads, GuestReadsEnd
<1>2. \/ UNCHANGED call
      \/ \E t \in Threads : /\ call[t].stage \in {"idle", "reading"}
                            /\ \/ call' = [call EXCEPT ![t] = [NoCall EXCEPT !.stage = "reading"]]
                               \/ call' = [call EXCEPT ![t] = NoCall]
  BY DEF HangUp, ReaderTakes, ReaderEnds, Type, GuestWrite, GuestRead, Reads, GuestReads, GuestReadsEnd,
         Idle, At
<1>3. \A s \in Threads :
        \/ call'[s] = call[s]
        \/ call[s].stage \in {"idle", "reading"} /\ call'[s].stage \in {"idle", "reading"}
  BY <1>2 DEF TypeOK, NoCall
<1> QED
  BY <1>1, <1>3, GrantKept DEF Prompting

LEMMA CheckGrants ==
    ASSUME TypeOK, GrantInv, NEW t \in Threads, NEW k \in Kinds, NEW x \in Items, Check(t, k, x)
    PROVE  GrantInv'
<1>1. UNCHANGED <<config, perms, answers>> /\ call[t].stage = "idle"
  BY DEF Check, world, Idle, At
<1>2. CASE Granted(k, x)
  <2>1. used' = used \cup {<<k, x>>} /\ UNCHANGED call
    BY <1>2 DEF Check
  <2>2. PermsInv' /\ PendingInv'
    BY <1>1, <2>1 DEF GrantInv, PermsInv, PendingInv, OptionsAllow, UserAllows, UserDenies, Pending
  <2>3. ASSUME NEW u \in used' PROVE Granted(u[1], u[2])'
    <3>1. Granted(u[1], u[2])
      BY <1>2, <2>1, <2>3 DEF GrantInv, AskedInv
    <3> QED
      BY <1>1, <3>1 DEF Granted, Denied
  <2>4. AskedInv'
    BY <1>1, <2>1, <2>3 DEF GrantInv, AskedInv, Granted, Denied
  <2> QED
    BY <2>2, <2>4 DEF GrantInv
<1>3. CASE ~Granted(k, x) /\ Denied(k, x)
  <2>1. UNCHANGED <<call, used>>
    BY <1>3 DEF Check
  <2> QED
    BY <1>1, <2>1, GrantKept
<1>4. CASE ~Granted(k, x) /\ ~Denied(k, x)
  <2>1. /\ call'[t] = [stage |-> "prompt", kind |-> k, item |-> x, response |-> "Deny"]
        /\ \A s \in Threads : s # t => call'[s] = call[s]
        /\ UNCHANGED used
    BY <1>4 DEF Check, TypeOK
  <2>2. call'[t].stage = "prompt" /\ call'[t].kind = k /\ call'[t].item = x
    BY <2>1
  <2>3. \A kk \in Kinds, xx \in Items : Pending(kk, xx, "Deny") => Pending(kk, xx, "Deny")'
    BY <1>1, <2>1 DEF Pending
  <2>4. PermsInv'
    BY <1>1, <2>3 DEF GrantInv, PermsInv, OptionsAllow, UserAllows, UserDenies
  <2>5. PendingInv'
    BY <1>1, <2>1, <2>2 DEF GrantInv, PendingInv
  <2>6. AskedInv'
    BY <1>1, <1>4, <2>1, <2>2 DEF GrantInv, AskedInv, Granted, Denied
  <2> QED
    BY <2>4, <2>5, <2>6 DEF GrantInv
<1> QED
  BY <1>2, <1>3, <1>4

LEMMA PromptGrants ==
    ASSUME TypeOK, LockInv, GrantInv, NEW t \in Threads, Prompter(t)
    PROVE  GrantInv'
<1> USE DEF world, checks, streams
\* A step to another stage of the same check, or a panic.
<1>1. ASSUME UNCHANGED <<config, perms, answers, used>>, call[t].stage \in Prompting \ {"answered"},
             \/ UNCHANGED call
             \/ \E stage \in Stages \ {"answered"} : Goes(t, stage)
             \/ call' = [call EXCEPT ![t].stage = "answered", ![t].response = "Deny"]
      PROVE  GrantInv'
  <2>1. \A s \in Threads :
          /\ s # t => call'[s] = call[s]
          /\ call'[s].kind = call[s].kind /\ call'[s].item = call[s].item
          /\ call'[s].stage = "answered" => call'[s] = call[s] \/ call'[s].response = "Deny"
    BY <1>1 DEF TypeOK, Calls, Goes
  <2> QED
    BY <1>1, <2>1, GrantKept
<1>2. {"screen", "stdin", "clear", "reclear", "ask"} \subseteq Stages \ {"answered"}
  BY DEF Stages
<1>3. CASE PromptDenied(t) \/ ClearFails(t)
  BY <1>3, RespondGrants DEF PromptDenied, ClearFails, Clearing, At, Prompting, Responses
<1>4. CASE PromptBegins(t)
  BY <1>1, <1>2, <1>4 DEF PromptBegins, Panic, At, Prompting
<1>5. CASE LockScreen(t) \/ LockStdin(t) \/ Display(t) \/ Ask(t)
  BY <1>1, <1>2, <1>5 DEF LockScreen, LockStdin, Display, Ask, At, Prompting
<1>6. CASE Flush(t)
  BY <1>1, <1>6 DEF Flush, Clearing, At, Prompting
<1>7. CASE ReadNothing(t) \/ WriteFails(t)
  BY <1>1, <1>7 DEF ReadNothing, WriteFails, Panic, Clearing, At, Prompting
<1>8. CASE ReadAnswer(t)
  <2>1. UNCHANGED <<config, perms, used>> /\ At(t, "ask")
    BY <1>8 DEF ReadAnswer
  <2>2. \A r \in ResponsesTo(Trimmed(FirstLine.text)) : r # "Again" => r \in Responses
    BY DEF ResponsesTo
  <2>3. CASE Goes(t, "reclear") /\ UNCHANGED answers
    BY <1>1, <1>2, <2>1, <2>3 DEF At, Prompting
  <2> QED
    BY <1>8, <2>1, <2>2, <2>3, AnswerGrants DEF ReadAnswer
<1>9. CASE Finish(t)
  <2>1. call[t].stage = "answered" /\ call[t].response \in Responses
    BY <1>9 DEF Finish, At, TypeOK, Calls
  <2>2. CASE terminal
    BY <1>9, <2>1, <2>2, RespondGrants DEF Finish, Prompting
  <2>3. CASE ~terminal
    <3>1. UNCHANGED <<config, perms, answers, used, call>>
      BY <1>9, <2>3 DEF Finish, Panic
    <3> QED
      BY <3>1, GrantKept
  <2> QED
    BY <2>2, <2>3
<1> QED
  BY <1>3, <1>4, <1>5, <1>6, <1>7, <1>8, <1>9 DEF Prompter

\* What was allowed is what the options and the answers say, while nobody has
\* forgotten an answer.
LEMMA GrantTruth ==
    ASSUME TypeOK, GrantInv
    PROVE  AllowedTruth
<1> SUFFICES ASSUME NEW u \in used
             PROVE  /\ ~OptionsDeny(u[1], u[2]) /\ ~UserDenies(u[1], u[2])
                    /\ OptionsAllow(u[1], u[2]) \/ UserAllows(u[1], u[2])
  BY DEF AllowedTruth
<1> DEFINE k == u[1]
           x == u[2]
<1>1. k \in Kinds /\ x \in Items
  BY DEF TypeOK
<1>2. Granted(k, x)
  BY DEF GrantInv, AskedInv
<1> HIDE DEF k, x
<1>3. ~OptionsDeny(k, x)
  BY <1>1, <1>2 DEF GrantInv, PermsInv, Granted, Denied, OptionsDeny
<1>4. ~UserDenies(k, x)
  <2>1. ~Pending(k, x, "Deny")
    BY <1>2 DEF GrantInv, AskedInv, Pending, Prompting
  <2> QED
    BY <1>1, <1>2, <2>1 DEF GrantInv, PermsInv, Granted, Denied
<1>5. OptionsAllow(k, x) \/ UserAllows(k, x)
  <2>1. CASE perms[k].grantedAll
    BY <1>1, <2>1 DEF GrantInv, PermsInv, OptionsAllow, UserAllows
  <2>2. CASE x \in perms[k].granted
    BY <1>1, <2>2 DEF GrantInv, PermsInv
  <2> QED
    BY <1>2, <2>1, <2>2 DEF Granted
<1> QED
  BY <1>3, <1>4, <1>5 DEF k, x

\* A check succeeds only by an option or an answer, and never against one, for any
\* options and over any number of checks and questions.
THEOREM TrueChecks == Spec => []AllowedTruth
<1>1. TypeOK /\ LockInv /\ GrantInv /\ [Next]_vars => GrantInv'
  <2>1. CASE UNCHANGED vars
    BY <2>1, GrantKept DEF vars
  <2>2. ASSUME TypeOK, LockInv, GrantInv, Next PROVE GrantInv'
    BY <2>2, NextParts, WorldGrants, PromptGrants, CheckGrants
  <2> QED
    BY <2>1, <2>2
<1>2. Spec => [](TypeOK /\ LockInv)
  BY TypeCorrect, StreamInvariant, PTL
<1>3. Spec => []GrantInv
  BY <1>1, <1>2, GrantInit, PTL DEF Spec
<1> QED
  BY <1>2, <1>3, GrantTruth, PTL

=============================================================================

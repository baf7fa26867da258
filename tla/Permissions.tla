---------------------------- MODULE Permissions ----------------------------
(* The permissions of a run and the prompter that asks the user for those   *)
(* the options leave open: permissions.rs, prompter.rs and config.rs of     *)
(* wasi-common/src/blockless, the checks of the WASI calls in preview_1.rs, *)
(* and the standard streams that prompter and guest share, sync/stdio.rs.   *)
(*                                                                          *)
(* A thread runs the guest. A check holds the lock of the container from    *)
(* its decision to the answer of the prompt; the prompt takes the lock of   *)
(* stdout and stderr, and then that of stdin. The terminal hands over whole *)
(* lines; what a reader leaves of one stays in the buffer of std's stdin.   *)
EXTENDS Naturals, Sequences

CONSTANTS
    Threads,    \* the threads of the guest
    Nobody,     \* holds a lock that is free
    Reader,     \* the thread that non_blocking_read has started
    Kinds,      \* the permissions: "read", "write", "net"
    Items,      \* the paths or hosts they are about
    Configs,    \* the PermissionsConfigs of the command line
    Texts,      \* what the user may type: lines, sequences of characters
    MaxCalls,   \* the checks and reads of stdin that the threads make, at most
    MaxLines    \* the lines that are typed, at most

VARIABLES
    config,     \* PermissionsConfig
    perms,      \* kind -> what the container has for it
    container,  \* who holds the lock of the container
    stdin,      \* where the guest's stdin comes from
    terminal,   \* stdin and stderr are terminals
    typed,      \* the lines in the queue of the terminal
    rest,       \* what the buffer of stdin has left of a line
    stdinLock,  \* who holds the lock of stdin
    screen,     \* who holds the locks of stdout and stderr
    shown,      \* questions displayed
    display,    \* the question that is displayed and followed by no output, or 0
    call,       \* thread -> the call it is in
    calls,      \* calls begun
    lines,      \* lines typed
    used,       \* history: <<kind, item>> of the checks that have succeeded
    answers,    \* history: what was read in answer to a question
    alive       \* the process runs

vars == <<config, perms, container, stdin, terminal, typed, rest, stdinLock, screen,
          shown, display, call, calls, lines, used, answers, alive>>

\* PermissionGrant: all, or a list; none is the empty list.
Grants == [all : BOOLEAN, list : SUBSET Items]
ConfigType == [allowAll : BOOLEAN, allow : [Kinds -> Grants], deny : [Kinds -> Grants]]

ASSUME PermissionsAssumption ==
    /\ Nobody \notin Threads /\ Reader \notin Threads /\ Nobody # Reader
    /\ Configs \subseteq ConfigType
    /\ Kinds # {} /\ Items # {}
    /\ Texts \subseteq Seq(STRING)
    /\ MaxCalls \in Nat /\ MaxLines \in Nat

\* UnaryPermission of one kind: what is granted, what the options deny, and what
\* the user has denied.
Container == [granted : SUBSET Items, grantedAll : BOOLEAN,
              denied : SUBSET Items, deniedAll : BOOLEAN, refused : SUBSET Items]

\* "inherit"; "fixed" by an option or by piped input, which tells the prompter;
\* or "file", fixed by the configuration file, which does not.
Stdins == {"inherit", "fixed", "file"}

\* A line, the question that was displayed when it was typed (or 0), and whether a
\* guest has read the beginning of it.
Lines == [text : Seq(STRING), asked : Nat, begun : BOOLEAN]
NoLine == [text |-> <<>>, asked |-> 0, begun |-> FALSE]

Responses == {"Allow", "AllowAll", "Deny"}
Stages == {"idle", "reading", "prompt", "screen", "stdin", "clear", "reclear", "ask", "answered"}
Calls == [stage : Stages, kind : Kinds, item : Items, response : Responses]
Answers == [question : Nat, kind : Kinds, item : Items, line : Lines, response : Responses]

At(t, stage) == alive /\ call[t].stage = stage
Idle(t) == At(t, "idle")

\* A question is on the screen and waits for its answer.
Standing == \E t \in Threads : call[t].stage \in {"reclear", "ask"}

streams == <<typed, rest, stdinLock, screen, shown, display>>
world == <<config, stdin, terminal, lines, alive>>
checks == <<perms, container, used>>

-----------------------------------------------------------------------------
(* The options. *)

\* Permissions::from_options, or allow_all, which has no lists.
Options(c, k) ==
    [granted    |-> IF c.allowAll \/ c.allow[k].all THEN {} ELSE c.allow[k].list,
     grantedAll |-> c.allowAll,
     denied     |-> IF c.allowAll \/ c.deny[k].all THEN {} ELSE c.deny[k].list,
     deniedAll  |-> FALSE,
     refused    |-> {}]

\* Mutation: --deny-read without a list is an empty list.
SetConfigNoDenyAll(c, k) == [Options(c, k) EXCEPT !.grantedAll = @ \/ c.allow[k].all]

\* set_permissions_config.
SetConfig(c, k) ==
    [Options(c, k) EXCEPT !.deniedAll = @ \/ c.deny[k].all, !.grantedAll = @ \/ c.allow[k].all]

\* bls_permissions: what is denied, what is granted, and what is asked.
Denied(k, x) == perms[k].deniedAll \/ x \in perms[k].denied \cup perms[k].refused
Granted(k, x) == ~Denied(k, x) /\ (perms[k].grantedAll \/ x \in perms[k].granted)

NoCall == [stage |-> "idle", kind |-> CHOOSE k \in Kinds : TRUE,
           item |-> CHOOSE x \in Items : TRUE, response |-> "Deny"]

\* While stdin is fixed a thread waits for the end of the real one, so as to use
\* what is piped: at a terminal it holds stdin until then.
Init ==
    /\ config \in Configs
    /\ perms = [k \in Kinds |-> SetConfig(config, k)]
    /\ container = Nobody
    /\ stdin \in Stdins /\ terminal \in BOOLEAN
    /\ typed = <<>> /\ rest = NoLine
    /\ stdinLock = IF stdin # "inherit" /\ terminal THEN Reader ELSE Nobody
    /\ screen = Nobody
    /\ shown = 0 /\ display = 0
    /\ call = [t \in Threads |-> NoCall]
    /\ calls = 0 /\ lines = 0
    /\ used = {} /\ answers = {}
    /\ alive = TRUE

-----------------------------------------------------------------------------
(* The user and the terminal. *)

\* Whoever holds stdin reads the line once it is there.
Type(text) ==
    /\ alive /\ terminal /\ lines < MaxLines
    /\ typed' = Append(typed, [text |-> text, asked |-> IF Standing THEN display ELSE 0,
                               begun |-> FALSE])
    /\ lines' = lines + 1
    /\ UNCHANGED <<config, stdin, terminal, alive, checks, rest, stdinLock, screen, shown,
                   display, call, calls, answers>>

\* The terminal is closed: its queue is empty, and reading it gives nothing.
HangUp ==
    /\ alive /\ terminal
    /\ terminal' = FALSE
    /\ typed' = <<>>
    /\ UNCHANGED <<config, stdin, lines, alive, checks, rest, stdinLock, screen, shown,
                   display, call, calls, answers>>

\* non_blocking_read: the thread reads all lines, and ends at the end of the file,
\* which the user may type too.
ReaderTakes ==
    /\ alive /\ stdinLock = Reader /\ typed # <<>>
    /\ typed' = Tail(typed)
    /\ UNCHANGED <<world, checks, rest, stdinLock, screen, shown, display, call, calls, answers>>

ReaderEnds ==
    /\ alive /\ stdinLock = Reader
    /\ stdinLock' = Nobody
    /\ UNCHANGED <<world, checks, typed, rest, screen, shown, display, call, calls, answers>>

-----------------------------------------------------------------------------
(* What the guest does with the standard streams. *)

\* fd_write of stdout or stderr: the lock is held for the one write and its flush.
GuestWrite(t) ==
    /\ Idle(t) /\ screen = Nobody
    /\ display' = 0
    /\ UNCHANGED <<world, checks, typed, rest, stdinLock, screen, shown, call, calls, answers>>

\* fd_read of stdin: the lock is held while it waits for a line.
GuestRead(t) ==
    /\ Idle(t) /\ calls < MaxCalls
    /\ stdin = "inherit" /\ stdinLock = Nobody
    /\ stdinLock' = t
    /\ call' = [call EXCEPT ![t] = [NoCall EXCEPT !.stage = "reading"]]
    /\ calls' = calls + 1
    /\ UNCHANGED <<world, checks, typed, rest, screen, shown, display, answers>>

\* What a reader of stdin gets first, and what is left in the queue.
Buffered == rest # NoLine
Available == Buffered \/ typed # <<>>
FirstLine == IF Buffered THEN rest ELSE Head(typed)
Queue == IF Buffered THEN typed ELSE Tail(typed)

\* The read takes n characters of the line: the rest stays in the buffer.
GuestReads(t, n) ==
    /\ At(t, "reading") /\ Available
    /\ rest' = IF n = Len(FirstLine.text) THEN NoLine
               ELSE [FirstLine EXCEPT !.text = SubSeq(@, n + 1, Len(@)), !.begun = TRUE]
    /\ typed' = Queue
    /\ stdinLock' = Nobody
    /\ call' = [call EXCEPT ![t] = NoCall]
    /\ UNCHANGED <<world, checks, screen, shown, display, calls, answers>>

\* Mutation: a read that gives nothing is tried again.
AtEndRetry == FALSE

\* A read gives nothing.
AtEnd == ~Available /\ ~terminal

GuestReadsEnd(t) ==
    /\ At(t, "reading") /\ AtEnd
    /\ stdinLock' = Nobody
    /\ call' = [call EXCEPT ![t] = NoCall]
    /\ UNCHANGED <<world, checks, typed, rest, screen, shown, display, calls, answers>>

-----------------------------------------------------------------------------
(* A check: check_read, check_write, check_net_url. *)

Check(t, k, x) ==
    /\ Idle(t) /\ calls < MaxCalls /\ container = Nobody
    /\ calls' = calls + 1
    /\ IF Granted(k, x)
       THEN used' = used \cup {<<k, x>>} /\ UNCHANGED <<container, call>>
       ELSE IF Denied(k, x)
       THEN UNCHANGED <<container, call, used>>
       ELSE /\ container' = t
            /\ call' = [call EXCEPT ![t] = [stage |-> "prompt", kind |-> k, item |-> x,
                                            response |-> "Deny"]]
            /\ UNCHANGED used
    /\ UNCHANGED <<world, streams, perms, answers>>

\* Mutation: the permission's name is granted instead of all its items.
AnsweredName(k, x, response) ==
    [perms[k] EXCEPT !.granted = IF response = "Deny" THEN @
                                 ELSE @ \cup {IF response = "AllowAll" THEN k ELSE x},
                     !.refused = IF response = "Deny" THEN @ \cup {x} ELSE @]

\* bls_permissions: what the container remembers of an answer.
Answered(k, x, response) ==
    [perms[k] EXCEPT !.granted = IF response = "Allow" THEN @ \cup {x} ELSE @,
                     !.grantedAll = @ \/ response = "AllowAll",
                     !.refused = IF response = "Deny" THEN @ \cup {x} ELSE @]

\* The prompter returns, and the check with it.
Respond(t, response) ==
    LET k == call[t].kind
        x == call[t].item
    IN  /\ perms' = [perms EXCEPT ![k] = Answered(k, x, response)]
        /\ used' = IF response = "Deny" THEN used ELSE used \cup {<<k, x>>}
        /\ container' = Nobody
        /\ call' = [call EXCEPT ![t] = NoCall]

\* A panic ends the process: main unwinds, and a spawned thread exits.
Panic ==
    /\ alive' = FALSE
    /\ UNCHANGED <<config, stdin, terminal, lines, checks, call>>

-----------------------------------------------------------------------------
(* TtyPrompter::prompt. *)

Goes(t, stage) == call' = [call EXCEPT ![t].stage = stage]

\* No terminal, or a message that is too long (of which it says so): denied.
PromptDenied(t) ==
    /\ At(t, "prompt")
    /\ \/ ~terminal /\ UNCHANGED display
       \/ terminal /\ screen = Nobody /\ display' = 0
    /\ Respond(t, "Deny")
    /\ UNCHANGED <<world, typed, rest, stdinLock, screen, shown, calls, answers>>

\* IS_INHERIT_STDIN.
InheritKnown == stdin # "fixed"

PromptBegins(t) ==
    /\ At(t, "prompt") /\ terminal
    /\ IF InheritKnown
       THEN Goes(t, "screen") /\ UNCHANGED <<world, checks>>
       ELSE Panic
    /\ UNCHANGED <<streams, calls, answers>>

\* Mutation: the prompter leaves stdout and stderr unlocked.
ScreenHeldNot(t) == Nobody

\* Who holds stdout and stderr once the prompter t has locked them.
ScreenHeld(t) == t

LockScreen(t) ==
    /\ At(t, "screen") /\ screen = Nobody
    /\ screen' = ScreenHeld(t)
    /\ Goes(t, "stdin")
    /\ UNCHANGED <<world, checks, typed, rest, stdinLock, shown, display, calls, answers>>

LockStdin(t) ==
    /\ At(t, "stdin") /\ stdinLock = Nobody
    /\ stdinLock' = t
    /\ Goes(t, "clear")
    /\ UNCHANGED <<world, checks, typed, rest, screen, shown, display, calls, answers>>

Clearing(t) == At(t, "clear") \/ At(t, "reclear")

\* clear_stdin: tcflush empties the queue of the terminal, until select has found
\* nothing there for a while.
Flush(t) ==
    /\ Clearing(t) /\ terminal /\ typed # <<>>
    /\ typed' = <<>>
    /\ UNCHANGED <<world, checks, rest, stdinLock, screen, shown, display, call, calls, answers>>

\* Mutation: the queue is cleared before the question is displayed only.
QuietAfterFirst(t) == typed = <<>> \/ At(t, "reclear")

\* clear_stdin has found the queue quiet.
Quiet(t) == typed = <<>>

\* The question is displayed after the queue is clear, and the queue is cleared
\* once more before the answer is read.
Display(t) ==
    /\ At(t, "clear") /\ terminal /\ Quiet(t)
    /\ shown' = shown + 1
    /\ display' = shown + 1
    /\ Goes(t, "reclear")
    /\ UNCHANGED <<world, checks, typed, rest, stdinLock, screen, calls, answers>>

Ask(t) ==
    /\ At(t, "reclear") /\ terminal /\ Quiet(t)
    /\ Goes(t, "ask")
    /\ UNCHANGED <<world, checks, streams, calls, answers>>

\* The guards of the three locks are dropped.
Unlock ==
    /\ screen' = Nobody
    /\ stdinLock' = Nobody

\* tcflush fails: denied, whatever the terminal has become.
ClearFails(t) ==
    /\ Clearing(t) /\ ~terminal
    /\ display' = 0
    /\ Unlock
    /\ Respond(t, "Deny")
    /\ UNCHANGED <<world, typed, rest, shown, calls, answers>>

\* A line ends in "nl", which trim_end_matches removes.
Trimmed(text) == SelectSeq(text, LAMBDA ch : ch # "nl")

\* What the prompter writes to a terminal that has gone is an error, of eprintln
\* or of an unwrap: after clear_stdin has failed, with the question, and with the
\* result of a line of one character.
WriteFails(t) ==
    /\ ~terminal
    /\ \/ Clearing(t)
       \/ At(t, "ask") /\ Available /\ Len(Trimmed(FirstLine.text)) = 1
    /\ Panic
    /\ UNCHANGED <<streams, calls, answers>>

\* What a line without its end means: A is an answer where the question is unary,
\* and another question is put for a character that is none.
ResponsesTo(text) ==
    {r \in Responses \cup {"Again"} :
        \/ r = "Allow" /\ text \in {<<"y">>, <<"Y">>}
        \/ r = "AllowAll" /\ text = <<"A">>
        \/ r = "Deny" /\ (Len(text) # 1 \/ text \in {<<"n">>, <<"N">>, <<"esc">>})
        \/ r = "Again" /\ Len(text) = 1 /\ text[1] \notin {"y", "Y", "n", "N", "esc"}}

\* read_line, and the loop for a line that is no answer.
ReadAnswer(t) ==
    /\ At(t, "ask") /\ Available
    /\ typed' = Queue /\ rest' = NoLine
    /\ \E r \in ResponsesTo(Trimmed(FirstLine.text)) :
          IF r = "Again"
          THEN /\ shown' = shown + 1 /\ display' = shown + 1
               /\ Goes(t, "reclear")
               /\ UNCHANGED answers
          ELSE /\ answers' = answers \cup {[question |-> shown, kind |-> call[t].kind, item |-> call[t].item,
                                           line |-> FirstLine, response |-> r]}
               /\ call' = [call EXCEPT ![t].stage = "answered", ![t].response = r]
               /\ UNCHANGED <<shown, display>>
    /\ UNCHANGED <<world, checks, stdinLock, screen, calls>>

\* The terminal has gone while the prompter waits: an empty line.
ReadNothing(t) ==
    /\ At(t, "ask") /\ AtEnd
    /\ call' = [call EXCEPT ![t].stage = "answered", ![t].response = "Deny"]
    /\ UNCHANGED <<world, checks, streams, calls, answers>>

\* The locks are dropped; the prompter asserts that the terminal is still one.
Finish(t) ==
    /\ At(t, "answered")
    /\ Unlock
    /\ IF terminal
       THEN Respond(t, call[t].response) /\ UNCHANGED world
       ELSE Panic
    /\ UNCHANGED <<typed, rest, shown, display, calls, answers>>

-----------------------------------------------------------------------------
Prompter(t) ==
    \/ PromptDenied(t) \/ PromptBegins(t) \/ LockScreen(t) \/ LockStdin(t)
    \/ Flush(t) \/ Display(t) \/ Ask(t) \/ ClearFails(t) \/ WriteFails(t)
    \/ ReadAnswer(t) \/ ReadNothing(t) \/ Finish(t)

Reads(t) ==
    \/ Available /\ \E n \in 1 .. Len(FirstLine.text) : GuestReads(t, n)
    \/ GuestReadsEnd(t)

Next ==
    \/ HangUp \/ ReaderTakes \/ ReaderEnds
    \/ \E text \in Texts : Type(text)
    \/ \E t \in Threads :
          \/ GuestWrite(t) \/ GuestRead(t) \/ Reads(t) \/ Prompter(t)
          \/ \E k \in Kinds, x \in Items : Check(t, k, x)

\* A thread that can go on in a check or a read does so; the reader of fixed input
\* ends with the terminal. Nothing is assumed of the user or of the guest.
Fairness ==
    /\ \A t \in Threads : WF_vars(Prompter(t) \/ Reads(t))
    /\ WF_vars(~terminal /\ ReaderEnds)

Spec == Init /\ [][Next]_vars /\ Fairness

-----------------------------------------------------------------------------
(* Properties. *)

\* The types of the variables.
TypeOK ==
    /\ config \in ConfigType
    /\ perms \in [Kinds -> Container]
    /\ container \in Threads \cup {Nobody}
    /\ stdin \in Stdins /\ terminal \in BOOLEAN
    /\ typed \in Seq(Lines) /\ rest \in Lines
    /\ stdinLock \in Threads \cup {Nobody, Reader}
    /\ screen \in Threads \cup {Nobody}
    /\ shown \in Nat /\ display \in Nat
    /\ call \in [Threads -> Calls]
    /\ calls \in 0 .. MaxCalls /\ lines \in 0 .. MaxLines
    /\ used \subseteq Kinds \X Items
    /\ answers \subseteq Answers
    /\ alive \in BOOLEAN

\* "Lock stdio streams, so no other output is written while the prompt is
\* displayed": while a thread waits for an answer its question is the last thing
\* on the screen, whatever the other threads of the guest write.
QuestionStands ==
    \A t \in Threads : At(t, "reclear") \/ At(t, "ask") => display = shown /\ shown > 0

\* Of the lines in the queue of the terminal only one that was typed while this
\* very question was displayed answers it, whether it allows or denies: what was
\* typed ahead, for an earlier question or for the guest, is no answer. It is not
\* what prompter.rs:272 says, that nothing buffered previously can affect the
\* prompt: tcflush does not reach the buffer of std's stdin, and what a guest has
\* left there of a line is an answer (second disjunct).
AnswerFresh ==
    \A a \in answers : a.line.asked = a.question \/ a.line.begun

\* What the options say of an item: a list of --deny has no effect beside
\* --allow-all.
OptionsDeny(k, x) == config.deny[k].all \/ (~config.allowAll /\ x \in config.deny[k].list)
OptionsAllow(k, x) == config.allowAll \/ config.allow[k].all \/ x \in config.allow[k].list

\* What the user has answered to a question about an item.
UserAllows(k, x) ==
    \E a \in answers : a.kind = k /\ (a.response = "AllowAll" \/ (a.response = "Allow" /\ a.item = x))
UserDenies(k, x) == \E a \in answers : a.kind = k /\ a.item = x /\ a.response = "Deny"

\* A check that has succeeded was allowed by the options or by an answer of the
\* user, and is denied by neither: also over several questions, to several
\* threads, of several kinds.
AllowedTruth ==
    \A u \in used : LET k == u[1]
                       x == u[2]
                   IN  /\ ~OptionsDeny(k, x) /\ ~UserDenies(k, x)
                       /\ OptionsAllow(k, x) \/ UserAllows(k, x)

\* When the terminal is gone every check and every read of stdin ends, in
\* whichever stage and whoever holds which lock, or the process does.
HangUpEnds ==
    \A t \in Threads :
        ~terminal /\ call[t].stage # "idle" ~> ~alive \/ call[t].stage = "idle"

=============================================================================

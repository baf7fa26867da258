---------------------------- MODULE LlmSession ----------------------------
(***************************************************************************)
(* The llm driver (crates/blockless-drivers/src/llm_driver): the sessions  *)
(* of a process in CONTEXTS, one HandleMap for all runs, the calls that    *)
(* open, configure, use and close them, and the llamafile server that each *)
(* session starts as a child process.                                      *)
(*                                                                         *)
(* A call is cut at its awaits: the download (ModelFile), the start of the *)
(* server, the list of tools, the chat requests and the tool call.  What   *)
(* it does between two awaits is one critical section of CONTEXTS.         *)
(* A caller may use any handle: runs of one process share the handles.     *)
(***************************************************************************)
EXTENDS ModelFile, Sequences

CONSTANTS
    Servers,    \* bound: providers in use at a time, each with its child process
    NoServer,   \* no provider
    MaxCalls,   \* bound: calls of the driver, which also bounds the handles
    MaxCrashes  \* bound: ends of the process

ASSUME SessionAssumption ==
    /\ NoServer \notin Servers
    /\ MaxCalls \in Nat \ {0} /\ MaxCrashes \in Nat

VARIABLES
    contexts,   \* CONTEXTS.contexts: handle -> session
    nextHandle, \* CONTEXTS.next_handle
    server,     \* server[p]: is the child process of provider p started
    call,       \* call[c]: the call that caller c is in
    made,       \* calls made so far
    crashes     \* ends of the process so far

sessionVars == <<contexts, nextHandle, server>>
vars == <<fileVars, sessionVars, call, made, crashes>>

Handles == 1 .. MaxCalls
Roles == {"system", "user", "assistant", "tool"}
Tools == {"none", "empty", "some"}

\* messages in order; tools_map; tuned: llm_set_options has succeeded.
Sessions == [open : {TRUE}, provider : Servers, messages : Seq(Roles), tools : Tools, tuned : BOOLEAN]
NoSession == [open |-> FALSE]

Stages == {"idle", "init", "warm", "list", "chat", "tool", "again"}
Waiting == {"chat", "tool", "again"}

\* provider: the Arc the call holds; tools: the tools_map of its snapshot.
Calls == [stage : Stages, handle : Handles, provider : Servers \cup {NoServer}, tools : Tools]
NoCall == [stage |-> "idle", handle |-> 1, provider |-> NoServer, tools |-> "none"]

TypeOK ==
    /\ FileTypeOK
    /\ contexts \in [Handles -> Sessions \cup {NoSession}]
    /\ nextHandle \in 1 .. MaxCalls + 1
    /\ server \in [Servers -> BOOLEAN]
    /\ call \in [Callers -> Calls]
    /\ made \in 0 .. MaxCalls /\ crashes \in 0 .. MaxCrashes
    /\ \A c \in Callers : call[c].stage # "init" <=> job[c].stage = "none"

Init ==
    /\ FileInit
    /\ contexts = [h \in Handles |-> NoSession]
    /\ nextHandle = 1
    /\ server = [p \in Servers |-> FALSE]
    /\ call = [c \in Callers |-> NoCall]
    /\ made = 0 /\ crashes = 0

-----------------------------------------------------------------------------

\* Some session or call has a reference to provider p.
OwnedIn(ctx, calls, p) ==
    \/ \E h \in Handles : ctx[h].open /\ ctx[h].provider = p
    \/ \E c \in Callers : calls[c].provider = p

\* Mutation: a provider that is dropped leaves its child process alone.
DroppedAlone(ctx, calls) == server

\* The last reference to a provider is dropped: its Drop kills the child.
Dropped(ctx, calls) == [p \in Servers |-> server[p] /\ OwnedIn(ctx, calls, p)]

\* The step leaves these sessions and calls; providers without an owner go.
Leaves(ctx, calls) ==
    /\ contexts' = ctx
    /\ call' = calls
    /\ server' = Dropped(ctx, calls)

Returned(c) == [call EXCEPT ![c] = NoCall]

\* The call returns, with a result or an error, and drops what it holds.
Returns(c) == Leaves(contexts, Returned(c))

Idle(c) == call[c].stage = "idle" /\ made < MaxCalls
Counts == made' = made + 1

Said(h, role) == [contexts EXCEPT ![h].messages = Append(@, role)]

-----------------------------------------------------------------------------
\* Opening a session

\* llm_set_model: the model is supported and its URL permitted; LlmContext::new
\* calls initialize.
SetModel(c) ==
    /\ Idle(c) /\ Counts
    /\ call' = [call EXCEPT ![c].stage = "init"]
    /\ job' = [job EXCEPT ![c].stage = "look"]
    /\ UNCHANGED <<files, sessionVars, crashes>>

InitFails(c) ==
    /\ job[c].stage \in {"failed", "spawn"}
    /\ job' = [job EXCEPT ![c] = NoJob]
    /\ call' = Returned(c)
    /\ UNCHANGED <<files, sessionVars, made, crashes>>

\* start_server: a file that can be executed starts; one that is not the model
\* may fail, as may a spawn in general (InitFails).
StartServer(c) ==
    /\ job[c].stage = "spawn" /\ model.exec
    /\ \E p \in Servers :
          /\ ~OwnedIn(contexts, call, p)
          /\ server' = [server EXCEPT ![p] = TRUE]
          /\ call' = [call EXCEPT ![c].stage = "warm", ![c].provider = p]
    /\ job' = [job EXCEPT ![c] = NoJob]
    /\ UNCHANGED <<files, contexts, nextHandle, made, crashes>>

\* Mutation: the smallest handle that is free.
NewHandleSmallest == CHOOSE h \in Handles : ~contexts[h].open /\ \A g \in 1 .. h - 1 : contexts[g].open

NewHandle == nextHandle

\* Mutation: the context does not own the provider.
OpeningBare(p) == [open |-> TRUE, provider |-> NoServer, messages |-> <<>>, tools |-> "none", tuned |-> FALSE]

Opening(p) == [open |-> TRUE, provider |-> p, messages |-> <<>>, tools |-> "none", tuned |-> FALSE]

\* The two seconds for the server have passed: HandleMap::insert.
Insert(c) ==
    /\ call[c].stage = "warm"
    /\ Leaves([contexts EXCEPT ![NewHandle] = Opening(call[c].provider)], Returned(c))
    /\ nextHandle' = nextHandle + 1
    /\ UNCHANGED <<fileVars, made, crashes>>

-----------------------------------------------------------------------------
\* Using a session

\* llm_set_options: the options parse; the tools of their URLs are listed.
SetOptions(c, h) ==
    /\ Idle(c) /\ Counts
    /\ call' = [call EXCEPT ![c].stage = "list", ![c].handle = h]
    /\ UNCHANGED <<fileVars, sessionVars, crashes>>

\* Mutation: the system message is put behind the messages there are.
RestartedKeep(messages) == Append(messages, "system")

Restarted(messages) == <<"system">>

\* get_tools_map leaves out a server that does not answer: the map may be empty.
ToolsMaps == {"empty", "some"}

\* construct_system_prompt_with_tools: options without URLs leave the tools_map
\* there is.
NewTools(tools) == ToolsMaps \cup {tools}

\* The tools are listed, if the options name any URL, and the session starts anew.
Listed(c) ==
    /\ call[c].stage = "list"
    /\ LET h == call[c].handle
       IN  IF ~contexts[h].open
           THEN Returns(c)
           ELSE \E tools \in NewTools(contexts[h].tools) :
                   Leaves([contexts EXCEPT ![h].messages = Restarted(@),
                                           ![h].tools = tools, ![h].tuned = TRUE],
                          Returned(c))
    /\ UNCHANGED <<fileVars, nextHandle, made, crashes>>

\* llm_prompt.
Prompt(c, h) ==
    /\ Idle(c) /\ Counts
    /\ contexts[h].open
    /\ contexts' = Said(h, "user")
    /\ UNCHANGED <<fileVars, nextHandle, server, call, crashes>>

\* llm_read_response: provider and tools_map are cloned, the chat begins.
ReadResponse(c, h) ==
    /\ Idle(c) /\ Counts
    /\ contexts[h].open
    /\ call' = [call EXCEPT ![c] = [stage |-> "chat", handle |-> h,
                                    provider |-> contexts[h].provider, tools |-> contexts[h].tools]]
    /\ UNCHANGED <<fileVars, sessionVars, crashes>>

\* The session is gone: ModelNotSet.
Gone(c) == ~contexts[call[c].handle].open /\ Returns(c)

\* The message is added and the call goes on to the given stage.
Adds(c, role, stage) ==
    /\ contexts[call[c].handle].open
    /\ Leaves(Said(call[c].handle, role),
              IF stage = "idle" THEN Returned(c) ELSE [call EXCEPT ![c].stage = stage])

\* Mutation: a request that fails is sent again.
FailedAgain(c) == UNCHANGED <<contexts, server, call>>

Failed(c) == Returns(c)

\* A chat request fails, or its 30 seconds are over: ModelCompletionFailed.
ChatFails(c) ==
    /\ call[c].stage \in {"chat", "again"}
    /\ Failed(c)
    /\ UNCHANGED <<fileVars, nextHandle, made, crashes>>

\* The server on port 8080 has answered; without tools the call returns, with
\* some the answer may be a function call.
Chatted(c) ==
    /\ call[c].stage = "chat"
    /\ \/ Gone(c)
       \/ Adds(c, "assistant", "idle")
       \/ call[c].tools = "some" /\ Adds(c, "assistant", "tool")
    /\ UNCHANGED <<fileVars, nextHandle, made, crashes>>

\* The tool has answered and its result is added, or it failed.
ToolCalled(c) ==
    /\ call[c].stage = "tool"
    /\ Returns(c) \/ Adds(c, "tool", "again")
    /\ UNCHANGED <<fileVars, nextHandle, made, crashes>>

\* The second chat, about the result of the tool.
ChattedAgain(c) ==
    /\ call[c].stage = "again"
    /\ Gone(c) \/ Adds(c, "assistant", "idle")
    /\ UNCHANGED <<fileVars, nextHandle, made, crashes>>

\* llm_close: the session is removed; its provider is shut down now, or by the
\* last call that still holds it.
Close(c, h) ==
    /\ Idle(c) /\ Counts
    /\ contexts[h].open
    /\ Leaves([contexts EXCEPT ![h] = NoSession], call)
    /\ UNCHANGED <<fileVars, nextHandle, crashes>>

\* The process ends, in whatever state, and another one starts.  A server that
\* outlives it belongs to no session any more and is left out.
Crash ==
    /\ crashes < MaxCrashes /\ crashes' = crashes + 1
    /\ FileCrash
    /\ contexts' = [h \in Handles |-> NoSession]
    /\ nextHandle' = 1
    /\ server' = [p \in Servers |-> FALSE]
    /\ call' = [c \in Callers |-> NoCall]
    /\ UNCHANGED made

-----------------------------------------------------------------------------

\* Steps of a call that need no peer; a chat request ends by its timeout at last.
OwnStep(c) ==
    \/ Local(c) /\ UNCHANGED <<sessionVars, call, made, crashes>>
    \/ InitFails(c) \/ StartServer(c) \/ Insert(c) \/ ChatFails(c)

\* Steps that a peer makes possible: a server, a tool.
PeerStep(c) ==
    \/ Transfer(c) /\ UNCHANGED <<sessionVars, call, made, crashes>>
    \/ Listed(c) \/ Chatted(c) \/ ToolCalled(c) \/ ChattedAgain(c)

Request(c) ==
    \/ SetModel(c)
    \/ \E h \in Handles : SetOptions(c, h) \/ Prompt(c, h) \/ ReadResponse(c, h) \/ Close(c, h)

Next == Crash \/ \E c \in Callers : OwnStep(c) \/ PeerStep(c) \/ Request(c)

Spec == Init /\ [][Next]_vars

\* The executor polls a call that can proceed; nobody makes peers answer.
FairSpec == Spec /\ \A c \in Callers : WF_vars(OwnStep(c))

-----------------------------------------------------------------------------
\* Properties

\* A server runs exactly while a session or a call in progress has its provider:
\* closing a session that a read is using neither kills the server under the
\* read nor leaves it running afterwards.
ServerLifetime == \A p \in Servers : server[p] <=> OwnedIn(contexts, call, p)

\* A handle means one session for the life of the process: a read that comes
\* back after a close never finds another session under its handle.
OneSession ==
    \A c \in Callers :
        call[c].stage \in Waiting /\ contexts[call[c].handle].open =>
            contexts[call[c].handle].provider = call[c].provider

\* However prompts, answers and options overlap, a conversation has its system
\* message first and only there, from the first options on.
SystemFirst ==
    \A h \in Handles : contexts[h].open =>
        \A i \in DOMAIN contexts[h].messages \cup {1} :
            (contexts[h].tuned /\ i = 1)
              <=> (i \in DOMAIN contexts[h].messages /\ contexts[h].messages[i] = "system")

\* A call comes back unless it waits for ever for a download or a tool server.
CallsEnd ==
    \A c \in Callers :
        \/ []<>(call[c].stage = "idle")
        \/ <>[](call[c].stage \in {"list", "tool"} \/ job[c].stage \in {"look", "head", "get", "body"})

=============================================================================

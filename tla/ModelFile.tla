----------------------------- MODULE ModelFile -----------------------------
(***************************************************************************)
(* The model file of the llm driver and its download                       *)
(* (crates/blockless-drivers/src/llm_driver/llamafile.rs): initialize      *)
(* downloads the model when its path does not exist, download_model writes *)
(* a .part file, resumes it with a Range request, renames it and makes it  *)
(* executable.  Only the disk outlives a crash.                            *)
(*                                                                         *)
(* A file is a length, in chunks, and whether its bytes are a prefix of    *)
(* the model.  Downloads of a file follow one another: calls that download *)
(* it at the same time, which share the .part file, are left out.          *)
(***************************************************************************)
EXTENDS Naturals

CONSTANTS
    Callers,    \* tasks that call the driver
    Size,       \* chunks of the model
    Announced,  \* sizes the answer to HEAD may give, right or wrong; 0 is none
    Ranges,     \* is a Range request answered with the range: a subset of BOOLEAN
    Framed,     \* does the answer to GET say where it ends: a subset of BOOLEAN
    NoFile,     \* a path that does not exist
    MaxLen      \* bound: chunks the .part file may grow to

Files == [len : 0 .. MaxLen, sound : BOOLEAN, exec : BOOLEAN]

ASSUME FileAssumption ==
    /\ Size \in Nat \ {0} /\ MaxLen \in Nat /\ Size <= MaxLen
    /\ Announced \subseteq 0 .. MaxLen /\ Ranges \subseteq BOOLEAN /\ Framed \subseteq BOOLEAN
    /\ NoFile \notin Files

VARIABLES
    part,       \* the .part file
    model,      \* the file at model_path
    job,        \* job[c]: the initialize that caller c is in
    misled      \* history: the last download to end trusted a wrong size or a short answer

files == <<part, model, misled>>
fileVars == <<files, job>>

JobStages == {"none", "look", "head", "open", "get", "body", "rename", "chmod", "spawn", "failed"}

\* size: total_size, 0 where HEAD gave none; from: length of .part when it was
\* opened; left: chunks the peer has not sent; whole: it sends the file from its
\* beginning; framed: with a length or in chunks, so that a cut is an error.
Jobs == [stage : JobStages, size : 0 .. MaxLen, from : 0 .. MaxLen, left : 0 .. Size,
         whole : BOOLEAN, framed : BOOLEAN]

NoJob == [stage |-> "none", size |-> 0, from |-> 0, left |-> 0, whole |-> TRUE, framed |-> TRUE]

FileTypeOK ==
    /\ part \in Files \cup {NoFile}
    /\ model \in Files \cup {NoFile}
    /\ job \in [Callers -> Jobs]
    /\ misled \in BOOLEAN

FileInit ==
    /\ part = NoFile
    /\ model = NoFile
    /\ job = [c \in Callers |-> NoJob]
    /\ misled = FALSE

-----------------------------------------------------------------------------

Goes(c, stage) == job' = [job EXCEPT ![c].stage = stage]

\* An error leaves the files as they are.
Fails(c) == Goes(c, "failed") /\ UNCHANGED files

\* initialize: is there a file at model_path?
Look(c) ==
    /\ job[c].stage = "look"
    /\ \A d \in Callers : job[d].stage \in {"none", "look"}
    /\ Goes(c, IF model = NoFile THEN "head" ELSE "spawn")
    /\ UNCHANGED files

\* The HEAD request is answered, with some size or none, or fails.
HeadRequest(c) ==
    /\ job[c].stage = "head"
    /\ \/ \E n \in Announced :
             /\ job' = [job EXCEPT ![c].stage = "open", ![c].size = n]
             /\ UNCHANGED files
       \/ Fails(c)

PartLen == IF part = NoFile THEN 0 ELSE part.len

\* Mutation: the .part file is created anew by every call.
OpenedAnew(len) == [len |-> 0, sound |-> TRUE, exec |-> FALSE]

\* The file is created if there is nothing to resume, else opened to append.
Opened(len) == IF len > 0 THEN part ELSE [len |-> 0, sound |-> TRUE, exec |-> FALSE]

\* A .part file of the announced size counts as complete; any other is resumed.
Open(c) ==
    /\ job[c].stage = "open"
    /\ IF job[c].size > 0 /\ PartLen = job[c].size
       THEN /\ Goes(c, "rename")
            /\ misled' = (PartLen # Size)
            /\ UNCHANGED <<part, model>>
       ELSE /\ part' = Opened(PartLen)
            /\ job' = [job EXCEPT ![c].stage = "get", ![c].from = PartLen]
            /\ UNCHANGED <<model, misled>>

\* The answer brings n chunks, framed or not.
Begins(c, n, whole) ==
    /\ \E f \in Framed :
          job' = [job EXCEPT ![c].stage = "body", ![c].left = n, ![c].whole = whole, ![c].framed = f]
    /\ UNCHANGED files

\* The answer to GET begins.  A range that starts at or after the end is refused.
Get(c) ==
    /\ job[c].stage = "get"
    /\ \/ job[c].from = 0 /\ Begins(c, Size, TRUE)
       \/ job[c].from \in 1 .. Size - 1 /\ TRUE \in Ranges /\ Begins(c, Size - job[c].from, FALSE)
       \/ job[c].from > 0 /\ FALSE \in Ranges /\ Begins(c, Size, TRUE)
       \/ Fails(c)

\* Bytes from the beginning of the model after other bytes are not a prefix of it.
Fits(c) == job[c].whole => job[c].from = 0

\* Mutation: an interrupted body ends the download like a complete one.
Interrupted(c) == Goes(c, "rename") /\ UNCHANGED files

Broken(c) == Fails(c)

\* A chunk arrives and is written, or the connection fails.
Chunk(c) ==
    /\ job[c].stage = "body" /\ job[c].left > 0
    /\ \/ /\ part.len < MaxLen
          /\ part' = [part EXCEPT !.len = @ + 1, !.sound = @ /\ Fits(c)]
          /\ job' = [job EXCEPT ![c].left = @ - 1]
          /\ UNCHANGED <<model, misled>>
       \/ Broken(c)

\* A framed body has come to its end and is synced; that the file has another
\* size than announced is only logged.
EndOfBody(c) ==
    /\ job[c].stage = "body" /\ job[c].framed /\ job[c].left = 0
    /\ Goes(c, "rename")
    /\ misled' = FALSE
    /\ UNCHANGED <<part, model>>

\* A body that is not framed ends where the peer closes the connection.
Closed(c) ==
    /\ job[c].stage = "body" /\ ~job[c].framed
    /\ Goes(c, "rename")
    /\ misled' = (job[c].left # 0)
    /\ UNCHANGED <<part, model>>

Rename(c) ==
    /\ job[c].stage = "rename"
    /\ model' = part
    /\ part' = NoFile
    /\ Goes(c, "chmod")
    /\ UNCHANGED misled

\* The owner of a file may always change its mode.
Chmod(c) ==
    /\ job[c].stage = "chmod"
    /\ model' = [model EXCEPT !.exec = TRUE]
    /\ Goes(c, "spawn")
    /\ UNCHANGED <<part, misled>>

\* The steps that wait for a peer: no request of a download has a timeout.
Transfer(c) == HeadRequest(c) \/ Get(c) \/ Chunk(c) \/ Closed(c)

Local(c) == Look(c) \/ Open(c) \/ EndOfBody(c) \/ Rename(c) \/ Chmod(c)

\* Only the disk remains.
FileCrash ==
    /\ job' = [c \in Callers |-> NoJob]
    /\ UNCHANGED files

-----------------------------------------------------------------------------
\* Properties

\* Whatever downloads failed and were resumed, in one process or over a crash, the
\* file at model_path has the whole model, unless a peer misled the download: with
\* a wrong size, or an answer that ended early without an error.  It has nothing
\* else, unless a server answered a Range request with the whole file.
CompleteModel ==
    model # NoFile =>
        /\ ~misled => model.len >= Size
        /\ model.sound => model.len <= Size

\* "Resumes interrupted downloads": no call throws away what an earlier one
\* wrote; the .part file goes only by becoming the model.
PartKept ==
    [][part # NoFile =>
          \/ part' # NoFile /\ part'.len >= part.len
          \/ part' = NoFile /\ model' = part]_<<part, model>>

\* "Sets executable permissions on completion": outside a call the file at
\* model_path can be executed.
Executable ==
    model # NoFile /\ (\A c \in Callers : job[c].stage = "none") => model.exec

=============================================================================

------------------------- MODULE LlmSessionProofs -------------------------
(* Theorems about LlmSession and the ModelFile it downloads, for any number *)
(* of callers and providers, any size of the model and any bounds.          *)
EXTENDS LlmSession, FiniteSets, FiniteSetTheorems, SequenceTheorems, TLAPS

\* What initialize does to the files.
FileStep(c) == Local(c) \/ Transfer(c)

Resting == {"none", "look"}

\* Downloads follow one another.
OneDownload ==
    \A c, d \in Callers : c # d /\ job[c].stage \notin Resting => job[d].stage \in Resting

\* What a download knows of the files, stage by stage.
Progress(c) ==
    LET j == job[c]
    IN  /\ j.stage \in {"head", "open", "get", "body", "rename"} => model = NoFile
        /\ j.stage \in {"get", "body", "rename"} => part # NoFile
        /\ j.stage = "get" => part.len = j.from
        /\ j.stage = "body" => /\ j.whole => part.len + j.left = j.from + Size
                               /\ ~j.whole => part.len + j.left = Size
        /\ j.stage = "rename" /\ ~misled => part.len >= Size
        /\ j.stage = "chmod" => model # NoFile

\* A .part file that is a prefix of the model is not longer than it.
PartSound == part # NoFile /\ part.sound => part.len <= Size

FileInv ==
    /\ OneDownload
    /\ \A c \in Callers : Progress(c)
    /\ PartSound
    /\ CompleteModel

-----------------------------------------------------------------------------
(* The model file. *)

\* A file that is there.
LEMMA FileTypes ==
    ASSUME FileTypeOK
    PROVE  /\ part # NoFile => part \in Files
           /\ model # NoFile => model \in Files
           /\ \A f \in Files : f # NoFile
BY FileAssumption DEF FileTypeOK

\* A step of one download leaves the other callers alone.
LEMMA OneJob ==
    ASSUME FileTypeOK, NEW c \in Callers, FileStep(c)
    PROVE  /\ job[c].stage # "none" /\ job'[c].stage # "none"
           /\ \A d \in Callers : d # c => job'[d] = job[d]
           /\ job' \in [Callers -> Jobs]
<1> USE DEF FileStep, Local, Transfer
<1>1. \A stage \in JobStages \ {"none"} :
        Goes(c, stage) => /\ job' \in [Callers -> Jobs] /\ job'[c].stage # "none"
                          /\ \A d \in Callers : d # c => job'[d] = job[d]
  BY DEF Goes, FileTypeOK, Jobs
<1>2. {"look", "head", "open", "get", "body", "rename", "chmod", "spawn", "failed"} \subseteq JobStages \ {"none"}
  BY DEF JobStages
<1>3. job \in [Callers -> Jobs]
  BY DEF FileTypeOK
<1>4. CASE Look(c) \/ EndOfBody(c) \/ Closed(c) \/ Rename(c) \/ Chmod(c)
  BY <1>1, <1>2, <1>4 DEF Look, EndOfBody, Closed, Rename, Chmod
<1>5. CASE Fails(c)
  <2>1. job[c].stage # "none"
    BY DEF Look, Open, EndOfBody, Closed, Rename, Chmod, HeadRequest, Get, Chunk
  <2> QED
    BY <1>1, <1>2, <1>5, <2>1 DEF Fails
<1>6. CASE HeadRequest(c) /\ ~Fails(c)
  <2>1. PICK n \in Announced : job' = [job EXCEPT ![c].stage = "open", ![c].size = n]
    BY <1>6 DEF HeadRequest
  <2>2. n \in 0 .. MaxLen
    BY FileAssumption
  <2> QED
    <3>1. job[c].stage = "head"
      BY <1>6 DEF HeadRequest
    <3> QED
      BY <1>2, <1>3, <2>1, <2>2, <3>1 DEF Jobs
<1>7. CASE Open(c)
  <2>1. PartLen \in 0 .. MaxLen
    BY FileAssumption DEF PartLen, FileTypeOK, Files
  <2>2. CASE Goes(c, "rename")
    BY <1>1, <1>2, <1>7, <2>2 DEF Open
  <2>3. CASE job' = [job EXCEPT ![c].stage = "get", ![c].from = PartLen]
    BY <1>2, <1>3, <1>7, <2>1, <2>3, ZenonT(30) DEF Jobs, Open
  <2> QED
    BY <1>7, <2>2, <2>3 DEF Open
<1>8. CASE Get(c) /\ ~Fails(c)
  <2>1. Size \in 0 .. Size /\ job[c] \in Jobs
    BY <1>3, FileAssumption
  <2>2. PICK left \in 0 .. Size, whole \in BOOLEAN, f \in BOOLEAN :
            job' = [job EXCEPT ![c].stage = "body", ![c].left = left, ![c].whole = whole, ![c].framed = f]
    <3>1. job[c].from \in 1 .. Size - 1 => Size - job[c].from \in 0 .. Size
      BY FileAssumption
    <3>2. PICK left \in 0 .. Size, whole \in BOOLEAN : Begins(c, left, whole)
      BY <1>8, <2>1, <3>1 DEF Get
    <3> QED
      BY <3>2, FileAssumption DEF Begins
  <2>3. job[c].stage = "get"
    BY <1>8 DEF Get
  <2>4. \A j \in Jobs : [j EXCEPT !.stage = "body", !.left = left, !.whole = whole, !.framed = f] \in Jobs
    BY DEF Jobs, JobStages
  <2> DEFINE j == [job[c] EXCEPT !.stage = "body", !.left = left, !.whole = whole, !.framed = f]
  <2>5. job' = [job EXCEPT ![c] = j]
    BY <2>2
  <2>6. j \in Jobs /\ j.stage = "body"
    BY <2>1, <2>4 DEF Jobs
  <2> HIDE DEF j
  <2> QED
    BY <2>3, <2>5, <2>6 DEF FileTypeOK
<1>9. CASE Chunk(c) /\ ~Fails(c)
  <2>1. job' = [job EXCEPT ![c].left = @ - 1] /\ job[c].stage = "body" /\ job[c].left > 0
    BY <1>9 DEF Chunk, Broken
  <2>2. job[c].left - 1 \in 0 .. Size
    BY <1>3, <2>1, FileAssumption DEF Jobs
  <2> QED
    BY <1>3, <2>1, <2>2 DEF Jobs
<1> QED
  BY <1>4, <1>5, <1>6, <1>7, <1>8, <1>9

LEMMA FileStepTypes ==
    ASSUME FileTypeOK, FileInv, NEW c \in Callers, FileStep(c)
    PROVE  FileTypeOK'
<1>1. job' \in [Callers -> Jobs]
  BY OneJob
<1>7. misled' \in BOOLEAN
  <2>1. CASE misled' = misled
    BY <2>1 DEF FileTypeOK
  <2>2. CASE misled' = (PartLen # Size) \/ misled' = (job[c].left # 0) \/ misled' = FALSE
    BY <2>2
  <2> QED
    BY <2>1, <2>2 DEF FileStep, Local, Transfer, Look, Open, EndOfBody, Closed, Rename, Chmod, HeadRequest,
                      Get, Begins, Chunk, Broken, Fails, files
<1>2. CASE UNCHANGED <<part, model>>
  <2>1. misled' \in BOOLEAN
    BY <1>7
  <2> QED
    BY <1>1, <1>2, <2>1 DEF FileTypeOK
<1>3. CASE Open(c)
  <2>1. [len |-> 0, sound |-> TRUE, exec |-> FALSE] \in Files
    BY FileAssumption DEF Files
  <2>2. model' = model /\ (part' = part \/ part' = Opened(PartLen))
    BY <1>3 DEF Open
  <2> QED
    BY <1>1, <1>7, <2>1, <2>2 DEF Opened, FileTypeOK
<1>4. CASE Chunk(c) /\ ~Fails(c)
  <2>1. part # NoFile /\ job[c].stage = "body" /\ part.len < MaxLen
    BY <1>4 DEF Chunk, Broken, FileInv, Progress
  <2>2. part' = [part EXCEPT !.len = @ + 1, !.sound = @ /\ Fits(c)] /\ UNCHANGED model
    BY <1>4 DEF Chunk, Broken
  <2>3. part \in Files
    BY <2>1, FileTypes
  <2>4. part.len + 1 \in 0 .. MaxLen /\ (part.sound /\ Fits(c)) \in BOOLEAN
    BY <2>1, <2>3, FileAssumption DEF Files
  <2> QED
    BY <1>1, <1>7, <2>2, <2>3, <2>4 DEF FileTypeOK, Files
<1>5. CASE Rename(c)
  BY <1>1, <1>5, <1>7 DEF Rename, FileTypeOK
<1>6. CASE Chmod(c)
  <2>1. model \in Files
    BY <1>6, FileTypes DEF Chmod, FileInv, Progress
  <2> QED
    BY <1>1, <1>6, <1>7, <2>1 DEF Chmod, FileTypeOK, Files
<1> QED
  BY <1>2, <1>3, <1>4, <1>5, <1>6
     DEF FileStep, Local, Transfer, Look, EndOfBody, Closed, HeadRequest, Get, Begins, Chunk, Broken, Fails, files

\* A download that has begun is alone, and another may begin when none has.
LEMMA DownloadAlone ==
    ASSUME FileTypeOK, FileInv, NEW c \in Callers, FileStep(c)
    PROVE  /\ OneDownload'
           /\ \A d \in Callers : d # c => job[d].stage \in Resting
           /\ \A d \in Callers : d # c => job'[d].stage \in Resting
<1>1. \A d \in Callers : d # c => job[d].stage \in Resting
  <2>1. CASE Look(c)
    BY <2>1 DEF Look, Resting
  <2>2. CASE job[c].stage \notin Resting
    BY <2>2 DEF FileInv, OneDownload
  <2> QED
    BY <2>1, <2>2 DEF FileStep, Local, Transfer, Look, Open, EndOfBody, Closed, Rename, Chmod,
                      HeadRequest, Get, Chunk, Resting
<1>2. \A d \in Callers : d # c => job'[d] = job[d]
  BY OneJob
<1> QED
  BY <1>1, <1>2 DEF OneDownload

\* What the step does to its own download.
LEMMA FileStepInv ==
    ASSUME FileTypeOK, FileInv, NEW c \in Callers, FileStep(c)
    PROVE  FileInv'
<1>1. OneDownload' /\ \A d \in Callers : d # c => job'[d].stage \in Resting
  BY DownloadAlone
<1>2. ASSUME Progress(c)', PartSound', CompleteModel' PROVE FileInv'
  <2>1. \A d \in Callers : d # c => Progress(d)'
    BY <1>1 DEF Progress, Resting
  <2> QED
    BY <1>1, <1>2, <2>1 DEF FileInv
<1>3. Progress(c) /\ PartSound /\ CompleteModel
  BY DEF FileInv
<1>4. job[c] \in Jobs
  BY DEF FileTypeOK
<1>5. ASSUME NEW stage, Goes(c, stage) PROVE job'[c].stage = stage
  BY <1>4, <1>5 DEF Goes, FileTypeOK, Jobs
<1>6. /\ Goes(c, "head") => job'[c].stage = "head"
      /\ Goes(c, "rename") => job'[c].stage = "rename"
      /\ Goes(c, "chmod") => job'[c].stage = "chmod"
      /\ Goes(c, "spawn") => job'[c].stage = "spawn"
      /\ Goes(c, "failed") => job'[c].stage = "failed"
  BY <1>5
<1>7. CASE /\ UNCHANGED files /\ job'[c].stage \in {"head", "open", "spawn", "failed"}
           /\ job'[c].stage \in {"head", "open"} => model = NoFile
  BY <1>2, <1>3, <1>7 DEF files, Progress, PartSound, CompleteModel
<1>8. CASE Look(c) \/ Fails(c)
  <2>1. /\ UNCHANGED files /\ job'[c].stage \in {"head", "spawn", "failed"}
        /\ job'[c].stage = "head" => model = NoFile
    BY <1>6, <1>8 DEF Look, Fails
  <2> QED
    BY <1>7, <2>1
<1>9. CASE HeadRequest(c) /\ ~Fails(c)
  <2>1. job'[c].stage = "open" /\ UNCHANGED files /\ job[c].stage = "head"
    BY <1>4, <1>9 DEF HeadRequest, FileTypeOK, Jobs
  <2> QED
    BY <1>3, <1>7, <2>1 DEF Progress
<1>10. CASE Open(c) /\ job[c].size > 0 /\ PartLen = job[c].size
  <2>1. /\ job'[c].stage = "rename" /\ job[c].stage = "open" /\ UNCHANGED <<part, model>>
        /\ misled' = (PartLen # Size)
    BY <1>6, <1>10, Zenon DEF Open
  <2>2. part # NoFile /\ part.len = PartLen
    BY <1>10 DEF PartLen
  <2>3. Size \in Nat
    BY FileAssumption
  <2>4. ~misled' => part.len >= Size
    <3>1. SUFFICES ASSUME ~misled' PROVE PartLen = Size
      BY <2>2, <2>3
    <3> QED
      BY <2>1, <3>1, Zenon
  <2>5. Progress(c)'
    BY <1>3, <2>1, <2>2, <2>4 DEF Progress
  <2> QED
    BY <1>2, <1>3, <2>1, <2>5 DEF Progress, PartSound, CompleteModel
<1>11. CASE Open(c) /\ ~(job[c].size > 0 /\ PartLen = job[c].size)
  <2>1. /\ job'[c].stage = "get" /\ job'[c].from = PartLen /\ job[c].stage = "open"
        /\ UNCHANGED <<model, misled>> /\ part' = Opened(PartLen)
    BY <1>4, <1>11 DEF Open, Jobs, FileTypeOK
  <2>2. [len |-> 0, sound |-> TRUE, exec |-> FALSE] \in Files
    BY FileAssumption DEF Files
  <2>3. part # NoFile => part.len \in Nat
    BY FileTypes DEF Files
  <2>4. part' # NoFile /\ part'.len = PartLen
    <3>1. CASE PartLen > 0
      BY <2>1, <3>1 DEF Opened, PartLen
    <3>2. CASE ~(PartLen > 0)
      <4>1. part' = [len |-> 0, sound |-> TRUE, exec |-> FALSE]
        BY <2>1, <3>2 DEF Opened
      <4>2. PartLen = 0
        BY <2>3, <3>2 DEF PartLen
      <4> QED
        BY <2>2, <4>1, <4>2, FileTypes
    <3> QED
      BY <3>1, <3>2
  <2>5. PartSound'
    BY <1>3, <2>1, FileAssumption DEF PartSound, Opened, PartLen
  <2>6. Progress(c)' /\ CompleteModel'
    BY <1>3, <2>1, <2>4 DEF Progress, CompleteModel
  <2> QED
    BY <1>2, <2>5, <2>6
<1>12. CASE Get(c) /\ ~Fails(c)
  <2>1. /\ job'[c].stage = "body" /\ job'[c].from = job[c].from /\ job[c].stage = "get"
        /\ UNCHANGED files
        /\ \/ job[c].from = 0 /\ job'[c].left = Size /\ job'[c].whole
           \/ job[c].from \in 1 .. Size - 1 /\ job'[c].left = Size - job[c].from /\ ~job'[c].whole
           \/ job[c].from > 0 /\ job'[c].left = Size /\ job'[c].whole
    <3>1. \/ job[c].from = 0 /\ Begins(c, Size, TRUE)
          \/ job[c].from \in 1 .. Size - 1 /\ Begins(c, Size - job[c].from, FALSE)
          \/ job[c].from > 0 /\ Begins(c, Size, TRUE)
      BY <1>12, Zenon DEF Get
    <3>2. \A left \in 0 .. Size, whole \in BOOLEAN :
            Begins(c, left, whole) =>
                /\ job'[c].stage = "body" /\ job'[c].from = job[c].from
                /\ job'[c].left = left /\ job'[c].whole = whole
      BY <1>4 DEF Begins, FileTypeOK, Jobs
    <3>3. Size \in 0 .. Size /\ \A from \in 1 .. Size - 1 : Size - from \in 0 .. Size
      BY FileAssumption
    <3>4. job[c].stage = "get" /\ UNCHANGED files
      BY <1>12 DEF Get, Begins
    <3> QED
      BY <3>1, <3>2, <3>3, <3>4
  <2>2. part # NoFile /\ part.len = job[c].from /\ model = NoFile
    BY <1>3, <2>1 DEF Progress
  <2>3. part.len \in Nat /\ Size \in Nat
    BY <2>2, FileTypes, FileAssumption DEF Files
  <2>4. Progress(c)'
    BY <2>1, <2>2, <2>3 DEF files, Progress
  <2> QED
    BY <1>2, <1>3, <2>1, <2>4 DEF files, PartSound, CompleteModel
<1>13. CASE Chunk(c) /\ ~Fails(c)
  <2>1. /\ job[c].stage = "body" /\ job[c].left > 0 /\ UNCHANGED <<model, misled>>
        /\ part' = [part EXCEPT !.len = @ + 1, !.sound = @ /\ Fits(c)]
    BY <1>13 DEF Chunk, Broken
  <2>2. /\ job'[c].stage = "body" /\ job'[c].from = job[c].from
        /\ job'[c].left = job[c].left - 1 /\ job'[c].whole = job[c].whole
    BY <1>4, <1>13 DEF Chunk, Broken, FileTypeOK, Jobs
  <2>3. part \in Files /\ part # NoFile
    BY <1>3, <2>1, FileTypes DEF Progress
  <2>4. part'.len = part.len + 1 /\ part'.sound = (part.sound /\ Fits(c))
    BY <2>1, <2>3 DEF Files
  <2>5. part.len \in Nat /\ Size \in Nat /\ job[c].left \in Nat /\ job[c].from \in Nat /\ job[c].whole \in BOOLEAN
    BY <1>4, <2>3, FileAssumption DEF Files, Jobs
  <2>6. part' # NoFile
    <3>1. part.len < MaxLen
      BY <1>13 DEF Chunk, Broken
    <3>2. part.len + 1 \in 0 .. MaxLen /\ (part.sound /\ Fits(c)) \in BOOLEAN
      BY <2>5, <3>1, FileAssumption
    <3>3. part' \in Files
      BY <2>1, <2>3, <3>2 DEF Files
    <3> QED
      BY <3>3, FileTypes
  <2>7. Progress(c)'
    BY <1>3, <2>1, <2>2, <2>4, <2>5, <2>6 DEF Progress
  <2>8. PartSound'
    <3>1. ASSUME part'.sound PROVE part'.len <= Size
      <4>1. part.sound /\ (job[c].whole => job[c].from = 0)
        BY <2>4, <3>1 DEF Fits
      <4> QED
        BY <1>3, <2>1, <2>3, <2>4, <2>5, <4>1 DEF Progress
    <3> QED
      BY <3>1 DEF PartSound
  <2> QED
    BY <1>2, <1>3, <2>1, <2>7, <2>8 DEF CompleteModel
<1>14. CASE EndOfBody(c) \/ Closed(c)
  <2>1. /\ job'[c].stage = "rename" /\ job[c].stage = "body" /\ UNCHANGED <<part, model>>
        /\ ~misled' => job[c].left = 0
    <3>1. (misled' = FALSE /\ job[c].left = 0) \/ misled' = (job[c].left # 0)
      BY <1>14 DEF EndOfBody, Closed
    <3>2. ~misled' => job[c].left = 0
      BY <3>1, Zenon
    <3> QED
      BY <1>6, <1>14, <3>2 DEF EndOfBody, Closed
  <2>2. part # NoFile /\ model = NoFile
    BY <1>3, <2>1 DEF Progress
  <2>3. part.len \in Nat /\ Size \in Nat /\ job[c].from \in Nat /\ job[c].whole \in BOOLEAN
    BY <1>4, <2>2, FileTypes, FileAssumption DEF Files, Jobs
  <2>4. job[c].left = 0 => part.len >= Size
    BY <1>3, <2>1, <2>3 DEF Progress
  <2>5. Progress(c)'
    BY <2>1, <2>2, <2>4 DEF Progress
  <2> QED
    BY <1>2, <1>3, <2>1, <2>2, <2>5 DEF PartSound, CompleteModel
<1>15. CASE Rename(c)
  <2>1. /\ job'[c].stage = "chmod" /\ job[c].stage = "rename" /\ model' = part /\ part' = NoFile
        /\ misled' = misled
    BY <1>6, <1>15 DEF Rename
  <2>2. part # NoFile /\ (~misled => part.len >= Size)
    BY <1>3, <2>1 DEF Progress
  <2>3. CompleteModel'
    BY <1>3, <2>1, <2>2 DEF PartSound, CompleteModel
  <2> QED
    BY <1>2, <2>1, <2>2, <2>3 DEF Progress, PartSound
<1>16. CASE Chmod(c)
  <2>1. /\ job'[c].stage = "spawn" /\ job[c].stage = "chmod" /\ UNCHANGED <<part, misled>>
        /\ model' = [model EXCEPT !.exec = TRUE]
    BY <1>6, <1>16 DEF Chmod
  <2>2. model \in Files /\ model # NoFile
    BY <1>3, <2>1, FileTypes DEF Progress
  <2>3. model'.len = model.len /\ model'.sound = model.sound
    BY <2>1, <2>2 DEF Files
  <2>4. Progress(c)' /\ PartSound'
    BY <1>3, <2>1 DEF Progress, PartSound
  <2> QED
    BY <1>2, <1>3, <2>1, <2>2, <2>3, <2>4 DEF CompleteModel
<1> QED
  BY <1>8, <1>9, <1>10, <1>11, <1>12, <1>13, <1>14, <1>15, <1>16 DEF FileStep, Local, Transfer

\* Jobs that begin or end touch no file.
LEMMA JobInv ==
    ASSUME FileTypeOK, FileInv, NEW c \in Callers, UNCHANGED files,
           job' \in [Callers -> Jobs], \A d \in Callers : d # c => job'[d] = job[d],
           job'[c].stage \in Resting
    PROVE  FileTypeOK' /\ FileInv'
<1>1. FileTypeOK' /\ OneDownload'
  BY DEF files, FileTypeOK, FileInv, OneDownload, Resting
<1>2. ASSUME NEW d \in Callers PROVE Progress(d)'
  BY DEF files, FileInv, Progress, Resting
<1> QED
  BY <1>1, <1>2 DEF files, FileInv, PartSound, CompleteModel

LEMMA FileCrashInv ==
    ASSUME FileTypeOK, FileInv, FileCrash
    PROVE  FileTypeOK' /\ FileInv'
<1>1. NoJob \in Jobs /\ NoJob.stage = "none"
  BY FileAssumption DEF NoJob, Jobs, JobStages
<1>2. \A c \in Callers : job'[c].stage = "none"
  BY <1>1 DEF FileCrash
<1>3. FileTypeOK'
  BY <1>1 DEF FileCrash, FileTypeOK, files
<1> QED
  BY <1>2, <1>3 DEF FileCrash, files, FileInv, OneDownload, Progress, PartSound, CompleteModel, Resting

\* The .part file grows, or becomes the model.
LEMMA PartStep ==
    ASSUME FileTypeOK, FileInv, NEW c \in Callers, FileStep(c), part # NoFile
    PROVE  \/ part' # NoFile /\ part'.len >= part.len
           \/ part' = NoFile /\ model' = part
<1>1. part \in Files /\ part.len \in Nat
  BY FileTypes DEF Files
<1>2. CASE UNCHANGED part
  BY <1>1, <1>2
<1>3. CASE Open(c)
  <2>1. [len |-> 0, sound |-> TRUE, exec |-> FALSE] \in Files
    BY FileAssumption DEF Files
  <2> QED
    <3>1. part' = part \/ (part' = [len |-> 0, sound |-> TRUE, exec |-> FALSE] /\ ~(part.len > 0))
      BY <1>3 DEF Open, Opened, PartLen
    <3>2. CASE part' = [len |-> 0, sound |-> TRUE, exec |-> FALSE] /\ ~(part.len > 0)
      <4>1. part.len = 0 /\ part'.len = 0
        BY <1>1, <3>2
      <4>2. part' # NoFile
        BY <2>1, <3>2, FileTypes
      <4> QED
        BY <4>1, <4>2
    <3> QED
      BY <1>1, <3>1, <3>2
<1>4. CASE Chunk(c) /\ ~Fails(c)
  <2>1. part.len < MaxLen /\ part' = [part EXCEPT !.len = @ + 1, !.sound = @ /\ Fits(c)]
    BY <1>4 DEF Chunk, Broken
  <2>2. part'.len = part.len + 1
    BY <1>1, <2>1 DEF Files
  <2>3. part' \in Files
    <3>1. part.len + 1 \in 0 .. MaxLen /\ (part.sound /\ Fits(c)) \in BOOLEAN
      BY <1>1, <2>1, FileAssumption
    <3> QED
      BY <1>1, <2>1, <3>1 DEF Files
  <2> QED
    BY <1>1, <2>2, <2>3, FileTypes
<1>5. CASE Rename(c)
  BY <1>5 DEF Rename
<1> QED
  BY <1>2, <1>3, <1>4, <1>5
     DEF FileStep, Local, Transfer, Look, EndOfBody, Closed, HeadRequest, Get, Begins, Chunk, Broken, Fails, Chmod,
         files

-----------------------------------------------------------------------------
(* The sessions. *)

\* A call has a provider from the start of its server, or from its session.
HoldsProvider(c) ==
    /\ call[c].stage \in {"idle", "init", "list"} => call[c].provider = NoServer
    /\ call[c].stage \in {"warm", "chat", "tool", "again"} => call[c].provider \in Servers

\* Handles are not given twice.
HandlesGiven ==
    /\ \A h \in Handles : contexts[h].open => h < nextHandle
    /\ \A c \in Callers : call[c].stage \in Waiting => call[c].handle < nextHandle

\* Each call that opens a session has been counted.
Starting == {c \in Callers : call[c].stage \in {"init", "warm"}}
HandlesLeft == IsFiniteSet(Starting) /\ nextHandle + Cardinality(Starting) <= made + 1

SessionInv ==
    /\ \A c \in Callers : HoldsProvider(c)
    /\ HandlesGiven
    /\ HandlesLeft
    /\ ServerLifetime
    /\ OneSession
    /\ SystemFirst

\* What a step does to a session.
Spoken(h) ==
    /\ contexts[h].open /\ contexts'[h].open
    /\ contexts'[h].provider = contexts[h].provider /\ contexts'[h].tuned = contexts[h].tuned
    /\ \E role \in Roles \ {"system"} : contexts'[h].messages = Append(contexts[h].messages, role)
Begun(h) ==
    /\ contexts[h].open /\ contexts'[h].open
    /\ contexts'[h].provider = contexts[h].provider
    /\ contexts'[h].tuned /\ contexts'[h].messages = <<"system">>
Inserted(c, h) ==
    /\ h = nextHandle /\ nextHandle' = nextHandle + 1 /\ call[c].stage = "warm"
    /\ contexts'[h].open
    /\ contexts'[h].provider = call[c].provider
    /\ ~contexts'[h].tuned /\ contexts'[h].messages = <<>>
SessionMoves(c, h) ==
    \/ contexts'[h] = contexts[h] \/ ~contexts'[h].open
    \/ Spoken(h) \/ Begun(h) \/ Inserted(c, h)

\* What a step does to the call it belongs to.
CallMoves(c) ==
    \/ call'[c] = call[c]
    \/ call[c].stage # "idle" /\ call'[c] = NoCall
    \/ /\ call[c].stage = "idle" /\ call'[c].stage \in {"init", "list"}
       /\ call'[c].provider = call[c].provider
    \/ call[c].stage = "init" /\ call'[c].stage = "warm" /\ call'[c].provider \in Servers
    \/ /\ call[c].stage = "idle" /\ call'[c].stage = "chat"
       /\ call'[c].handle \in Handles /\ contexts[call'[c].handle].open
       /\ call'[c].provider = contexts[call'[c].handle].provider
       /\ UNCHANGED contexts
    \/ /\ call[c].stage \in Waiting /\ call'[c].stage \in {"tool", "again"}
       /\ call'[c].provider = call[c].provider /\ call'[c].handle = call[c].handle

\* A step of one call, as far as sessions and calls go.
Moves(c) ==
    /\ contexts' \in [Handles -> Sessions \cup {NoSession}]
    /\ call' \in [Callers -> Calls]
    /\ \A h \in Handles : SessionMoves(c, h)
    /\ \A d \in Callers : d # c => call'[d] = call[d]
    /\ CallMoves(c)
    /\ nextHandle' = nextHandle \/ (nextHandle' = nextHandle + 1 /\ call[c].stage = "warm" /\ call'[c] = NoCall)

LEMMA SessionTypes ==
    ASSUME TypeOK
    PROVE  /\ \A h \in Handles : contexts[h].open => contexts[h] \in Sessions
           /\ NoCall \in [stage : Stages, handle : Nat, provider : {NoServer}, tools : Tools]
           /\ NoCall.stage = "idle" /\ NoCall.provider = NoServer
<1>1. NoSession.open = FALSE
  BY DEF NoSession
<1> QED
  BY <1>1 DEF TypeOK, NoCall, Stages, Tools

LEMMA NoCallType == NoCall \in Calls
BY SessionAssumption DEF NoCall, Calls, Stages, Tools, Handles

\* A message at the end of a session.
LEMMA SaidMoves ==
    ASSUME TypeOK, NEW h \in Handles, contexts[h].open, NEW role \in Roles \ {"system"}, contexts' = Said(h, role)
    PROVE  /\ contexts' \in [Handles -> Sessions \cup {NoSession}]
           /\ Spoken(h)
           /\ \A g \in Handles : g # h => contexts'[g] = contexts[g]
<1>1. contexts[h] \in Sessions
  BY SessionTypes
<1>2. Append(contexts[h].messages, role) \in Seq(Roles)
  BY <1>1, AppendProperties DEF Sessions
<1>3. /\ contexts'[h] = [contexts[h] EXCEPT !.messages = Append(@, role)]
      /\ \A g \in Handles : g # h => contexts'[g] = contexts[g]
  BY DEF Said, TypeOK
<1>4. contexts'[h] \in Sessions
  BY <1>1, <1>2, <1>3 DEF Sessions
<1>5. contexts' \in [Handles -> Sessions \cup {NoSession}]
  BY <1>4 DEF Said, TypeOK
<1> QED
  BY <1>1, <1>3, <1>5 DEF Spoken, Sessions

\* The call returns.
LEMMA ReturnMoves ==
    ASSUME TypeOK, NEW c \in Callers, call[c].stage # "idle", call' = Returned(c)
    PROVE  /\ call' \in [Callers -> Calls] /\ call'[c] = NoCall /\ CallMoves(c)
           /\ \A d \in Callers : d # c => call'[d] = call[d]
BY NoCallType DEF TypeOK, Returned, CallMoves

\* Each step of a call is one of these moves.
LEMMA OwnMoves ==
    ASSUME TypeOK, SessionInv, NEW c \in Callers, InitFails(c) \/ StartServer(c) \/ Insert(c) \/ ChatFails(c)
    PROVE  Moves(c)
<1> USE DEF sessionVars, fileVars
<1>1. contexts \in [Handles -> Sessions \cup {NoSession}] /\ call \in [Callers -> Calls]
  BY DEF TypeOK
<1>2. CASE InitFails(c)
  <2>1. call[c].stage = "init" /\ call' = Returned(c) /\ UNCHANGED <<contexts, nextHandle>>
    BY <1>2 DEF InitFails, TypeOK
  <2> QED
    BY <1>1, <2>1, ReturnMoves DEF Moves, SessionMoves
<1>3. CASE StartServer(c)
  <2>1. PICK p \in Servers : call' = [call EXCEPT ![c].stage = "warm", ![c].provider = p]
    BY <1>3 DEF StartServer
  <2>2. call[c].stage = "init" /\ UNCHANGED <<contexts, nextHandle>>
    BY <1>3 DEF StartServer, TypeOK
  <2>3. /\ call' \in [Callers -> Calls] /\ call'[c].stage = "warm" /\ call'[c].provider = p
        /\ \A d \in Callers : d # c => call'[d] = call[d]
    BY <1>1, <2>1 DEF Calls, Stages
  <2> QED
    BY <1>1, <2>2, <2>3 DEF Moves, SessionMoves, CallMoves
<1>4. CASE Insert(c)
  <2>1. /\ contexts' = [contexts EXCEPT ![nextHandle] = Opening(call[c].provider)]
        /\ call' = Returned(c) /\ nextHandle' = nextHandle + 1 /\ call[c].stage = "warm"
    BY <1>4 DEF Insert, Leaves, NewHandle
  <2>2. call[c].provider \in Servers
    BY <2>1 DEF SessionInv, HoldsProvider
  <2>3. Opening(call[c].provider) \in Sessions
    BY <2>2 DEF Opening, Sessions, Tools
  <2>4. contexts' \in [Handles -> Sessions \cup {NoSession}]
    BY <1>1, <2>1, <2>3
  <2>5. \A h \in Handles : contexts'[h] = contexts[h] \/ Inserted(c, h)
    <3>1. \A h \in Handles : contexts'[h] = IF h = nextHandle THEN Opening(call[c].provider) ELSE contexts[h]
      BY <1>1, <2>1
    <3> QED
      BY <2>1, <3>1 DEF Inserted, Opening
  <2> QED
    BY <2>1, <2>4, <2>5, ReturnMoves DEF Moves, SessionMoves
<1>5. CASE ChatFails(c)
  <2>1. call[c].stage # "idle" /\ call' = Returned(c) /\ UNCHANGED <<contexts, nextHandle>>
    BY <1>5 DEF ChatFails, Failed, Returns, Leaves
  <2> QED
    BY <1>1, <2>1, ReturnMoves DEF Moves, SessionMoves
<1> QED
  BY <1>2, <1>3, <1>4, <1>5

LEMMA AddMoves ==
    ASSUME TypeOK, NEW c \in Callers, call[c].stage \in Waiting, NEW role \in Roles \ {"system"},
           NEW stage \in {"idle", "tool", "again"}, Adds(c, role, stage), UNCHANGED nextHandle
    PROVE  Moves(c)
<1> DEFINE h == call[c].handle
<1>1. h \in Handles /\ contexts[h].open /\ contexts' = Said(h, role)
  BY DEF Adds, Leaves, TypeOK, Calls
<1>2. /\ contexts' \in [Handles -> Sessions \cup {NoSession}] /\ \A g \in Handles : SessionMoves(c, g)
  BY <1>1, SaidMoves DEF SessionMoves
<1>3. CASE stage = "idle"
  BY <1>2, <1>3, ReturnMoves DEF Adds, Leaves, Moves, Waiting
<1>4. CASE stage # "idle"
  <2>1. call' = [call EXCEPT ![c].stage = stage]
    BY <1>4 DEF Adds, Leaves
  <2>2. /\ call' \in [Callers -> Calls] /\ \A d \in Callers : d # c => call'[d] = call[d]
        /\ call'[c].stage = stage /\ call'[c].handle = call[c].handle /\ call'[c].provider = call[c].provider
    BY <2>1 DEF TypeOK, Calls, Stages
  <2> QED
    BY <1>2, <1>4, <2>2 DEF Moves, CallMoves
<1> QED
  BY <1>3, <1>4

LEMMA PeerMoves ==
    ASSUME TypeOK, NEW c \in Callers, Listed(c) \/ Chatted(c) \/ ToolCalled(c) \/ ChattedAgain(c)
    PROVE  Moves(c)
<1>1. contexts \in [Handles -> Sessions \cup {NoSession}] /\ call[c].handle \in Handles
  BY DEF TypeOK, Calls
<1>2. UNCHANGED nextHandle
  BY DEF Listed, Chatted, ToolCalled, ChattedAgain
<1>3. ASSUME Returns(c), call[c].stage # "idle" PROVE Moves(c)
  BY <1>1, <1>2, <1>3, ReturnMoves DEF Returns, Leaves, Moves, SessionMoves
<1>4. CASE Listed(c) /\ contexts[call[c].handle].open
  <2> DEFINE h == call[c].handle
  <2>1. PICK tools \in {"empty", "some", contexts[h].tools} :
          Leaves([contexts EXCEPT ![h].messages = Restarted(@), ![h].tools = tools, ![h].tuned = TRUE], Returned(c))
    BY <1>4 DEF Listed, NewTools, ToolsMaps
  <2>2. contexts[h] \in Sessions /\ call[c].stage = "list"
    BY <1>1, <1>4, SessionTypes DEF Listed, NewTools, ToolsMaps
  <2>3. tools \in Tools /\ <<"system">> \in Seq(Roles)
    <3>1. contexts[h].tools \in Tools
      BY <2>2 DEF Sessions
    <3>2. "system" \in Roles
      BY DEF Roles
    <3> HIDE DEF h
    <3>3. tools \in Tools
      BY <2>1, <3>1 DEF Tools
    <3> QED
      BY <3>2, <3>3
  <2>4. /\ contexts' \in [Handles -> Sessions \cup {NoSession}]
        /\ contexts'[h].open /\ contexts'[h].provider = contexts[h].provider
        /\ contexts'[h].tuned /\ contexts'[h].messages = <<"system">>
        /\ \A g \in Handles : g # h => contexts'[g] = contexts[g]
    BY <1>1, <2>1, <2>2, <2>3 DEF Leaves, Restarted, Sessions
  <2>5. \A g \in Handles : SessionMoves(c, g)
    BY <2>2, <2>4, <1>4 DEF SessionMoves, Begun
  <2> QED
    BY <1>2, <2>1, <2>2, <2>4, <2>5, ReturnMoves DEF Leaves, Moves
<1>5. CASE Listed(c) /\ ~contexts[call[c].handle].open
  BY <1>3, <1>5 DEF Listed, NewTools, ToolsMaps
<1>6. CASE Chatted(c) \/ ToolCalled(c) \/ ChattedAgain(c)
  <2>1. call[c].stage \in Waiting /\ call[c].stage # "idle"
    BY <1>6 DEF Chatted, ToolCalled, ChattedAgain, Waiting
  <2>2. \/ Returns(c)
        \/ \E role \in {"assistant", "tool"}, stage \in {"idle", "tool", "again"} : Adds(c, role, stage)
    BY <1>6 DEF Chatted, ToolCalled, ChattedAgain, Gone
  <2>3. {"assistant", "tool"} \subseteq Roles \ {"system"}
    BY DEF Roles
  <2> QED
    BY <1>2, <1>3, <2>1, <2>2, <2>3, AddMoves
<1> QED
  BY <1>4, <1>5, <1>6

LEMMA RequestMoves ==
    ASSUME TypeOK, SessionInv, NEW c \in Callers, Request(c)
    PROVE  Moves(c) /\ UNCHANGED nextHandle
<1> USE DEF sessionVars, fileVars
<1>1. contexts \in [Handles -> Sessions \cup {NoSession}] /\ call \in [Callers -> Calls]
  BY DEF TypeOK
<1>2. CASE SetModel(c)
  <2>1. /\ call' = [call EXCEPT ![c].stage = "init"] /\ call[c].stage = "idle"
        /\ UNCHANGED <<contexts, nextHandle>>
    BY <1>2 DEF SetModel, Idle
  <2>2. /\ call' \in [Callers -> Calls] /\ call'[c].stage = "init" /\ call'[c].provider = call[c].provider
        /\ \A d \in Callers : d # c => call'[d] = call[d]
    BY <1>1, <2>1 DEF Calls, Stages
  <2> QED
    BY <1>1, <2>1, <2>2 DEF Moves, SessionMoves, CallMoves
<1>3. ASSUME NEW h \in Handles, SetOptions(c, h) PROVE Moves(c) /\ UNCHANGED nextHandle
  <2>1. /\ call' = [call EXCEPT ![c].stage = "list", ![c].handle = h] /\ call[c].stage = "idle"
        /\ UNCHANGED <<contexts, nextHandle>>
    BY <1>3 DEF SetOptions, Idle
  <2>2. /\ call' \in [Callers -> Calls] /\ call'[c].stage = "list" /\ call'[c].provider = call[c].provider
        /\ \A d \in Callers : d # c => call'[d] = call[d]
    BY <1>1, <2>1 DEF Calls, Stages
  <2> QED
    BY <1>1, <2>1, <2>2 DEF Moves, SessionMoves, CallMoves
<1>4. ASSUME NEW h \in Handles, Prompt(c, h) PROVE Moves(c) /\ UNCHANGED nextHandle
  <2>1. contexts[h].open /\ contexts' = Said(h, "user") /\ UNCHANGED <<call, nextHandle>>
    BY <1>4 DEF Prompt
  <2>2. "user" \in Roles \ {"system"}
    BY DEF Roles
  <2>3. /\ contexts' \in [Handles -> Sessions \cup {NoSession}] /\ \A g \in Handles : SessionMoves(c, g)
    BY <2>1, <2>2, SaidMoves DEF SessionMoves
  <2> QED
    BY <1>1, <2>1, <2>3 DEF Moves, CallMoves
<1>5. ASSUME NEW h \in Handles, ReadResponse(c, h) PROVE Moves(c) /\ UNCHANGED nextHandle
  <2> DEFINE k == [stage |-> "chat", handle |-> h, provider |-> contexts[h].provider, tools |-> contexts[h].tools]
  <2>1. /\ call' = [call EXCEPT ![c] = k] /\ call[c].stage = "idle" /\ contexts[h].open
        /\ UNCHANGED <<contexts, nextHandle>>
    BY <1>5 DEF ReadResponse, Idle
  <2>2. contexts[h] \in Sessions
    BY <2>1, SessionTypes
  <2>3. k \in Calls
    BY <2>2 DEF Calls, Stages, Sessions
  <2>4. /\ call' \in [Callers -> Calls] /\ call'[c] = k
        /\ \A d \in Callers : d # c => call'[d] = call[d]
    BY <1>1, <2>1, <2>3
  <2> QED
    BY <1>1, <2>1, <2>4 DEF Moves, SessionMoves, CallMoves
<1>6. ASSUME NEW h \in Handles, Close(c, h) PROVE Moves(c) /\ UNCHANGED nextHandle
  <2>1. contexts' = [contexts EXCEPT ![h] = NoSession] /\ UNCHANGED <<call, nextHandle>>
    BY <1>6 DEF Close, Leaves
  <2>2. /\ contexts' \in [Handles -> Sessions \cup {NoSession}]
        /\ \A g \in Handles : contexts'[g] = IF g = h THEN NoSession ELSE contexts[g]
    BY <1>1, <2>1
  <2>3. NoSession.open = FALSE
    BY DEF NoSession
  <2> QED
    BY <1>1, <2>1, <2>2, <2>3 DEF Moves, SessionMoves, CallMoves
<1> QED
  BY <1>2, <1>3, <1>4, <1>5, <1>6 DEF Request

\* Handles, calls and sessions stay consistent.
LEMMA MovesKeep ==
    ASSUME TypeOK, SessionInv, NEW c \in Callers, Moves(c)
    PROVE  (\A d \in Callers : HoldsProvider(d))' /\ HandlesGiven' /\ OneSession'
<1> USE DEF Moves
<1>1. /\ nextHandle \in Nat /\ nextHandle' \in Nat /\ nextHandle <= nextHandle'
      /\ call \in [Callers -> Calls] /\ call' \in [Callers -> Calls]
  BY SessionAssumption DEF TypeOK
<1>2. \A h \in Handles : contexts[h].open => contexts[h].provider \in Servers
  BY SessionTypes DEF Sessions
<1>3. ASSUME NEW d \in Callers PROVE HoldsProvider(d)'
  <2>1. HoldsProvider(d)
    BY DEF SessionInv
  <2>2. CASE call'[d] = call[d]
    BY <2>1, <2>2 DEF HoldsProvider
  <2>3. CASE d = c
    BY <1>2, <2>1, <2>3, SessionTypes DEF CallMoves, HoldsProvider, Waiting
  <2> QED
    BY <2>2, <2>3
<1>4. ASSUME NEW h \in Handles, contexts'[h].open PROVE h < nextHandle'
  <2>1. contexts[h].open \/ Inserted(c, h)
    BY <1>4 DEF SessionMoves, Spoken, Begun
  <2>2. CASE contexts[h].open
    <3>1. h < nextHandle /\ h \in Nat
      BY <2>2 DEF SessionInv, HandlesGiven, Handles
    <3> QED
      BY <1>1, <3>1
  <2>3. CASE Inserted(c, h)
    BY <1>1, <2>3 DEF Inserted
  <2> QED
    BY <2>1, <2>2, <2>3
\* A call that waits has been given its handle before.
<1>5. ASSUME NEW d \in Callers, call'[d].stage \in Waiting
      PROVE  /\ call'[d].handle \in Handles /\ call'[d].handle < nextHandle
             /\ \/ /\ call[d].stage \in Waiting /\ call'[d].handle = call[d].handle
                   /\ call'[d].provider = call[d].provider
                \/ /\ UNCHANGED contexts /\ call'[d].provider = contexts[call'[d].handle].provider
  <2>1. call'[d].handle \in Handles
    BY <1>1 DEF Calls
  <2>2. CASE call'[d] = call[d]
    BY <1>5, <2>1, <2>2 DEF SessionInv, HandlesGiven
  <2>3. CASE d = c /\ call'[c] # call[c]
    <3>1. CASE call[c].stage \in Waiting /\ call'[c].provider = call[c].provider /\ call'[c].handle = call[c].handle
      BY <2>1, <2>3, <3>1 DEF SessionInv, HandlesGiven
    <3>2. CASE contexts[call'[c].handle].open /\ UNCHANGED contexts
               /\ call'[c].provider = contexts[call'[c].handle].provider
      BY <2>1, <2>3, <3>2 DEF SessionInv, HandlesGiven
    <3> QED
      BY <1>5, <2>3, <3>1, <3>2, SessionTypes DEF CallMoves, Waiting
  <2> QED
    BY <2>2, <2>3
<1>6. HandlesGiven'
  <2>1. \A d \in Callers : call'[d].stage \in Waiting => call'[d].handle < nextHandle'
    <3> SUFFICES ASSUME NEW d \in Callers, call'[d].stage \in Waiting PROVE call'[d].handle < nextHandle'
      OBVIOUS
    <3>1. call'[d].handle \in Nat /\ call'[d].handle < nextHandle
      BY <1>5 DEF Handles
    <3> QED
      BY <1>1, <3>1
  <2> QED
    BY <1>4, <2>1 DEF HandlesGiven
<1>7. OneSession'
  <2> SUFFICES ASSUME NEW d \in Callers, call'[d].stage \in Waiting, contexts'[call'[d].handle].open
               PROVE  contexts'[call'[d].handle].provider = call'[d].provider
    BY DEF OneSession
  <2> DEFINE h == call'[d].handle
  <2>1. h \in Handles /\ h < nextHandle
    BY <1>5
  <2>2. ~Inserted(c, h)
    BY <1>1, <2>1 DEF Inserted, Handles
  <2>3. contexts[h].open /\ contexts'[h].provider = contexts[h].provider
    BY <2>1, <2>2 DEF SessionMoves, Spoken, Begun
  <2>4. CASE UNCHANGED contexts /\ call'[d].provider = contexts[h].provider
    BY <2>4
  <2>5. CASE call[d].stage \in Waiting /\ h = call[d].handle /\ call'[d].provider = call[d].provider
    BY <2>3, <2>5 DEF SessionInv, OneSession
  <2> QED
    BY <1>5, <2>4, <2>5
<1> QED
  BY <1>3, <1>6, <1>7

\* A conversation begins with its system message.
LEMMA SystemKept ==
    ASSUME TypeOK, SystemFirst, NEW c \in Callers, Moves(c)
    PROVE  SystemFirst'
<1> SUFFICES ASSUME NEW h \in Handles, contexts'[h].open, NEW i \in DOMAIN contexts'[h].messages \cup {1}
             PROVE  (contexts'[h].tuned /\ i = 1)
                      <=> (i \in DOMAIN contexts'[h].messages /\ contexts'[h].messages[i] = "system")
  BY DEF SystemFirst
<1>1. SessionMoves(c, h)
  BY DEF Moves
<1>2. CASE contexts'[h] = contexts[h]
  BY <1>2 DEF SystemFirst
<1>3. CASE Spoken(h)
  <2> DEFINE messages == contexts[h].messages
  <2>1. contexts[h].open /\ contexts[h] \in Sessions
    BY <1>3, SessionTypes DEF Spoken
  <2>2. PICK role \in Roles \ {"system"} : contexts'[h].messages = Append(messages, role)
    BY <1>3 DEF Spoken
  <2>3. messages \in Seq(Roles) /\ Len(messages) \in Nat /\ DOMAIN messages = 1 .. Len(messages)
    <3>1. messages \in Seq(Roles)
      BY <2>1 DEF Sessions
    <3> QED
      BY <3>1, LenProperties
  <2>4. /\ contexts'[h].messages \in Seq(Roles)
        /\ DOMAIN contexts'[h].messages = 1 .. Len(messages) + 1
        /\ \A j \in 1 .. Len(messages) : contexts'[h].messages[j] = messages[j]
        /\ contexts'[h].messages[Len(messages) + 1] = role
    BY <2>2, <2>3, AppendProperties
  <2>5. \A j \in DOMAIN messages \cup {1} :
          (contexts[h].tuned /\ j = 1) <=> (j \in DOMAIN messages /\ messages[j] = "system")
    BY <2>1 DEF SystemFirst
  <2>6. contexts'[h].tuned = contexts[h].tuned
    BY <1>3 DEF Spoken
  <2> HIDE DEF messages
  <2>7. CASE i \in 1 .. Len(messages)
    BY <2>3, <2>4, <2>5, <2>6, <2>7
  <2>8. CASE i = Len(messages) + 1
    <3>1. i \notin DOMAIN messages
      BY <2>3, <2>8
    <3>2. ~(contexts[h].tuned /\ i = 1)
      BY <2>5, <3>1
    <3>3. contexts'[h].messages[i] # "system"
      BY <2>2, <2>4, <2>8
    <3> QED
      BY <2>6, <3>2, <3>3
  <2>9. i \in 1 .. Len(messages) \/ i = Len(messages) + 1
    BY <2>3, <2>4
  <2> QED
    BY <2>7, <2>8, <2>9
<1>4. CASE Begun(h)
  <2>1. contexts'[h].tuned /\ contexts'[h].messages = <<"system">>
    BY <1>4 DEF Begun
  <2>2. DOMAIN <<"system">> = {1} /\ <<"system">>[1] = "system"
    OBVIOUS
  <2> QED
    BY <2>1, <2>2
<1>5. CASE Inserted(c, h)
  <2>1. ~contexts'[h].tuned /\ DOMAIN contexts'[h].messages = {}
    BY <1>5 DEF Inserted
  <2> QED
    BY <2>1
<1> QED
  BY <1>1, <1>2, <1>3, <1>4, <1>5 DEF SessionMoves

\* No step but the start of a server gives a provider an owner.
LEMMA OwnersKept ==
    ASSUME TypeOK, SessionInv, NEW c \in Callers, Moves(c), call'[c].stage = "warm" => call'[c] = call[c],
           NEW p \in Servers, OwnedIn(contexts', call', p)
    PROVE  OwnedIn(contexts, call, p)
<1> USE DEF Moves, OwnedIn
<1>1. CASE \E h \in Handles : contexts'[h].open /\ contexts'[h].provider = p
  BY <1>1 DEF SessionMoves, Spoken, Begun, Inserted
<1>2. CASE \E d \in Callers : call'[d].provider = p
  <2>1. PICK d \in Callers : call'[d].provider = p
    BY <1>2
  <2>2. CASE call'[d] = call[d]
    BY <2>1, <2>2
  <2>3. CASE d = c /\ call'[c] # call[c]
    BY <2>1, <2>3, SessionTypes, SessionAssumption DEF CallMoves
  <2> QED
    BY <2>2, <2>3
<1> QED
  BY <1>1, <1>2

\* Steps that drop what they leave.
LEMMA LeavingKeeps ==
    ASSUME TypeOK, SessionInv, NEW c \in Callers, Moves(c), call'[c].stage = "warm" => call'[c] = call[c],
           server' = Dropped(contexts', call')
    PROVE  ServerLifetime' /\ server' \in [Servers -> BOOLEAN]
<1>1. server' \in [Servers -> BOOLEAN] /\ \A p \in Servers : server'[p] <=> server[p] /\ OwnedIn(contexts', call', p)
  BY DEF Dropped, TypeOK
<1>2. \A p \in Servers : OwnedIn(contexts', call', p) => server[p]
  BY OwnersKept DEF SessionInv, ServerLifetime
<1> QED
  BY <1>1, <1>2 DEF ServerLifetime, OwnedIn

\* Steps that drop nothing.
LEMMA HoldingKeeps ==
    ASSUME TypeOK, SessionInv, NEW c \in Callers, Moves(c), call'[c].stage = "warm" => call'[c] = call[c],
           UNCHANGED server, call[c].provider \in {NoServer, call'[c].provider},
           \A h \in Handles : contexts[h].open =>
               contexts'[h].open /\ contexts'[h].provider = contexts[h].provider
    PROVE  ServerLifetime'
<1>1. ASSUME NEW p \in Servers, OwnedIn(contexts, call, p) PROVE OwnedIn(contexts', call', p)
  <2>1. \A d \in Callers : call[d].provider = p => call'[d].provider = p
    BY SessionAssumption DEF Moves
  <2> QED
    BY <1>1, <2>1 DEF OwnedIn
<1>2. ASSUME NEW p \in Servers PROVE server'[p] <=> OwnedIn(contexts', call', p)
  BY <1>1, OwnersKept DEF SessionInv, ServerLifetime
<1> QED
  BY <1>2 DEF ServerLifetime, OwnedIn

\* Calls that open a session, and the handles that are left for them.
LEMMA CountKept ==
    ASSUME TypeOK, HandlesLeft, NEW c \in Callers, Moves(c), made' \in {made, made + 1},
           \/ /\ UNCHANGED nextHandle
              /\ call'[c].stage \in {"init", "warm"} =>
                    call[c].stage \in {"init", "warm"} \/ made' = made + 1
           \/ /\ nextHandle' = nextHandle + 1
              /\ call[c].stage \in {"init", "warm"} /\ call'[c].stage \notin {"init", "warm"}
    PROVE  HandlesLeft'
<1> DEFINE n == Cardinality(Starting)
<1>1. IsFiniteSet(Starting) /\ n \in Nat /\ nextHandle + n <= made + 1
  BY FS_CardinalityType DEF HandlesLeft
<1>2. nextHandle \in Nat /\ made \in Nat
  BY SessionAssumption DEF TypeOK
<1>3. \A d \in Callers : d # c => call'[d] = call[d]
  BY DEF Moves
<1>4. CASE (call'[c].stage \in {"init", "warm"}) <=> (call[c].stage \in {"init", "warm"})
  <2>1. Starting' = Starting
    BY <1>3, <1>4 DEF Starting
  <2>2. UNCHANGED nextHandle
    BY <1>4
  <2> QED
    BY <1>1, <1>2, <2>1, <2>2 DEF HandlesLeft
<1>5. CASE call'[c].stage \in {"init", "warm"} /\ call[c].stage \notin {"init", "warm"}
  <2>1. Starting' = Starting \cup {c} /\ c \notin Starting
    BY <1>3, <1>5 DEF Starting
  <2>2. IsFiniteSet(Starting') /\ Cardinality(Starting') = n + 1
    BY <1>1, <2>1, FS_AddElement
  <2>3. UNCHANGED nextHandle /\ made' = made + 1
    BY <1>5
  <2> QED
    BY <1>1, <1>2, <2>2, <2>3 DEF HandlesLeft
<1>6. CASE call'[c].stage \notin {"init", "warm"} /\ call[c].stage \in {"init", "warm"}
  <2>1. Starting' = Starting \ {c} /\ c \in Starting
    BY <1>3, <1>6 DEF Starting
  <2>2. IsFiniteSet(Starting') /\ Cardinality(Starting') = n - 1
    BY <1>1, <2>1, FS_RemoveElement
  <2>3. nextHandle' \in {nextHandle, nextHandle + 1}
    OBVIOUS
  <2> QED
    BY <1>1, <1>2, <2>2, <2>3 DEF HandlesLeft
<1> QED
  BY <1>4, <1>5, <1>6

\* What remains to be shown of a step of one call.
LEMMA StepKeeps ==
    ASSUME TypeOK, FileInv, SessionInv, NEW c \in Callers, Moves(c),
           FileTypeOK', FileInv', HandlesLeft', ServerLifetime', server' \in [Servers -> BOOLEAN],
           made' \in 0 .. MaxCalls, UNCHANGED crashes,
           \A d \in Callers : d # c => job'[d] = job[d],
           call'[c].stage # "init" <=> job'[c].stage = "none"
    PROVE  TypeOK' /\ FileInv' /\ SessionInv'
<1>1. SessionInv'
  BY MovesKeep, SystemKept DEF SessionInv
<1>2. nextHandle' \in 1 .. MaxCalls + 1
  <2>1. Cardinality(Starting') \in Nat /\ nextHandle' + Cardinality(Starting') <= made' + 1
    BY FS_CardinalityType DEF HandlesLeft
  <2>2. nextHandle' \in {nextHandle, nextHandle + 1} /\ nextHandle \in 1 .. MaxCalls + 1
    BY DEF Moves, TypeOK
  <2> QED
    BY <2>1, <2>2, SessionAssumption
<1>3. \A d \in Callers : call'[d].stage # "init" <=> job'[d].stage = "none"
  BY DEF TypeOK, Moves
<1> QED
  BY <1>1, <1>2, <1>3 DEF TypeOK, Moves

\* A call that is not about to start a server.
LEMMA OtherStages ==
    ASSUME TypeOK, NEW c \in Callers, Moves(c), call[c].stage # "init"
    PROVE  /\ call'[c].stage = "warm" => call'[c] = call[c]
           /\ call[c].stage # "idle" => call'[c].stage # "init"
           /\ call[c].stage \notin {"idle", "warm"} => call'[c].stage \notin {"init", "warm"}
BY SessionTypes DEF Moves, CallMoves, Waiting

LEMMA FilesAlone ==
    ASSUME FileTypeOK, FileInv, UNCHANGED fileVars
    PROVE  FileTypeOK' /\ FileInv' /\ UNCHANGED job
BY DEF fileVars, files, FileTypeOK, FileInv, OneDownload, Progress, PartSound, CompleteModel

LEMMA OwnKeeps ==
    ASSUME TypeOK, FileInv, SessionInv, NEW c \in Callers,
           InitFails(c) \/ StartServer(c) \/ Insert(c) \/ ChatFails(c)
    PROVE  TypeOK' /\ FileInv' /\ SessionInv'
<1>1. Moves(c) /\ FileTypeOK /\ HandlesLeft /\ made \in 0 .. MaxCalls /\ job \in [Callers -> Jobs]
  BY OwnMoves DEF TypeOK, SessionInv, FileTypeOK
<1>2. NoJob \in Jobs /\ NoJob.stage = "none"
  BY FileAssumption DEF NoJob, Jobs, JobStages
<1>3. CASE InitFails(c)
  <2>1. /\ call[c].stage = "init" /\ call' = Returned(c) /\ job' = [job EXCEPT ![c] = NoJob]
        /\ UNCHANGED <<files, contexts, nextHandle, server, made, crashes>>
    BY <1>3 DEF InitFails, TypeOK, sessionVars
  <2>2. call'[c] = NoCall /\ NoCall.stage = "idle" /\ NoCall.provider = NoServer
    BY <2>1, SessionTypes, ReturnMoves
  <2>3. /\ job' \in [Callers -> Jobs] /\ job'[c].stage = "none"
        /\ \A d \in Callers : d # c => job'[d] = job[d]
    BY <1>1, <1>2, <2>1
  <2>4. FileTypeOK' /\ FileInv'
    BY <1>1, <2>1, <2>3, JobInv DEF Resting
  <2>5. HandlesLeft'
    BY <1>1, <2>1, <2>2, CountKept
  <2>6. call[c].provider = NoServer
    BY <2>1 DEF SessionInv, HoldsProvider
  <2>7. ServerLifetime'
    BY <1>1, <2>1, <2>2, <2>6, HoldingKeeps
  <2>8. server' \in [Servers -> BOOLEAN]
    BY <2>1 DEF TypeOK
  <2> QED
    BY <1>1, <2>1, <2>2, <2>3, <2>4, <2>5, <2>7, <2>8, StepKeeps
<1>4. CASE StartServer(c)
  <2>1. PICK p \in Servers :
          /\ server' = [server EXCEPT ![p] = TRUE]
          /\ call' = [call EXCEPT ![c].stage = "warm", ![c].provider = p]
    BY <1>4 DEF StartServer
  <2>2. /\ call[c].stage = "init" /\ job' = [job EXCEPT ![c] = NoJob]
        /\ UNCHANGED <<files, contexts, nextHandle, made, crashes>>
    BY <1>4 DEF StartServer, TypeOK
  <2>3. /\ job' \in [Callers -> Jobs] /\ job'[c].stage = "none"
        /\ \A d \in Callers : d # c => job'[d] = job[d]
    BY <1>1, <1>2, <2>2
  <2>4. FileTypeOK' /\ FileInv'
    BY <1>1, <2>2, <2>3, JobInv DEF Resting
  <2>5. /\ call'[c].stage = "warm" /\ call'[c].provider = p
        /\ \A d \in Callers : d # c => call'[d] = call[d]
    BY <2>1 DEF TypeOK, Calls
  <2>6. HandlesLeft'
    BY <1>1, <2>2, <2>5, CountKept
  <2>7. call[c].provider = NoServer
    BY <2>2 DEF SessionInv, HoldsProvider
  <2>8. /\ server' \in [Servers -> BOOLEAN]
        /\ \A q \in Servers : server'[q] <=> (q = p \/ server[q])
    BY <2>1 DEF TypeOK
  <2>9. \A q \in Servers : OwnedIn(contexts', call', q) <=> (q = p \/ OwnedIn(contexts, call, q))
    BY <2>2, <2>5, <2>7, SessionAssumption DEF OwnedIn
  <2>10. ServerLifetime'
    BY <2>8, <2>9 DEF SessionInv, ServerLifetime, OwnedIn
  <2> QED
    BY <1>1, <2>2, <2>3, <2>4, <2>5, <2>6, <2>8, <2>10, StepKeeps
<1>5. CASE Insert(c) \/ ChatFails(c)
  <2>1. /\ call[c].stage \notin {"init", "idle"} /\ call'[c].stage = "idle"
        /\ server' = Dropped(contexts', call') /\ UNCHANGED <<fileVars, made, crashes>>
        /\ UNCHANGED nextHandle \/ (nextHandle' = nextHandle + 1 /\ call[c].stage = "warm")
    <3>1. /\ call[c].stage \notin {"init", "idle"} /\ call' = Returned(c)
          /\ server' = Dropped(contexts', call') /\ UNCHANGED <<fileVars, made, crashes>>
          /\ UNCHANGED nextHandle \/ (nextHandle' = nextHandle + 1 /\ call[c].stage = "warm")
      BY <1>5 DEF Insert, ChatFails, Failed, Returns, Leaves
    <3> QED
      BY <3>1, SessionTypes, ReturnMoves
  <2>2. FileTypeOK' /\ FileInv' /\ UNCHANGED job
    BY <1>1, <2>1, FilesAlone
  <2>3. HandlesLeft'
    BY <1>1, <2>1, CountKept
  <2>4. ServerLifetime' /\ server' \in [Servers -> BOOLEAN]
    BY <1>1, <2>1, LeavingKeeps
  <2>5. call'[c].stage # "init" <=> job'[c].stage = "none"
    BY <2>1, <2>2 DEF TypeOK
  <2> QED
    BY <1>1, <2>1, <2>2, <2>3, <2>4, <2>5, StepKeeps
<1> QED
  BY <1>3, <1>4, <1>5

LEMMA PeerKeeps ==
    ASSUME TypeOK, FileInv, SessionInv, NEW c \in Callers,
           Listed(c) \/ Chatted(c) \/ ToolCalled(c) \/ ChattedAgain(c)
    PROVE  TypeOK' /\ FileInv' /\ SessionInv'
<1>1. Moves(c) /\ FileTypeOK /\ HandlesLeft /\ made \in 0 .. MaxCalls
  BY PeerMoves DEF TypeOK, SessionInv
<1>2. /\ call[c].stage \notin {"init", "idle", "warm"} /\ server' = Dropped(contexts', call')
      /\ UNCHANGED <<fileVars, nextHandle, made, crashes>>
  BY DEF Listed, Chatted, ToolCalled, ChattedAgain, Gone, Adds, Returns, Leaves
<1>3. /\ call'[c].stage = "warm" => call'[c] = call[c]
      /\ call'[c].stage \notin {"init", "warm"}
  BY <1>1, <1>2, OtherStages
<1>4. FileTypeOK' /\ FileInv' /\ UNCHANGED job
  BY <1>1, <1>2, FilesAlone
<1>5. HandlesLeft'
  BY <1>1, <1>2, <1>3, CountKept
<1>6. ServerLifetime' /\ server' \in [Servers -> BOOLEAN]
  BY <1>1, <1>2, <1>3, LeavingKeeps
<1>7. call'[c].stage # "init" <=> job'[c].stage = "none"
  BY <1>2, <1>3, <1>4 DEF TypeOK
<1> QED
  BY <1>1, <1>2, <1>4, <1>5, <1>6, <1>7, StepKeeps

LEMMA RequestKeeps ==
    ASSUME TypeOK, FileInv, SessionInv, NEW c \in Callers, Request(c)
    PROVE  TypeOK' /\ FileInv' /\ SessionInv'
<1>1. /\ Moves(c) /\ UNCHANGED nextHandle
      /\ FileTypeOK /\ HandlesLeft /\ made \in 0 .. MaxCalls /\ job \in [Callers -> Jobs]
  BY RequestMoves DEF TypeOK, SessionInv, FileTypeOK
<1>2. /\ call[c].stage = "idle" /\ made' = made + 1 /\ made' \in 0 .. MaxCalls /\ UNCHANGED crashes
  <2>1. ASSUME NEW h \in Handles, SetOptions(c, h) \/ Prompt(c, h) \/ ReadResponse(c, h) \/ Close(c, h)
        PROVE  Idle(c) /\ Counts /\ UNCHANGED crashes
    BY <2>1 DEF SetOptions, Prompt, ReadResponse, Close
  <2>2. Idle(c) /\ Counts /\ UNCHANGED crashes
    BY <2>1 DEF Request, SetModel
  <2> QED
    BY <1>1, <2>2, SessionAssumption DEF Idle, Counts
<1>3. call[c].provider = NoServer /\ (call'[c].stage = "warm" => call'[c] = call[c])
  BY <1>1, <1>2, OtherStages DEF SessionInv, HoldsProvider
<1>4. HandlesLeft'
  BY <1>1, <1>2, CountKept
<1>5. CASE SetModel(c)
  <2>1. /\ job' = [job EXCEPT ![c].stage = "look"] /\ call' = [call EXCEPT ![c].stage = "init"]
        /\ UNCHANGED <<files, contexts, server>>
    BY <1>5 DEF SetModel, sessionVars
  <2>2. /\ job' \in [Callers -> Jobs] /\ job'[c].stage = "look"
        /\ \A d \in Callers : d # c => job'[d] = job[d]
    BY <1>1, <2>1 DEF Jobs, JobStages
  <2>3. call'[c].stage = "init"
    BY <2>1 DEF TypeOK, Calls
  <2>4. FileTypeOK' /\ FileInv'
    BY <1>1, <2>1, <2>2, JobInv DEF Resting
  <2>5. ServerLifetime' /\ server' \in [Servers -> BOOLEAN]
    BY <1>1, <1>3, <2>1, HoldingKeeps DEF TypeOK
  <2> QED
    BY <1>1, <1>2, <1>4, <2>2, <2>3, <2>4, <2>5, StepKeeps
<1>6. ASSUME NEW h \in Handles, SetOptions(c, h) \/ Prompt(c, h) \/ ReadResponse(c, h) \/ Close(c, h)
      PROVE  TypeOK' /\ FileInv' /\ SessionInv'
  <2>1. UNCHANGED fileVars
    BY <1>6 DEF SetOptions, Prompt, ReadResponse, Close
  <2>2. FileTypeOK' /\ FileInv' /\ UNCHANGED job
    BY <1>1, <2>1, FilesAlone
  <2>3. call'[c].stage # "init"
    BY <1>2, <1>6 DEF SetOptions, Prompt, ReadResponse, Close, Leaves, TypeOK, Calls
  <2>4. call'[c].stage # "init" <=> job'[c].stage = "none"
    BY <1>2, <2>2, <2>3 DEF TypeOK
  <2>5. ServerLifetime' /\ server' \in [Servers -> BOOLEAN]
    <3>1. CASE Close(c, h)
      BY <1>1, <1>3, <3>1, LeavingKeeps DEF Close, Leaves
    <3>2. CASE SetOptions(c, h) \/ ReadResponse(c, h)
      BY <1>1, <1>3, <3>2, HoldingKeeps DEF SetOptions, ReadResponse, sessionVars, TypeOK
    <3>3. CASE Prompt(c, h)
      <4>1. contexts[h].open /\ contexts' = Said(h, "user") /\ UNCHANGED server /\ "user" \in Roles \ {"system"}
        BY <3>3 DEF Prompt, Roles
      <4>2. \A g \in Handles : contexts[g].open => contexts'[g].open /\ contexts'[g].provider = contexts[g].provider
        BY <4>1, SaidMoves DEF Spoken
      <4> QED
        BY <1>1, <1>3, <4>1, <4>2, HoldingKeeps DEF TypeOK
    <3> QED
      BY <1>6, <3>1, <3>2, <3>3
  <2> QED
    BY <1>1, <1>2, <1>4, <2>2, <2>4, <2>5, StepKeeps
<1> QED
  BY <1>5, <1>6 DEF Request

\* A step of a download.
LEMMA DownloadKeeps ==
    ASSUME TypeOK, FileInv, SessionInv, NEW c \in Callers, FileStep(c),
           UNCHANGED <<sessionVars, call, made, crashes>>
    PROVE  TypeOK' /\ FileInv' /\ SessionInv'
<1>1. FileTypeOK /\ FileTypeOK' /\ FileInv'
  BY FileStepTypes, FileStepInv DEF TypeOK
<1>2. \A d \in Callers : call'[d].stage # "init" <=> job'[d].stage = "none"
  BY <1>1, OneJob DEF TypeOK
<1>3. TypeOK'
  BY <1>1, <1>2 DEF TypeOK, sessionVars
<1>4. SessionInv'
  BY DEF sessionVars, SessionInv, HoldsProvider, HandlesGiven, HandlesLeft, Starting, ServerLifetime, OwnedIn,
         OneSession, SystemFirst
<1> QED
  BY <1>1, <1>3, <1>4

\* The process ends, and another one has no session and no call.
LEMMA CrashKeeps ==
    ASSUME TypeOK, FileInv, Crash
    PROVE  TypeOK' /\ FileInv' /\ SessionInv'
<1>1. FileTypeOK' /\ FileInv' /\ \A c \in Callers : job'[c].stage = "none"
  <2>1. NoJob.stage = "none"
    BY DEF NoJob
  <2> QED
    BY <2>1, FileCrashInv DEF TypeOK, Crash, FileCrash
<1>2. /\ \A h \in Handles : contexts'[h] = NoSession /\ ~contexts'[h].open
      /\ \A c \in Callers : call'[c].stage = "idle" /\ call'[c].provider = NoServer
      /\ \A p \in Servers : ~server'[p]
      /\ nextHandle' = 1 /\ made' = made
  BY SessionTypes DEF Crash, NoSession
<1>3. TypeOK'
  BY <1>1, <1>2, NoCallType, SessionAssumption DEF TypeOK, Crash
<1>4. HandlesLeft'
  <2>1. Starting' = {}
    BY <1>2 DEF Starting
  <2>2. IsFiniteSet({}) /\ Cardinality({}) = 0
    BY FS_EmptySet
  <2>3. made \in Nat
    BY SessionAssumption DEF TypeOK
  <2> QED
    BY <1>2, <2>1, <2>2, <2>3 DEF HandlesLeft
<1>5. ServerLifetime'
  BY <1>2, SessionAssumption DEF ServerLifetime, OwnedIn
<1> QED
  BY <1>1, <1>2, <1>3, <1>4, <1>5 DEF SessionInv, HoldsProvider, HandlesGiven, OneSession, SystemFirst, Waiting

LEMMA SessionInit == Init => TypeOK /\ FileInv /\ SessionInv
<1> SUFFICES ASSUME Init PROVE TypeOK /\ FileInv /\ SessionInv
  OBVIOUS
<1>1. NoJob \in Jobs /\ NoJob.stage = "none"
  BY FileAssumption DEF NoJob, Jobs, JobStages
<1>2. NoCall.stage = "idle" /\ NoCall.provider = NoServer /\ NoSession.open = FALSE
  BY DEF NoCall, NoSession
<1>3. TypeOK
  <2>1. misled = FALSE
    BY DEF Init, FileInit
  <2>2. misled \in BOOLEAN
    BY <2>1, Zenon
  <2> QED
    BY <1>1, <1>2, <2>2, NoCallType, SessionAssumption DEF Init, FileInit, TypeOK, FileTypeOK
<1>4. FileInv
  BY <1>1 DEF Init, FileInit, FileInv, OneDownload, Progress, PartSound, CompleteModel, Resting
<1>5. HandlesLeft
  <2>1. Starting = {}
    BY <1>2 DEF Init, Starting
  <2>2. nextHandle = 1 /\ made = 0
    BY DEF Init
  <2> QED
    BY <2>1, <2>2, FS_EmptySet DEF HandlesLeft
<1>6. ServerLifetime
  BY <1>2, SessionAssumption DEF Init, ServerLifetime, OwnedIn
<1> QED
  BY <1>2, <1>3, <1>4, <1>5, <1>6
     DEF Init, SessionInv, HoldsProvider, HandlesGiven, OneSession, SystemFirst, Waiting

\* Sessions, servers and files, whatever calls overlap and however often the
\* process ends.
LEMMA SessionInvariant == Spec => [](TypeOK /\ FileInv /\ SessionInv)
<1>1. TypeOK /\ FileInv /\ SessionInv /\ [Next]_vars => TypeOK' /\ FileInv' /\ SessionInv'
  <2> SUFFICES ASSUME TypeOK, FileInv, SessionInv, [Next]_vars PROVE TypeOK' /\ FileInv' /\ SessionInv'
    OBVIOUS
  <2>1. CASE UNCHANGED vars
    BY <2>1 DEF vars, fileVars, files, sessionVars, TypeOK, FileTypeOK, FileInv, OneDownload, Progress, PartSound,
              CompleteModel, SessionInv, HoldsProvider, HandlesGiven, HandlesLeft, Starting, ServerLifetime,
              OwnedIn, OneSession, SystemFirst
  <2>2. ASSUME NEW c \in Callers, OwnStep(c) \/ PeerStep(c) \/ Request(c)
        PROVE  TypeOK' /\ FileInv' /\ SessionInv'
    BY <2>2, DownloadKeeps, OwnKeeps, PeerKeeps, RequestKeeps DEF OwnStep, PeerStep, FileStep
  <2> QED
    BY <2>1, <2>2, CrashKeeps DEF Next
<1> QED
  BY <1>1, SessionInit, PTL DEF Spec

\* The variables keep their types, for any number of callers, providers and chunks.
THEOREM TypeCorrect == Spec => []TypeOK
BY SessionInvariant, PTL

\* A server runs exactly while a session or a call has its provider.
THEOREM ServersOwned == Spec => []ServerLifetime
<1>1. SessionInv => ServerLifetime
  BY DEF SessionInv
<1> QED
  BY <1>1, SessionInvariant, PTL

\* A call that waits never finds another session under its handle.
THEOREM SessionStays == Spec => []OneSession
<1>1. SessionInv => OneSession
  BY DEF SessionInv
<1> QED
  BY <1>1, SessionInvariant, PTL

\* Conversations keep their system message first and only there.
THEOREM SystemMessages == Spec => []SystemFirst
<1>1. SessionInv => SystemFirst
  BY DEF SessionInv
<1> QED
  BY <1>1, SessionInvariant, PTL

\* For any size and any failures and crashes, a file at model_path is the whole
\* model unless a peer misled the download with a wrong size or an answer that
\* ended early without an error.
THEOREM ModelsComplete == Spec => []CompleteModel
<1>1. FileInv => CompleteModel
  BY DEF FileInv
<1> QED
  BY <1>1, SessionInvariant, PTL

\* What was downloaded is kept until it is the model.
THEOREM PartsKept == Spec => PartKept
<1> DEFINE Kept == part # NoFile =>
                      \/ part' # NoFile /\ part'.len >= part.len
                      \/ part' = NoFile /\ model' = part
<1>1. TypeOK /\ FileInv /\ [Next]_vars => [Kept]_<<part, model>>
  <2> SUFFICES ASSUME TypeOK, FileInv, [Next]_vars PROVE [Kept]_<<part, model>>
    OBVIOUS
  <2>1. ASSUME NEW c \in Callers, FileStep(c) PROVE Kept
    BY <2>1, PartStep DEF TypeOK
  <2>2. ASSUME \/ UNCHANGED vars \/ Crash
               \/ \E c \in Callers : \/ InitFails(c) \/ StartServer(c) \/ Insert(c) \/ ChatFails(c) \/ Listed(c)
                                     \/ Chatted(c) \/ ToolCalled(c) \/ ChattedAgain(c) \/ Request(c)
        PROVE  UNCHANGED <<part, model>>
    BY <2>2 DEF vars, fileVars, files, Crash, FileCrash, InitFails, StartServer, Insert, ChatFails, Listed, Chatted,
              ToolCalled, ChattedAgain, Request, SetModel, SetOptions, Prompt, ReadResponse, Close
  <2> HIDE DEF Kept
  <2> QED
    BY <2>1, <2>2 DEF Next, OwnStep, PeerStep, FileStep
<1>2. PartKept <=> [][Kept]_<<part, model>>
  BY DEF PartKept
<1> QED
  BY <1>1, <1>2, SessionInvariant, PTL DEF Spec

=============================================================================

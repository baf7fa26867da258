\* Two threads, two permissions of two items, three checks or reads, two lines.
CONSTANTS
    Nobody = Nobody
    Reader = Reader
    t1 = t1
    t2 = t2
    p = p
    q = q
    Threads = {t1, t2}
    Kinds = {"read", "write"}
    Items = {p, q}
    Configs <- MCConfigs
    Texts <- MCTexts
    MaxCalls = 3
    MaxLines = 2
SPECIFICATION Spec
INVARIANTS
    TypeOK
    QuestionStands
    AnswerFresh
    AllowedTruth
PROPERTIES
    HangUpEnds
\* The calls are used up, or the process has ended.
CHECK_DEADLOCK FALSE

\* Two guests with the ipfs and the s3 driver; five calls are a command, two
\* writes and two reads.
CONSTANTS
    c1 = c1
    c2 = c2
    Callers = {c1, c2}
    MaxCalls = 5
    Length = 2
    Sizes = {1, 3}
SPECIFICATION AnswersSpec
SYMMETRY Alike
INVARIANTS
    BytesInOrder
    OkOnce
\* The calls are used up.
CHECK_DEADLOCK FALSE

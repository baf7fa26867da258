---------------------------- MODULE Descriptors ----------------------------
(***************************************************************************)
(* What WASI promises a guest of its descriptors: fd_close, fd_renumber    *)
(* and the calls that open something take effect at once, on what the      *)
(* table holds when they answer.                                           *)
(***************************************************************************)
EXTENDS Naturals

CONSTANTS
    Threads,    \* guest threads
    Fds,        \* descriptors
    Res,        \* resources
    NoRes       \* no resource

VARIABLES
    map,        \* descriptor -> resource
    answer      \* answer[t]: what the last of these calls of t returned

vars == <<map, answer>>

NoAnswer == [op |-> "none", fd |-> 0, result |-> "Ok"]

Init ==
    /\ map \in [Fds -> Res \cup {NoRes}]
    /\ answer = [t \in Threads |-> NoAnswer]

Answers(t, op, fd, result) ==
    answer' = [answer EXCEPT ![t] = [op |-> op, fd |-> fd, result |-> result]]

\* Before the guest runs, the command line puts a resource at a descriptor.
Grant ==
    /\ answer = [t \in Threads |-> NoAnswer]
    /\ \E fd \in Fds, x \in Res : map' = [map EXCEPT ![fd] = x]
    /\ UNCHANGED answer

Close(t) ==
    \E fd \in Fds :
       /\ Answers(t, "close", fd, IF map[fd] = NoRes THEN "Badf" ELSE "Ok")
       /\ map' = [map EXCEPT ![fd] = NoRes]

Renumber(t) ==
    \E from, to \in Fds :
       \/ /\ map[from] = NoRes
          /\ Answers(t, "renumber", from, "Badf")
          /\ UNCHANGED map
       \/ /\ map[from] # NoRes
          /\ Answers(t, "renumber", from, "Ok")
          /\ map' = [fd \in Fds |-> IF fd = to THEN map[from] ELSE IF fd = from THEN NoRes ELSE map[fd]]

Open(t) ==
    \/ \E fd \in Fds, x \in Res :
          /\ map[fd] = NoRes /\ \A g \in Fds : map[g] # x
          /\ map' = [map EXCEPT ![fd] = x]
          /\ Answers(t, "open", fd, "Ok")
    \/ Answers(t, "open", 0, "Fail") /\ UNCHANGED map

Next == Grant \/ \E t \in Threads : Close(t) \/ Renumber(t) \/ Open(t)

Spec == Init /\ [][Next]_vars

=============================================================================

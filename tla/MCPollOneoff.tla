---------------------------- MODULE MCPollOneoff ----------------------------
(* Values for PollOneoff: stdin and a pipe that is not regular, one file that  *)
(* cannot be polled, and every kind of request.                                *)
EXTENDS PollOneoff, TLC

CONSTANTS t1, t2, stdin, pipe, memory

Rel(timeout) == [u |-> "clock", id |-> "monotonic", abs |-> FALSE, timeout |-> timeout]
Abs(timeout) == [u |-> "clock", id |-> "monotonic", abs |-> TRUE, timeout |-> timeout]
Real(abs) == [u |-> "clock", id |-> "realtime", abs |-> abs, timeout |-> 1]
Other == [u |-> "clock", id |-> "other", abs |-> TRUE, timeout |-> 1]
Read(f) == [u |-> "read", file |-> f]
Write(f) == [u |-> "write", file |-> f]

MCConds == [f \in Files |-> CASE f = Stdin -> {"IN"}
                               [] f = pipe -> {"HUP"}
                               [] OTHER -> {}]

MCRequests ==
    t1 :> {{}, {Real(FALSE)}, {Real(TRUE), Other}, {Read(NoFile)}, {Read(memory)},
           {Rel(1), Rel(2)}, {Rel(2), Read(pipe)}, {Abs(1), Read(Stdin)},
           {Rel(1), Write(Stdin)}, {Rel(1), Read(Stdin)}, {Read(Stdin), Write(pipe)}}
    @@ t2 :> {{Read(Stdin)}}

=============================================================================

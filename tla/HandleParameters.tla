-------------------------- MODULE HandleParameters --------------------------
(* The constants of every driver that gives its guests handles.             *)
EXTENDS Naturals

CONSTANTS
    Callers,    \* guests that call the drivers
    MaxCalls,   \* bound: calls in all
    Length,     \* bytes of the body of a response; the longest answer
    Sizes       \* lengths of the buffers guests pass for a body

ASSUME HandleAssumption ==
    Length \in Nat /\ Sizes \subseteq Nat /\ MaxCalls \in Nat

=============================================================================

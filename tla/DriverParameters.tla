-------------------------- MODULE DriverParameters --------------------------
(* The constants of HttpDriver, CgiDriver and their composition Drivers.    *)
EXTENDS HandleParameters

CONSTANTS
    Nobody,        \* the holder of a free lock
    Files,         \* names in the root directory of the extensions
    Contents,      \* what a file may contain
    NoContent,     \* the content of a file that is not there
    Answer,        \* content -> what it says to --ext_verify
    Aliases,       \* the aliases that extensions claim
    NotCgi, Bad,   \* the answers "no extension", and none that can be parsed
    Reads,         \* lengths of the buffers for a listing
    MaxEvents      \* bound: changes of files and restarts

ASSUME CgiAssumption ==
    /\ Answer \in [Contents -> Aliases \cup {NotCgi, Bad}]
    /\ NoContent \notin Contents
    /\ NotCgi \notin Aliases /\ Bad \notin Aliases
    /\ Nobody \notin Callers
    /\ Reads \subseteq Nat
    /\ MaxCalls \in Nat /\ MaxEvents \in Nat

=============================================================================

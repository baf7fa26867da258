------------------------- MODULE MCAnswerDrivers -------------------------
(* Values of the constants of AnswerDrivers for model checking. *)
EXTENDS AnswerDrivers, TLC

CONSTANTS c1, c2

Alike == Permutations(Callers)

=============================================================================

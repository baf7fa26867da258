---------------------------- MODULE MCDrivers ----------------------------
(* Values of the constants of Drivers for model checking. *)
EXTENDS Drivers, TLC

CONSTANTS c1, c2, f, g, x, y, o, b

MCAnswer == (x :> "x") @@ (y :> "y") @@ (o :> NotCgi) @@ (b :> Bad)
Symmetry == Permutations({c1, c2}) \cup Permutations({f, g})

=============================================================================

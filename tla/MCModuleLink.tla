--------------------------- MODULE MCModuleLink ---------------------------
(* Values of the constants of ModuleLink for model checking. *)
EXTENDS ModuleLink, TLC

CONSTANTS r1, r2, a, b

\* Two runs: one with two libraries, one with one of the two.
TwoPlan == (r1 :> <<a, b>>) @@ (r2 :> <<b>>)

MCMethods == {"m", "x"}
MCRequests == {<<"m", "x">>}
MCWanted == {<<a, "m">>}

Complete == {"memory", "alloc", "dealloc", "m"}
NoDealloc == {"memory", "alloc", "m", "x"}
NoMemory == {"alloc", "dealloc", "m"}
TwoShapes == (a :> {Complete, NoDealloc}) @@ (b :> {Complete, NoMemory})

=============================================================================

----------------------------- MODULE MCFdTable -----------------------------
(* Values of the constants of FdTable for model checking. *)
EXTENDS FdTable, TLC

CONSTANTS u, in, out, err, d, f, g, l1

MCStdio == <<in, out, err>>
OneDir == <<d>>
NoListens == <<>>

\* --tcplisten A::5, B: the first has a number of its own.
Apart == <<[res |-> l1, fd |-> 5]>>

MCKind == [x \in Res |-> IF x \in {d, g} THEN "dir" ELSE "file"]

=============================================================================

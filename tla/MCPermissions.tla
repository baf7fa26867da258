--------------------------- MODULE MCPermissions ---------------------------
(* Values of the constants of Permissions for model checking. *)
EXTENDS Permissions

CONSTANTS p, q, t1, t2

None == [all |-> FALSE, list |-> {}]
Every == [all |-> TRUE, list |-> {}]
Only(x) == [all |-> FALSE, list |-> {x}]

Config(all, read, write, denyRead, denyWrite) ==
    [allowAll |-> all, allow |-> [k \in Kinds |-> IF k = "read" THEN read ELSE write],
     deny |-> [k \in Kinds |-> IF k = "read" THEN denyRead ELSE denyWrite]]

\* No option at all; lists of both kinds; everything but; and --allow-all.
MCConfigs ==
    {Config(FALSE, None, None, None, None),
     Config(FALSE, Only(p), None, Only(q), Every),
     Config(TRUE, None, None, Only(p), Every)}

\* An answer of each kind, and a line that is none.
MCTexts == {<<"y", "nl">>, <<"A", "nl">>, <<"x", "y", "nl">>}

=============================================================================

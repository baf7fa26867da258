------------------------------ MODULE MCFiles ------------------------------
(* Values of the constants of Files for model checking. *)
EXTENDS Files, TLC

CONSTANTS a, b, x1, x2

\* A name of each length; the Dirent is as long as the longest.
MCNameLen == (a :> 1) @@ (b :> 2) @@ ("." :> 1) @@ (".." :> 2)

Request(o, f, r) == [o |-> o, f |-> f, r |-> r]

\* Plain opens, new files, and the combinations that are refused at each place.
MCRequests ==
    {Request({}, {}, {"READ"}), Request({"CREATE"}, {}, {"READ"}),
     Request({"CREATE", "EXCLUSIVE"}, {}, {"READ", "WRITE"}),
     Request({"TRUNCATE"}, {"NONBLOCK"}, {"WRITE"}), Request({"TRUNCATE"}, {}, {"READ"}),
     Request({}, {"APPEND"}, {"WRITE"}), Request({"DIRECTORY"}, {}, {"READ"}),
     Request({"DIRECTORY", "TRUNCATE"}, {}, {"WRITE"}), Request({"CREATE"}, {"SYNC"}, {"WRITE"})}

\* Files are told apart by their names only.
Alike == Permutations(Nodes)

=============================================================================

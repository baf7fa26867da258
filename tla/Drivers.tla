------------------------------ MODULE Drivers ------------------------------
(* The drivers that keep handles for guests, side by side in one process:   *)
(* the http driver as it stands, the cgi driver with variables of its own.  *)
(* A guest is in one host call at a time, whichever driver it calls; the    *)
(* calls are counted together. When the process restarts, all handles go;   *)
(* the directory of the extensions and its database remain.                 *)
EXTENDS HttpDriver

VARIABLES
    fs, rows, db, lock, cgiCtx, cgiMax, cgiCall, events, verified, stale

httpVars == <<ctx, maxHandle, call, given, short, closed>>
cgiVars == <<fs, rows, db, lock, cgiCtx, cgiMax, cgiCall, events, verified, stale>>

Cgi == INSTANCE CgiDriver
           WITH ctx <- cgiCtx, maxHandle <- cgiMax, call <- cgiCall

DriversInit == Init /\ Cgi!Init

HttpStep(c) ==
    /\ cgiCall[c] = Cgi!Idle
    /\ Step(c)
    /\ UNCHANGED cgiVars

CgiStep(c) ==
    /\ call[c] = Idle
    /\ Cgi!Step(c)
    /\ UNCHANGED httpVars

Edit(f, content) == Cgi!Edit(f, content) /\ UNCHANGED httpVars

DriversRestart == Cgi!Restart /\ Restart

DriversNext ==
    \/ \E c \in Callers : HttpStep(c) \/ CgiStep(c)
    \/ \E f \in Files, content \in Contents \cup {NoContent} : Edit(f, content)
    \/ DriversRestart

DriversSpec == DriversInit /\ [][DriversNext]_<<made, httpVars, cgiVars>>

-----------------------------------------------------------------------------
(* Properties: those of HttpDriver under their own names, and these.        *)

\* The types of the variables of both drivers, and a guest in one call.
DriversTypeOK ==
    /\ TypeOK
    /\ Cgi!TypeOK
    /\ \A c \in Callers : call[c] = Idle \/ cgiCall[c] = Cgi!Idle

\* Rows, listings and processes are of files that answered --ext_verify as
\* extensions (list_cgi_directory, get_file_meta).
VerifiedOnly == Cgi!VerifiedOnly

\* A listing whose rows are up to date reports what the database has
\* (cgi_directory_list_extensions, save_extensions).
ListingStored == Cgi!ListingStored

\* A running extension ends by a call on its own handle or with the process
\* (increase_handle, close, kill_on_drop).
ProcessKept == Cgi!ProcessKept

=============================================================================

------------------------ MODULE MCRuntimeLifecycle ------------------------
(* Values of the constants of RuntimeLifecycle for model checking. *)
EXTENDS RuntimeLifecycle

CONSTANTS u, v

\* A trap with a code, one without, and the one of the fuel.
MCTraps == {"OutOfFuel", "MemoryOutOfBounds", "AtomicWaitNonSharedMemory"}

=============================================================================

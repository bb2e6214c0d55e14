------------------------- MODULE NonReentrantSection -------------------------
(***************************************************************************)
(* What the recovery guard promises (spec 4.6): a section guarded by a     *)
(* flag, which one process at a time may take, inside which at most one    *)
(* pass runs, and whose flag is cleared when the process leaves, with the  *)
(* pass over.  A process that finds the flag taken does not wait: nothing  *)
(* in this specification makes it enter later.                             *)
(***************************************************************************)
CONSTANTS Procs

VARIABLES
    taken,     \* the guard flag
    owner,     \* the process that took it, or {}
    running    \* the owner's pass is running

secVars == <<taken, owner, running>>

SecInit ==
    /\ taken = FALSE
    /\ owner = {}
    /\ running = FALSE

(* p finds the flag clear and takes it.                                    *)
Enter(p) ==
    /\ ~taken
    /\ owner = {}
    /\ taken' = TRUE
    /\ owner' = {p}
    /\ UNCHANGED running

(* The owner starts its pass.                                              *)
RunPass(p) ==
    /\ owner = {p}
    /\ ~running
    /\ running' = TRUE
    /\ UNCHANGED <<taken, owner>>

(* The owner leaves, with or without having run a pass, and clears the    *)
(* flag.                                                                    *)
Leave(p) ==
    /\ owner = {p}
    /\ taken' = FALSE
    /\ owner' = {}
    /\ running' = FALSE

SecNext == \E p \in Procs : Enter(p) \/ RunPass(p) \/ Leave(p)

SecSpec == SecInit /\ [][SecNext]_secVars

=============================================================================

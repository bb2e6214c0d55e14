----------------------------- MODULE MCRecovery -----------------------------
(* Small instances of Recovery for TLC.                                    *)
EXTENDS Recovery

CONSTANTS r1, r2, r3

MCRecoveryTicks == {r1, r2, r3}
=============================================================================

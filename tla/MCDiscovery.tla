----------------------------- MODULE MCDiscovery -----------------------------
(* Small instances of Discovery for TLC.                                   *)
EXTENDS Discovery, TLC

CONSTANTS k1, k2, w1, w2, h1, h2

MCKeys == {k1, k2}
MCWorkers == {w1, w2}
MCHealthTicks == {h1, h2}

=============================================================================

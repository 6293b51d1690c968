----------------------------- MODULE MCPoolCache -----------------------------
(* Interchangeable calls on one connection of any driver. *)
EXTENDS PoolCache, TLC

CONSTANTS r1, r2, r3, ui

MCDrivers == {"sql", "redis"}
MCDatabases == 0..1
MCSymmetry == Permutations(Requests)
=============================================================================

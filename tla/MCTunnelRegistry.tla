-------------------------- MODULE MCTunnelRegistry --------------------------
(* Two threads on one or two connections, with one or two configurations. *)
EXTENDS TunnelRegistry, TLC

CONSTANTS a, b, i1, i2, p1, p2, k1, k2
=============================================================================

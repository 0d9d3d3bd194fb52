-------------------------- MODULE MCHostConnections --------------------------
(* Instances of HostConnections for TLC.                                     *)
EXTENDS HostConnections, TLC
Peers == Permutations(Addr)
=============================================================================

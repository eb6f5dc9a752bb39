---------------------------- MODULE MCRedundancyMux ----------------------------
(***************************************************************************)
(* RedundancyMux for TLC.                                                  *)
(***************************************************************************)
EXTENDS RedundancyMux, TLC

CONSTANTS p, q, NPorts

MCPorts == 1 .. NPorts
Symmetry == Permutations(Peers)
=============================================================================

---------------------------- MODULE MCMcpManager ----------------------------
(* Instances of McpManager for TLC. *)
EXTENDS McpManager, TLC

Symmetry == Permutations(Tasks) \cup Permutations(Conns)
=============================================================================

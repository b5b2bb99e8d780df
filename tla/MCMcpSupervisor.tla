-------------------------- MODULE MCMcpSupervisor --------------------------
(* Small instances of McpSupervisor for TLC. *)
EXTENDS McpSupervisor, TLC

Symmetry == Permutations(Request)
=============================================================================

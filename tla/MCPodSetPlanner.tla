---------------------------- MODULE MCPodSetPlanner ----------------------------
(***************************************************************************)
(* Small instances of PodSetPlanner.                                       *)
(***************************************************************************)
EXTENDS PodSetPlanner, TLC

\* Callers and nodes are interchangeable.
Symmetry == Permutations(Callers) \cup Permutations(Nodes)

=============================================================================

------------------------ MODULE MCSchedulePlanClient ------------------------
(***************************************************************************)
(* Small instances of SchedulePlanClient.                                  *)
(***************************************************************************)
EXTENDS SchedulePlanClient, TLC

\* Clients, pods and nodes are interchangeable.
Symmetry == Permutations(Clients) \cup Permutations(Pods) \cup Permutations(Nodes)

=============================================================================

-------------------------- MODULE MCSchedulerPlugin --------------------------
(***************************************************************************)
(* Small instances of SchedulerPlugin.                                     *)
(***************************************************************************)
EXTENDS SchedulerPlugin

CONSTANTS p1, p2,  \* two pods
          s1, s2   \* two planners

\* A set of both pods with a planner of its own and a default planner, one of a
\* single pod with two planners of its own, and one for which none is deployed.
MCDeployments ==
  {[pods |-> {p1, p2}, own |-> {s1}, default |-> {s2}],
   [pods |-> {p1}, own |-> {s1, s2}, default |-> {}],
   [pods |-> {p1, p2}, own |-> {}, default |-> {}]}

=============================================================================

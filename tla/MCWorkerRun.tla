----------------------------- MODULE MCWorkerRun -----------------------------
(***************************************************************************)
(* TLC instances of WorkerRun.                                             *)
(***************************************************************************)
EXTENDS WorkerRun

MCPlanDeps == [t \in PlanTask |-> {d \in PlanTask : d < t}]
MCEligible == [w \in Worker |-> Task]
MCGatedCall == {<<"merge_protected", "merge">>}
MCSymmetry == Permutations(Worker)
=============================================================================

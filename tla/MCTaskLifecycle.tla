--------------------------- MODULE MCTaskLifecycle ---------------------------
(***************************************************************************)
(* TLC instance of TaskLifecycle: a request with two code tasks, the       *)
(* second depending on the first, two workers eligible for both, and an    *)
(* earlier stand-alone task that waits for a capability neither has.       *)
(***************************************************************************)
EXTENDS TaskLifecycle, FiniteSets, TLC

MCPlanDeps == [t \in PlanTask |-> {d \in PlanTask : d < t}]
MCEligible == [w \in Worker |-> PlanTask]
MCGatedCall == {<<"merge_protected", "merge">>, <<"add_dependency", "implement">>}
MCSymmetry == Permutations(Worker) \cup Permutations(Commit)
=============================================================================

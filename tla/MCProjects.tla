----------------------------- MODULE MCProjects -----------------------------
(***************************************************************************)
(* TLC instance of Projects: two projects, two clients.                    *)
(***************************************************************************)
EXTENDS Projects, TLC

MCProjSymmetry ==
  Permutations(Project) \cup Permutations(Client) \cup Permutations(TaskId)
=============================================================================

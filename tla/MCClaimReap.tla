---------------------------- MODULE MCClaimReap ----------------------------
(***************************************************************************)
(* TLC instance of ClaimReap: two workers and two tasks.                   *)
(***************************************************************************)
EXTENDS ClaimReap, TLC

MCSymmetry == Permutations(Worker) \cup Permutations(Task)
=============================================================================

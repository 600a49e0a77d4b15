------------------------------ MODULE HumanGate ------------------------------
(***************************************************************************)
(* What the merge gate promises about a unit of work, with nothing of how: *)
(* a version is asked about, a human answers, and only an approved version *)
(* is merged, the one the human saw.  TaskLifecycle implements it.         *)
(***************************************************************************)
CONSTANTS Item, Version, NoVersion

VARIABLES
  phase,    \* where each item stands
  subject   \* the version a human was asked about or approved

vars == <<phase, subject>>

Phase == {"working", "asked", "approved", "merged", "dropped"}

TypeOK ==
  /\ phase \in [Item -> Phase]
  /\ subject \in [Item -> Version \cup {NoVersion}]

Init ==
  /\ phase = [t \in Item |-> "working"]
  /\ subject = [t \in Item |-> NoVersion]

Ask(t, v) ==
  /\ phase[t] = "working"
  /\ phase' = [phase EXCEPT ![t] = "asked"]
  /\ subject' = [subject EXCEPT ![t] = v]

Approve(t) ==
  /\ phase[t] = "asked"
  /\ phase' = [phase EXCEPT ![t] = "approved"]
  /\ UNCHANGED subject

SendBack(t) ==
  /\ phase[t] = "asked"
  /\ phase' = [phase EXCEPT ![t] = "working"]
  /\ subject' = [subject EXCEPT ![t] = NoVersion]

Merge(t) ==
  /\ phase[t] = "approved"
  /\ phase' = [phase EXCEPT ![t] = "merged"]
  /\ UNCHANGED subject

\* Cancelling a request drops several items at once; a merged one stays merged.
Drop(S) ==
  /\ \A t \in S : phase[t] \notin {"merged", "dropped"}
  /\ phase' = [t \in Item |-> IF t \in S THEN "dropped" ELSE phase[t]]
  /\ subject' = [t \in Item |-> IF t \in S THEN NoVersion ELSE subject[t]]

Next ==
  \/ \E t \in Item, v \in Version : Ask(t, v)
  \/ \E t \in Item : Approve(t) \/ SendBack(t) \/ Merge(t)
  \/ \E S \in SUBSET Item : Drop(S)

Spec == Init /\ [][Next]_vars
=============================================================================

------------------------------ MODULE MCParts ------------------------------
(***************************************************************************)
(* TLC instance of the six parts that share no state with each other:      *)
(* claims against the reaper (ClaimReap), the workflow engine              *)
(* (RequestFlow), projects (Projects), the outbox (Notifier), the graph    *)
(* walks (KnowledgeGraph) and the run of a document task (DocumentRun).    *)
(* Interleaving them would multiply states and add no behaviour of any     *)
(* part, so part picks the one that runs.                                  *)
(***************************************************************************)
EXTENDS ClaimReap, RequestFlow, Projects, Notifier, KnowledgeGraph, DocumentRun

\* The shipped feature, change and quick-fix workflows in outline, a plan without
\* a gate, and a legal workflow whose second code step no plan feeds.
MCStep(k) == [kind |-> k, gate |-> TRUE]
MCWorkflow ==
  {<<MCStep("document"), MCStep("document"), MCStep("plan"), MCStep("code")>>,
   <<MCStep("document"), MCStep("revise"), [kind |-> "plan", gate |-> FALSE], MCStep("code")>>,
   <<MCStep("plan"), MCStep("code"), MCStep("code")>>,
   <<MCStep("code")>>}

\* Four documents of one project, and five others they may or may not refer to.
MCDoc(s, i) == [scope |-> s, id |-> i]
MCOwn == {MCDoc("projects/a", i) : i \in {"A", "B", "C", "D"}}
MCOther == {MCDoc("projects/b", "A"), MCDoc("clients/x", "B"), MCDoc("clients/y", "E"),
            MCDoc("stacks/go", "E"), MCDoc("global", "F")}
MCKey == MCOwn \cup MCOther
MCDead == {MCDoc("projects/a", "D"), MCDoc("clients/y", "E")}
MCClientOf == [p \in ProjectScope |-> IF p = "projects/a" THEN "clients/x" ELSE "clients/y"]
MCLimit == [k \in Kind |-> 2]

\* Every way to link the four by up to four references...
MCShapes ==
  LET pairs == {p \in MCOwn \X MCOwn : p[1] # p[2]}
      refs == {<<p[1], "implements", MCDoc(AnyScope, p[2].id)>> : p \in pairs}
  IN {S \in SUBSET refs : Cardinality(S) <= 4}

\* ...and every pair of references across scopes, by id or by key, with a
\* relation that both directions follow.
MCScopes ==
  LET from == MCOther \cup {MCDoc("projects/a", "A")}
      ids  == {MCDoc(AnyScope, i) : i \in {"A", "B", "E", "F"}}
      keys == {MCDoc("projects/b", "A"), MCDoc("clients/y", "E")}
      refs == from \X {"satisfies", "contradicts"} \X (ids \cup keys)
  IN {{k, l} : k, l \in refs}

MCLibraries == MCShapes \cup MCScopes

VARIABLE part

partVars == <<claimVars, vars, projVars, outboxVars, graphVars, docRunVars, part>>

PartInit ==
  /\ part \in {"claims", "flow", "projects", "outbox", "graph", "document"}
  /\ ClaimInit /\ Init /\ ProjInit /\ OutboxInit /\ GraphInit /\ DocRunInit
  /\ part # "document" => gated

Only(p) ==
  /\ part = p /\ UNCHANGED part
  /\ p = "claims"   \/ UNCHANGED claimVars
  /\ p = "flow"     \/ UNCHANGED vars
  /\ p = "projects" \/ UNCHANGED projVars
  /\ p = "outbox"   \/ UNCHANGED outboxVars
  /\ p = "graph"    \/ UNCHANGED graphVars
  /\ p = "document" \/ UNCHANGED docRunVars

PartNext ==
  \/ Only("claims")   /\ ClaimNext
  \/ Only("flow")     /\ Next
  \/ Only("projects") /\ ProjNext
  \/ Only("outbox")   /\ OutboxNext
  \/ Only("graph")    /\ GraphNext
  \/ Only("document") /\ DocRunNext

PartSpec == PartInit /\ [][PartNext]_partVars /\ OutboxFairness /\ DocRunFairness
=============================================================================

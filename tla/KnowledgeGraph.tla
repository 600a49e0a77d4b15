--------------------------- MODULE KnowledgeGraph ---------------------------
(***************************************************************************)
(* The walks over the knowledge graph (controlplane/graph.go, docs/graph.go)*)
(* and the scopes a reference may reach (docs/repo.go).                    *)
(*                                                                         *)
(* A handler loads the library, then walks a copy nobody else changes: the *)
(* library is chosen when the walk begins.  impactOf and ExpandContext go  *)
(* breadth first (a queue), upstream and downstream depth first (the call  *)
(* stack) with one set of seen documents.  The edges of a document come in *)
(* the order of a Go map, which is any order.                              *)
(***************************************************************************)
EXTENDS Integers, Sequences, FiniteSets

CONSTANTS
  ProjectScope, ClientScope, Stack,  \* scopes; next to "global" and "roles"
  ClientOf,    \* the client scope of each project, or NoScope
  Key,         \* the documents: [scope, id] pairs
  Libraries,   \* the libraries considered: sets of <<document, relation, reference>>,
               \* a reference being a key or an id alone, with AnyScope
  Dead,        \* documents that are superseded or rejected
  Limit,       \* how many hops each kind of walk follows
  MaxListed,   \* bound: documents a task lists
  NoScope, AnyScope

Kind == {"impact", "why", "effects", "context"}
Breadth == {"impact", "context"}

Scope == ProjectScope \cup ClientScope \cup Stack \cup {"global", "roles"}

ASSUME GraphAssumption ==
  /\ Key \subseteq [scope : Scope, id : STRING] /\ IsFiniteSet(Key)
  /\ ClientOf \in [ProjectScope -> ClientScope \cup {NoScope}]
  /\ Dead \subseteq Key
  /\ Limit \in [Kind -> Nat] /\ MaxListed \in Nat
ASSUME ScopesApart ==
  /\ ProjectScope \cap (ClientScope \cup Stack \cup {"global", "roles"}) = {}
  /\ ClientScope \cap (Stack \cup {"global", "roles"}) = {}
  /\ Stack \cap {"global", "roles"} = {}
  /\ NoScope \notin Scope /\ AnyScope \notin Scope

\* Relations by what a change, a question or a context follows.
DependsRels == {"satisfies", "derived_from", "depends_on", "implements", "documents",
                "references", "contradicts"}
ImpactsRels == {"affects", "tested_by", "contradicts"}
WhyRels     == {"satisfies", "implements", "derived_from", "depends_on"}
ContextOut  == {"satisfies", "implements", "depends_on", "derived_from", "affects",
                "tested_by"}
ContextIn   == {"implements"}

VARIABLES
  edges,    \* the references of the loaded library that resolve
  kind,     \* the walk that runs, or "none"
  start,    \* the documents it starts from
  depth,    \* the documents seen so far, with the depth each was met at
  todo      \* the queue, or the stack: the current document first

graphVars == <<edges, kind, start, depth, todo>>

-----------------------------------------------------------------------------
(***************************************************************************)
(* References.                                                             *)
(***************************************************************************)

\* Visible: the scopes a document may refer to, the most specific first.
Visible(from) ==
  CASE from \in ProjectScope     -> <<{from}, {ClientOf[from]}, Stack, {"global"}, {"roles"}>>
    [] from \in ClientScope -> <<{from}, Stack, {"global"}>>
    [] from \in Stack       -> <<{from}, {"global"}>>
    [] from = "roles"       -> <<{"roles"}, {"global"}>>
    [] OTHER                -> <<{"global"}>>

MayRead(from) == UNION {Visible(from)[i] : i \in DOMAIN Visible(from)}

Named(id, scopes) == {k \in Key : k.id = id /\ k.scope \in scopes}

\* Mutant: a name nobody may see is looked for everywhere.
MutTargets(d, ref) ==
  IF ref.scope # AnyScope THEN {ref} \cap Key ELSE Named(ref.id, Scope)

\* Resolve: a key as it stands, an id in the first scope that has it; an id that
\* several stacks have is an error, and so is one no visible scope has.
Targets(d, ref) ==
  LET v == Visible(d.scope) IN
  IF ref.scope # AnyScope
  THEN {ref} \cap {k \in Key : k.scope \in MayRead(d.scope)}
  ELSE {k \in Key :
          \E i \in DOMAIN v :
            /\ Named(ref.id, v[i]) = {k}
            /\ \A j \in 1..(i - 1) : Named(ref.id, v[j]) = {}}

\* edges(): the references that resolve, as <<from, relation, to>>.
EdgesOf(lib) == UNION {{<<l[1], l[2], t>> : t \in Targets(l[1], l[3])} : l \in lib}

\* What loading a library can give.
Graphs == {EdgesOf(lib) : lib \in Libraries}

Edge(d, rels, t) == \E r \in rels : <<d, r, t>> \in edges

-----------------------------------------------------------------------------
(***************************************************************************)
(* The walks.                                                              *)
(***************************************************************************)
Live == Key \ Dead

\* impactOf: what has to change with d.
Impacted(d) == {t \in Live : Edge(t, DependsRels, d) \/ Edge(d, ImpactsRels, t)}

\* upstream: why d exists; downstream: what was made from it.
Upstream(d)   == {t \in Key : Edge(d, WhyRels, t)}
Downstream(d) == {t \in Key : Edge(t, DependsRels, d)}

\* ExpandContext: the documents of its own project that d relies on, or that
\* implement it.
Context(d) ==
  {t \in Live : t.scope = d.scope /\ (Edge(d, ContextOut, t) \/ Edge(t, ContextIn, d))}

\* What the walk of kind k follows from d.
Follows(k, d) ==
  CASE k = "impact"  -> Impacted(d)
    [] k = "why"     -> Upstream(d)
    [] k = "effects" -> Downstream(d)
    [] k = "context" -> Context(d)

GraphInit ==
  /\ edges = {} /\ kind = "none" /\ start = {}
  /\ depth = [d \in {} |-> 0] /\ todo = <<>>

\* A request arrives: GET /impact and /trace for one document, or taskContext
\* for the documents of a task, which are all its project's.
Ask(k, graph, S, order) ==
  /\ edges' = graph /\ kind' = k /\ start' = S
  /\ depth' = [d \in S |-> 0]
  /\ todo' = order

AskOne(k, graph, d) == k # "context" /\ Ask(k, graph, {d}, <<d>>)

AskContext(graph, S) ==
  LET live == S \cap Live IN
  /\ Cardinality(S) <= MaxListed
  /\ \E order \in [1..Cardinality(live) -> live] :
       /\ \A d \in live : \E i \in DOMAIN order : order[i] = d
       /\ Ask("context", graph, live, order)

Unseen(d) == Follows(kind, d) \ DOMAIN depth

MayExpand(d) == depth[d] < Limit[kind]

\* Mutant: the newest first, whatever the walk.
MutPut(t) == <<t>> \o todo

\* The queue takes a document at its end, the call stack at its top.
Put(t) == IF kind \in Breadth THEN Append(todo, t) ELSE <<t>> \o todo

\* One edge of the current document.
Visit(t) ==
  /\ todo # <<>> /\ MayExpand(Head(todo)) /\ t \in Unseen(Head(todo))
  /\ depth' = [d \in DOMAIN depth \cup {t} |->
                 IF d = t THEN depth[Head(todo)] + 1 ELSE depth[d]]
  /\ todo' = Put(t)
  /\ UNCHANGED <<edges, kind, start>>

\* Mutant: the loop ends at the first document that was seen before.
MutLeave ==
  /\ todo # <<>>
  /\ \/ MayExpand(Head(todo)) => Unseen(Head(todo)) = {}
     \/ Follows(kind, Head(todo)) \cap DOMAIN depth # {}
  /\ todo' = Tail(todo)
  /\ UNCHANGED <<edges, kind, start, depth>>

\* The current document has no edge left, or is as deep as the walk goes.
Leave ==
  /\ todo # <<>>
  /\ MayExpand(Head(todo)) => Unseen(Head(todo)) = {}
  /\ todo' = Tail(todo)
  /\ UNCHANGED <<edges, kind, start, depth>>

\* The answer is sent.
Reply ==
  /\ kind # "none" /\ todo = <<>>
  /\ edges' = {} /\ kind' = "none" /\ start' = {}
  /\ depth' = [d \in {} |-> 0]
  /\ UNCHANGED todo

GraphNext ==
  \/ /\ kind = "none"
     /\ \E graph \in Graphs :
       \/ \E k \in Kind, d \in Key : AskOne(k, graph, d)
       \/ \E p \in ProjectScope : \E S \in SUBSET {d \in Key : d.scope = p} : AskContext(graph, S)
  \/ \E t \in Key : Visit(t)
  \/ Leave \/ Reply

GraphSpec == GraphInit /\ [][GraphNext]_graphVars

-----------------------------------------------------------------------------
(***************************************************************************)
(* Properties.                                                             *)
(***************************************************************************)
Ended == kind # "none" /\ todo = <<>>

\* The documents within n hops of the start.
Ball[n \in Nat] ==
  IF n = 0 THEN start
  ELSE LET B == Ball[n - 1] IN B \cup UNION {Follows(kind, d) : d \in B}

\* "3 hops, same project only, skipping superseded and rejected documents"
\* (docs/apps.md:403), and the depth an impact report gives (api ImpactedDoc):
\* a breadth-first walk lists exactly the documents within its limit, each with
\* its distance.
WithinLimit ==
  Ended /\ kind \in Breadth =>
    /\ DOMAIN depth = Ball[Limit[kind]]
    /\ \A d \in DOMAIN depth : \A n \in 0..Limit[kind] : d \in Ball[n] <=> depth[d] <= n

\* A trace leaves nothing out but what lies behind its limit: the neighbours of
\* a listed document are listed too, whatever path found it first.
NothingSkipped ==
  Ended => \A d \in DOMAIN depth : MayExpand(d) => Follows(kind, d) \subseteq DOMAIN depth

\* "Never to another project or another client" (docs/documents.md:128): along
\* any chain of references, what a document is explained by, or what an agent is
\* given with it, is its own project's or client's, a stack's or global.
NeverAnotherClient ==
  /\ kind = "why" => \A d \in DOMAIN depth, s \in start : d.scope \in MayRead(s.scope)
  /\ kind = "context" => \A d \in DOMAIN depth, s \in start : d.scope = s.scope
=============================================================================

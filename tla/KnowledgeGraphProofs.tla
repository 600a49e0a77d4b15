------------------------- MODULE KnowledgeGraphProofs -------------------------
(***************************************************************************)
(* Proofs about the graph walks, for any documents, references, limits and *)
(* order of the edges:                                                     *)
(*   - a chain of references never leaves what its first document may read *)
(*     (what a scope may read is transitive);                              *)
(*   - a finished walk has expanded every document it lists, up to its     *)
(*     limit;                                                              *)
(*   - a finished breadth-first walk lists exactly the documents within    *)
(*     its limit, each with its distance.                                  *)
(***************************************************************************)
EXTENDS KnowledgeGraph, FiniteSetTheorems, SequenceTheorems, WellFoundedInduction, TLAPS

(***************************************************************************)
(* Scopes.                                                                 *)
(***************************************************************************)

\* What each kind of scope may read.
LEMMA ProjectReads ==
  ASSUME NEW p \in ProjectScope
  PROVE  MayRead(p) = {p, ClientOf[p], "global", "roles"} \cup Stack
<1>1. Visible(p) = <<{p}, {ClientOf[p]}, Stack, {"global"}, {"roles"}>>
  BY ScopesApart DEF Visible
<1> QED BY <1>1 DEF MayRead

\* A client reads itself, the stacks and the global documents.
LEMMA ClientReads ==
  ASSUME NEW c \in ClientScope PROVE MayRead(c) = {c, "global"} \cup Stack
<1>1. Visible(c) = <<{c}, Stack, {"global"}>> BY ScopesApart DEF Visible
<1> QED BY <1>1 DEF MayRead

\* A stack reads itself and the global documents.
LEMMA StackReads ==
  ASSUME NEW s \in Stack PROVE MayRead(s) = {s, "global"}
<1>1. Visible(s) = <<{s}, {"global"}>> BY ScopesApart DEF Visible
<1> QED BY <1>1 DEF MayRead

\* Roles read themselves and the global documents, which read only themselves.
LEMMA GlobalReads ==
  MayRead("roles") = {"roles", "global"} /\ MayRead("global") = {"global"}
<1>1. Visible("roles") = <<{"roles"}, {"global"}>> BY ScopesApart DEF Visible
<1>2. Visible("global") = <<{"global"}>> BY ScopesApart DEF Visible
<1> QED BY <1>1, <1>2 DEF MayRead

\* Reading is transitive: what a readable scope may read is readable.
LEMMA MayReadTransitive ==
  ASSUME NEW a \in Scope, NEW b \in Scope, NEW c \in Scope,
         b \in MayRead(a), c \in MayRead(b)
  PROVE  c \in MayRead(a)
<1>1. CASE a \in ProjectScope
  <2>1. b \in {a, ClientOf[a], "global", "roles"} \cup Stack BY <1>1, ProjectReads
  <2>2. b = a \/ b \in ClientScope \/ b \in Stack \/ b \in {"global", "roles"}
    BY <1>1, <2>1, GraphAssumption, ScopesApart
  <2> QED BY <1>1, <2>1, <2>2, ProjectReads, ClientReads, StackReads, GlobalReads, ScopesApart
<1>2. CASE a \in ClientScope
  <2>1. b = a \/ b \in Stack \/ b = "global" BY <1>2, ClientReads
  <2> QED BY <1>2, <2>1, ClientReads, StackReads, GlobalReads
<1>3. CASE a \in Stack
  <2>1. b = a \/ b = "global" BY <1>3, StackReads
  <2> QED BY <1>3, <2>1, StackReads, GlobalReads
<1>4. CASE a \in {"global", "roles"}
  BY <1>4, GlobalReads
<1> QED BY <1>1, <1>2, <1>3, <1>4 DEF Scope

\* Every scope reads itself.
LEMMA MayReadReflexive == ASSUME NEW a \in Scope PROVE a \in MayRead(a)
  BY ProjectReads, ClientReads, StackReads, GlobalReads DEF Scope

\* A reference that resolves leads to a document its own document may read.
LEMMA TargetsReadable ==
  ASSUME NEW d \in Key, NEW ref, NEW t \in Targets(d, ref)
  PROVE  t \in Key /\ t.scope \in MayRead(d.scope)
<1>1. CASE ref.scope # AnyScope BY <1>1 DEF Targets
<1>2. CASE ref.scope = AnyScope
  <2>1. PICK i \in DOMAIN Visible(d.scope) : Named(ref.id, Visible(d.scope)[i]) = {t}
    BY <1>2 DEF Targets
  <2>2. t \in Key /\ t.scope \in Visible(d.scope)[i] BY <2>1 DEF Named
  <2> QED BY <2>2 DEF MayRead
<1> QED BY <1>1, <1>2
(***************************************************************************)
(* What every walk keeps.                                                  *)
(***************************************************************************)
Waits(d) == \E i \in DOMAIN todo : todo[i] = d

\* The documents seen are documents, and the ones still to expand are seen.
WalkTypeOK ==
  /\ DOMAIN depth \subseteq Key
  /\ start \subseteq Key
  /\ todo \in Seq(DOMAIN depth)
  /\ kind \in Kind \cup {"none"} /\ (kind = "none" => todo = <<>>)

\* Every edge leads to a document its source may read.
EdgesReadable ==
  \A d, t \in Key, r \in WhyRels : <<d, r, t>> \in edges => t.scope \in MayRead(d.scope)

\* A seen document is expanded, waits for it, or is too deep.
NothingDropped ==
  \A d \in DOMAIN depth :
    MayExpand(d) => Follows(kind, d) \subseteq DOMAIN depth \/ Waits(d)

\* How far a document lies: at its own depth, one hop behind another.
Hops ==
  /\ start \subseteq DOMAIN depth
  /\ \A d \in DOMAIN depth : depth[d] \in Nat /\ (depth[d] = 0 <=> d \in start)
  /\ \A d \in DOMAIN depth : depth[d] = 0 \/ depth[d] <= Limit[kind]
  /\ \A d \in DOMAIN depth \ start : \E e \in DOMAIN depth :
       depth[d] = depth[e] + 1 /\ d \in Follows(kind, e)

\* A queue is in the order of the depths, at most one apart; what it no longer
\* holds lies no deeper than its head, and its neighbours at most one hop behind.
BreadthFirst ==
  kind \in Breadth =>
    /\ \A i, j \in DOMAIN todo : i <= j => depth[todo[i]] <= depth[todo[j]]
    /\ \A j \in DOMAIN todo : depth[todo[j]] <= depth[Head(todo)] + 1
    /\ \A d \in DOMAIN depth :
         \/ Waits(d)
         \/ /\ todo # <<>> => depth[d] <= depth[Head(todo)]
            /\ MayExpand(d) =>
                 \A t \in Follows(kind, d) : t \in DOMAIN depth /\ depth[t] <= depth[d] + 1

WalkInv ==
  WalkTypeOK /\ EdgesReadable /\ NothingDropped /\ Hops /\ BreadthFirst /\ NeverAnotherClient

\* What a walk follows depends on the loaded edges alone.
LEMMA FollowsKept ==
  ASSUME UNCHANGED <<edges, kind>>, NEW d PROVE Follows(kind, d)' = Follows(kind, d)
<1>1. Impacted(d)' = Impacted(d) BY DEF Impacted, Edge
<1>2. Upstream(d)' = Upstream(d) BY DEF Upstream, Edge
<1>3. Downstream(d)' = Downstream(d) BY DEF Downstream, Edge
<1>4. Context(d)' = Context(d) BY DEF Context, Edge
<1> QED BY <1>1, <1>2, <1>3, <1>4, Zenon DEF Follows

\* A walk stays among the documents.
LEMMA FollowsKey ==
  ASSUME NEW d, kind \in Kind PROVE Follows(kind, d) \subseteq Key
<1>1. Impacted(d) \subseteq Key /\ Context(d) \subseteq Key BY DEF Impacted, Context, Live
<1>2. Upstream(d) \subseteq Key /\ Downstream(d) \subseteq Key BY DEF Upstream, Downstream
<1>3. CASE kind = "impact" BY <1>1, <1>3, Zenon DEF Follows
<1>4. CASE kind = "why" BY <1>2, <1>4, Zenon DEF Follows
<1>5. CASE kind = "effects" BY <1>2, <1>5, Zenon DEF Follows
<1>6. CASE kind = "context" BY <1>1, <1>6, Zenon DEF Follows
<1> QED BY <1>3, <1>4, <1>5, <1>6 DEF Kind

\* The edges of a loaded library lead to readable documents.
LEMMA GraphsReadable ==
  ASSUME NEW graph \in Graphs, NEW d \in Key, NEW t \in Key, NEW r, <<d, r, t>> \in graph
  PROVE  t.scope \in MayRead(d.scope)
<1>1. PICK lib \in Libraries : graph = EdgesOf(lib) BY DEF Graphs
<1>2. PICK l \in lib : \E u \in Targets(l[1], l[3]) : <<d, r, t>> = <<l[1], l[2], u>>
  BY <1>1 DEF EdgesOf
<1>3. t \in Targets(d, l[3]) BY <1>2
<1> QED BY <1>3, TargetsReadable

(***************************************************************************)
(* The distance of a document.                                             *)
(***************************************************************************)

\* Every set of numbers has a least one: what induction on hops rests on.
LEMMA LeastNat ==
  ASSUME NEW T, T \subseteq Nat, T # {}
  PROVE  \E x \in T : \A y \in T : x <= y
<1> DEFINE R == OpToRel(<, Nat)
<1>1. IsWellFoundedOn(R, Nat)
  BY NatLessThanWellFounded, Zenon
<1>2. \A x, y \in Nat : y < x => <<y, x>> \in R
  BY DEF OpToRel
<1> HIDE DEF R
<1>3. PICK x \in T : \A y \in T : ~(<<y, x>> \in R)
  BY <1>1, WFMin
<1>4. ASSUME NEW y \in T PROVE x <= y
  <2>1. x \in Nat /\ y \in Nat /\ ~(y < x)
    BY <1>2, <1>3, Zenon
  <2> QED BY <2>1
<1> QED BY <1>4

\* A way of m hops from the start to d.
Way(p, m, d) ==
  /\ p \in [0..m -> Key] /\ p[0] \in start /\ p[m] = d
  /\ \A i \in 0..(m - 1) : p[i + 1] \in Follows(kind, p[i])

\* What some way of at most n hops leads to.
Reached(n) == {d \in Key : \E m \in 0..n : \E p \in [0..m -> Key] : Way(p, m, d)}

\* One hop more than n is n hops and one.
LEMMA OneHopMore ==
  ASSUME kind \in Kind, start \subseteq Key, NEW n \in Nat
  PROVE  Reached(n + 1) = Reached(n) \cup UNION {Follows(kind, d) : d \in Reached(n)}
<1>1. ASSUME NEW d \in Reached(n + 1)
      PROVE  d \in Reached(n) \cup UNION {Follows(kind, e) : e \in Reached(n)}
  <2>1. PICK m \in 0..(n + 1) : \E p \in [0..m -> Key] : Way(p, m, d)
    BY <1>1 DEF Reached
  <2>2. PICK p \in [0..m -> Key] : Way(p, m, d)
    BY <2>1
  <2>3. CASE m \in 0..n
    BY <1>1, <2>2, <2>3 DEF Reached
  <2>4. CASE m = n + 1
    <3> DEFINE q == [i \in 0..n |-> p[i]]
    <3>1. q \in [0..n -> Key] /\ q[0] = p[0] /\ q[n] = p[n] /\ p[n] \in Key
      BY <2>2, <2>4
    <3>2. \A i \in 0..(n - 1) : q[i + 1] \in Follows(kind, q[i])
      <4> TAKE i \in 0..(n - 1)
      <4>1. i \in 0..n /\ i + 1 \in 0..n /\ i \in 0..(m - 1)
        BY <2>4
      <4> QED BY <4>1, <2>2 DEF Way
    <3>3. Way(q, n, p[n])
      BY <2>2, <3>1, <3>2 DEF Way
    <3>4. p[n] \in Reached(n)
      BY <3>1, <3>3 DEF Reached
    <3>5. d \in Follows(kind, p[n])
      <4>1. n \in 0..(m - 1) /\ p[m] = d
        BY <2>2, <2>4 DEF Way
      <4> QED BY <4>1, <2>2, <2>4 DEF Way
    <3> QED BY <3>4, <3>5
  <2> QED BY <2>2, <2>3, <2>4
<1>2. ASSUME NEW d \in Reached(n) PROVE d \in Reached(n + 1)
  BY <1>2 DEF Reached
<1>3. ASSUME NEW e \in Reached(n), NEW d \in Follows(kind, e)
      PROVE  d \in Reached(n + 1)
  <2>1. PICK m \in 0..n : \E p \in [0..m -> Key] : Way(p, m, e)
    BY <1>3 DEF Reached
  <2>2. PICK p \in [0..m -> Key] : Way(p, m, e)
    BY <2>1
  <2>3. d \in Key
    BY <1>3, FollowsKey
  <2> DEFINE q == [i \in 0..(m + 1) |-> IF i = m + 1 THEN d ELSE p[i]]
  <2>4. q \in [0..(m + 1) -> Key] /\ q[m + 1] = d /\ \A i \in 0..m : q[i] = p[i]
    BY <2>2, <2>3
  <2> HIDE DEF q
  <2>5. \A i \in 0..((m + 1) - 1) : q[i + 1] \in Follows(kind, q[i])
    <3> TAKE i \in 0..((m + 1) - 1)
    <3>1. CASE i = m
      BY <3>1, <2>2, <2>4, <1>3 DEF Way
    <3>2. CASE i \in 0..(m - 1)
      <4>1. q[i] = p[i] /\ q[i + 1] = p[i + 1]
        BY <3>2, <2>4
      <4> QED BY <3>2, <4>1, <2>2 DEF Way
    <3> QED BY <3>1, <3>2
  <2>6. q[0] \in start
    BY <2>2, <2>4 DEF Way
  <2>7. Way(q, m + 1, d)
    BY <2>4, <2>5, <2>6 DEF Way
  <2>8. m + 1 \in 0..(n + 1)
    OBVIOUS
  <2> QED BY <2>3, <2>4, <2>7, <2>8 DEF Reached
<1> QED BY <1>1, <1>2, <1>3

\* No hop leads nowhere.
LEMMA NoHop == ASSUME start \subseteq Key PROVE Reached(0) = start
<1>1. ASSUME NEW d \in Reached(0) PROVE d \in start
  BY <1>1 DEF Reached, Way
<1>2. ASSUME NEW d \in start PROVE d \in Reached(0)
  <2> DEFINE p == [i \in 0..0 |-> d]
  <2>1. p \in [0..0 -> Key] /\ p[0] = d
    BY <1>2
  <2>2. Way(p, 0, d)
    BY <1>2, <2>1 DEF Way
  <2> QED BY <1>2, <2>1, <2>2 DEF Reached
<1> QED BY <1>1, <1>2

\* The balls grow hop by hop: some function does, so the chosen one does.
LEMMA BallHops ==
  ASSUME kind \in Kind, start \subseteq Key
  PROVE  /\ Ball[0] = start
         /\ \A n \in Nat :
              Ball[n + 1] = Ball[n] \cup UNION {Follows(kind, d) : d \in Ball[n]}
<1> DEFINE Iter(g) == [n \in Nat |->
             IF n = 0 THEN start
             ELSE g[n - 1] \cup UNION {Follows(kind, d) : d \in g[n - 1]}]
           reach == [n \in Nat |-> Reached(n)]
<1>1. Ball = CHOOSE g : g = Iter(g)
  BY Zenon DEF Ball
<1>2. reach = Iter(reach)
  <2>1. ASSUME NEW n \in Nat
        PROVE  Reached(n) = IF n = 0 THEN start
                            ELSE reach[n - 1] \cup UNION {Follows(kind, d) : d \in reach[n - 1]}
    <3>1. CASE n = 0
      BY <3>1, NoHop
    <3>2. CASE n # 0
      <4>1. n - 1 \in Nat /\ (n - 1) + 1 = n
        BY <3>2
      <4>2. reach[n - 1] = Reached(n - 1)
        BY <4>1
      <4>3. Reached((n - 1) + 1) =
              Reached(n - 1) \cup UNION {Follows(kind, d) : d \in Reached(n - 1)}
        BY <4>1, OneHopMore
      <4> QED BY <3>2, <4>1, <4>2, <4>3
    <3> QED BY <3>1, <3>2
  <2> QED BY <2>1
<1>3. Ball = Iter(Ball)
  <2> HIDE DEF Iter, reach
  <2> QED BY <1>1, <1>2, Zenon
<1>4. \A n \in Nat : Ball[n] =
        IF n = 0 THEN start
        ELSE Ball[n - 1] \cup UNION {Follows(kind, d) : d \in Ball[n - 1]}
  BY <1>3
<1>5. ASSUME NEW n \in Nat
      PROVE  Ball[n + 1] = Ball[n] \cup UNION {Follows(kind, d) : d \in Ball[n]}
  <2>1. n + 1 \in Nat /\ n + 1 # 0 /\ (n + 1) - 1 = n
    OBVIOUS
  <2> QED BY <1>4, <2>1
<1> QED BY <1>4, <1>5

\* What a queue has listed when it is empty is each ball within the limit.
LEMMA ListedBalls ==
  ASSUME WalkInv, Ended, kind \in Breadth
  PROVE  \A n \in 0..Limit[kind] : \A d : d \in Ball[n] <=> d \in DOMAIN depth /\ depth[d] <= n
<1> DEFINE Listed(n) == {d \in DOMAIN depth : depth[d] <= n}
           Bad == {n \in 0..Limit[kind] : Ball[n] # Listed(n)}
<1>1. kind \in Kind /\ start \subseteq Key /\ Limit[kind] \in Nat
  BY GraphAssumption DEF WalkInv, WalkTypeOK, Kind, Breadth
<1>2. \A d \in DOMAIN depth : depth[d] \in Nat /\ (depth[d] = 0 <=> d \in start)
  BY DEF WalkInv, Hops
<1>3. \A d \in DOMAIN depth : depth[d] < Limit[kind] =>
        \A t \in Follows(kind, d) : t \in DOMAIN depth /\ depth[t] <= depth[d] + 1
  BY DEF WalkInv, BreadthFirst, Ended, Waits, MayExpand
<1>4. \A d \in DOMAIN depth : d \notin start =>
        \E e \in DOMAIN depth : depth[d] = depth[e] + 1 /\ d \in Follows(kind, e)
  BY DEF WalkInv, Hops
<1>5. Ball[0] = Listed(0)
  BY <1>1, <1>2, BallHops DEF WalkInv, Hops
<1>6. ASSUME NEW n \in Nat, n + 1 <= Limit[kind], Ball[n] = Listed(n)
      PROVE  Ball[n + 1] = Listed(n + 1)
  <2>1. Ball[n + 1] = Listed(n) \cup UNION {Follows(kind, d) : d \in Listed(n)}
    BY <1>1, <1>6, BallHops
  <2>2. ASSUME NEW e \in Listed(n), NEW d \in Follows(kind, e) PROVE d \in Listed(n + 1)
    <3>1. e \in DOMAIN depth /\ depth[e] <= n /\ depth[e] \in Nat
      BY <1>2
    <3>2. d \in DOMAIN depth /\ depth[d] <= depth[e] + 1 /\ depth[d] \in Nat
      BY <1>1, <1>2, <1>3, <1>6, <2>2, <3>1
    <3> QED BY <3>1, <3>2
  <2>3. \A d \in Listed(n) : d \in Listed(n + 1)
    BY <1>2
  <2>4. ASSUME NEW d \in Listed(n + 1), d \notin Listed(n)
        PROVE  \E e \in Listed(n) : d \in Follows(kind, e)
    <3>1. d \in DOMAIN depth /\ depth[d] = n + 1
      BY <1>2, <2>4
    <3>2. PICK e \in DOMAIN depth : depth[d] = depth[e] + 1 /\ d \in Follows(kind, e)
      BY <1>2, <1>4, <3>1
    <3>3. depth[e] = n
      BY <1>2, <3>1, <3>2
    <3> QED BY <3>2, <3>3
  <2> QED BY <2>1, <2>2, <2>3, <2>4
<1>7. Bad = {}
  <2> SUFFICES ASSUME Bad # {} PROVE FALSE
    OBVIOUS
  <2>1. Bad \subseteq Nat
    BY <1>1
  <2> HIDE DEF Bad
  <2>2. PICK n \in Bad : \A k \in Bad : n <= k
    BY <2>1, LeastNat
  <2> USE DEF Bad
  <2>3. n \in Nat /\ n <= Limit[kind] /\ Ball[n] # Listed(n)
    BY <1>1, <2>2
  <2>4. n # 0
    BY <1>5, <2>3
  <2>5. n - 1 \in 0..Limit[kind] /\ n - 1 \in Nat /\ (n - 1) + 1 = n /\ n - 1 \notin Bad
    <3> HIDE DEF Bad
    <3>1. n - 1 \in Nat /\ ~(n <= n - 1)
      BY <2>3, <2>4
    <3> QED BY <3>1, <1>1, <2>2, <2>3
  <2>6. Ball[n - 1] = Listed(n - 1)
    BY <2>5
  <2>7. Ball[(n - 1) + 1] = Listed((n - 1) + 1)
    BY <1>6, <2>3, <2>5, <2>6
  <2> QED BY <2>3, <2>5, <2>7
<1>8. \A n \in 0..Limit[kind] : Ball[n] = Listed(n)
  BY <1>7
<1> QED BY <1>8

(***************************************************************************)
(* The steps.                                                              *)
(***************************************************************************)
\* The invariant holds initially.
LEMMA WalkInitial == ASSUME GraphInit PROVE WalkInv
<1>1. WalkTypeOK BY DEF GraphInit, WalkTypeOK
<1>2. EdgesReadable BY DEF GraphInit, EdgesReadable
<1>3. NothingDropped BY DEF GraphInit, NothingDropped
<1>4. NeverAnotherClient BY DEF GraphInit, NeverAnotherClient
<1>5. Hops BY DEF GraphInit, Hops
<1>6. BreadthFirst BY DEF GraphInit, BreadthFirst, Breadth
<1> QED BY <1>1, <1>2, <1>3, <1>4, <1>5, <1>6 DEF WalkInv

\* A walk begins with documents of one scope, all of them waiting.
LEMMA AskStep ==
  ASSUME NEW k \in Kind, NEW graph \in Graphs, NEW S \in SUBSET Key, NEW order \in Seq(S),
         Ask(k, graph, S, order),
         \A d \in S : \E i \in DOMAIN order : order[i] = d,
         \A d, e \in S : d.scope = e.scope
  PROVE  WalkInv'
<1>1. WalkTypeOK' BY DEF Ask, WalkTypeOK, Kind
<1>2. EdgesReadable' BY GraphsReadable DEF Ask, EdgesReadable
<1>3. NothingDropped' BY DEF Ask, NothingDropped, Waits
<1>4. NeverAnotherClient'
  <2>1. \A d \in S : d.scope \in Scope BY GraphAssumption
  <2>2. \A d, s \in S : d.scope \in MayRead(s.scope) BY <2>1, MayReadReflexive
  <2> QED BY <2>2 DEF Ask, NeverAnotherClient
<1>5. DOMAIN depth' = S /\ \A d \in S : depth'[d] = 0
  BY DEF Ask
<1>6. Hops' BY <1>5 DEF Ask, Hops
<1>7. BreadthFirst'
  <2>1. \A d \in S : Waits(d)' BY DEF Ask, Waits
  <2>2. todo' = order /\ \A i \in DOMAIN order : order[i] \in S BY DEF Ask
  <2>3. \A j \in DOMAIN order : Head(order) \in S BY <2>2
  <2> QED BY <1>5, <2>1, <2>2, <2>3 DEF BreadthFirst
<1> QED BY <1>1, <1>2, <1>3, <1>4, <1>6, <1>7 DEF WalkInv

\* A new document waits, and lies where the walk may go.
LEMMA VisitStep ==
  ASSUME WalkInv, NEW t \in Key, Visit(t) PROVE WalkInv'
<1> DEFINE h == Head(todo)
<1>1. todo # <<>> /\ h \in DOMAIN depth /\ h \in Key
  BY DEF WalkInv, WalkTypeOK, Visit
<1>2. t \in Follows(kind, h) /\ t \notin DOMAIN depth BY DEF Visit, Unseen
<1>3. /\ DOMAIN depth' = DOMAIN depth \cup {t}
      /\ \A d \in DOMAIN depth : depth'[d] = depth[d]
  BY <1>2 DEF Visit
<1>4. /\ todo' \in Seq(DOMAIN depth')
      /\ \E i \in DOMAIN todo' : todo'[i] = t
      /\ \A i \in DOMAIN todo : \E j \in DOMAIN todo' : todo'[j] = todo[i]
  <2>1. todo \in Seq(DOMAIN depth') /\ t \in DOMAIN depth'
    BY <1>3 DEF WalkInv, WalkTypeOK
  <2>2. CASE todo' = Append(todo, t)
    <3>1. todo' \in Seq(DOMAIN depth') BY <2>1, <2>2
    <3>2. Len(todo') = Len(todo) + 1 /\ todo'[Len(todo) + 1] = t BY <2>1, <2>2
    <3>3. \A i \in 1..Len(todo) : todo'[i] = todo[i] BY <2>1, <2>2
    <3> QED BY <2>1, <3>1, <3>2, <3>3
  <2>3. CASE todo' = <<t>> \o todo
    <3>1. todo' \in Seq(DOMAIN depth') BY <2>1, <2>3
    <3>2. Len(todo') = Len(todo) + 1 /\ todo'[1] = t BY <2>1, <2>3
    <3>3. \A i \in 1..Len(todo) : todo'[i + 1] = todo[i] BY <2>1, <2>3
    <3>4. /\ Len(todo) \in Nat
          /\ DOMAIN todo = 1..Len(todo) /\ DOMAIN todo' = 1..Len(todo')
      BY <2>1, <3>1
    <3>5. 1 \in DOMAIN todo' /\ \A i \in DOMAIN todo : i + 1 \in DOMAIN todo'
      BY <3>2, <3>4
    <3> QED BY <3>1, <3>2, <3>3, <3>4, <3>5
  <2> QED BY <2>2, <2>3 DEF Visit, Put
<1>5. WalkTypeOK' BY <1>3, <1>4 DEF WalkInv, WalkTypeOK, Visit
<1>6. EdgesReadable' BY DEF WalkInv, EdgesReadable, Visit
<1>7. NothingDropped'
  <2> SUFFICES ASSUME NEW d \in DOMAIN depth', MayExpand(d)',
                      ~(Follows(kind, d)' \subseteq DOMAIN depth')
               PROVE  Waits(d)'
    BY DEF NothingDropped
  <2>1. CASE d = t BY <2>1, <1>4 DEF Waits
  <2>2. CASE d \in DOMAIN depth
    <3>1. MayExpand(d) BY <2>2, <1>3 DEF MayExpand, Visit
    <3>2. ~(Follows(kind, d) \subseteq DOMAIN depth) BY <1>3, FollowsKept DEF Visit
    <3>3. Waits(d) BY <2>2, <3>1, <3>2 DEF WalkInv, NothingDropped
    <3> QED BY <3>3, <1>4 DEF Waits
  <2> QED BY <1>3, <2>1, <2>2
<1>8. NeverAnotherClient'
  <2>1. CASE kind = "why"
    <3>1. t \in Upstream(h) BY <1>2, <2>1, Zenon DEF Follows
    <3>2. t.scope \in MayRead(h.scope)
      BY <1>1, <3>1 DEF Upstream, Edge, WalkInv, EdgesReadable
    <3>3. \A s \in start : h.scope \in MayRead(s.scope)
      BY <1>1, <2>1 DEF WalkInv, NeverAnotherClient
    <3>4. \A s \in start : t.scope \in MayRead(s.scope)
      <4> TAKE s \in start
      <4>1. s.scope \in Scope /\ h.scope \in Scope /\ t.scope \in Scope
        BY <1>1, GraphAssumption DEF WalkInv, WalkTypeOK
      <4> QED BY <4>1, <3>2, <3>3, MayReadTransitive
    <3> QED BY <1>3, <2>1, <3>4 DEF NeverAnotherClient, WalkInv, Visit
  <2>2. CASE kind = "context"
    <3>1. t \in Context(h) BY <1>2, <2>2, Zenon DEF Follows
    <3>2. t.scope = h.scope BY <3>1 DEF Context
    <3> QED BY <1>1, <1>3, <2>2, <3>2 DEF NeverAnotherClient, WalkInv, Visit
  <2>3. CASE kind \notin {"why", "context"} BY <2>3 DEF NeverAnotherClient, Visit
  <2> QED BY <2>1, <2>2, <2>3
<1>9. depth'[t] = depth[h] + 1 /\ depth[h] < Limit[kind] /\ depth[h] \in Nat
  BY <1>1, <1>2 DEF Visit, MayExpand, WalkInv, Hops
<1>10. \A d : Follows(kind, d)' = Follows(kind, d)
  BY FollowsKept DEF Visit
<1>11. Hops'
  <2>1. kind \in Kind /\ Limit[kind] \in Nat
    BY <1>1, GraphAssumption DEF WalkInv, WalkTypeOK
  <2>2. start' = start /\ kind' = kind BY DEF Visit
  <2>3. start' \subseteq DOMAIN depth' BY <1>3, <2>2 DEF WalkInv, Hops
  <2>4. \A d \in DOMAIN depth' : depth'[d] \in Nat /\ (depth'[d] = 0 <=> d \in start)
    BY <1>2, <1>3, <1>9 DEF WalkInv, Hops
  <2>5. \A d \in DOMAIN depth' : depth'[d] = 0 \/ depth'[d] <= Limit[kind]
    BY <1>3, <1>9, <2>1 DEF WalkInv, Hops
  <2>6. \A d \in DOMAIN depth' \ start : \E e \in DOMAIN depth' :
          depth'[d] = depth'[e] + 1 /\ d \in Follows(kind, e)
    BY <1>1, <1>2, <1>3, <1>9 DEF WalkInv, Hops
  <2> QED BY <1>10, <2>2, <2>3, <2>4, <2>5, <2>6 DEF Hops
<1>12. BreadthFirst'
  <2> SUFFICES ASSUME kind \in Breadth PROVE BreadthFirst'
    BY DEF BreadthFirst, Visit
  <2> DEFINE n == Len(todo)
  <2>1. /\ n \in Nat \ {0} /\ Head(todo) = todo[1]
        /\ \A i \in 1..n : todo[i] \in DOMAIN depth
    BY <1>1 DEF WalkInv, WalkTypeOK
  <2>2. /\ DOMAIN todo = 1..n /\ DOMAIN todo' = 1..(n + 1)
        /\ todo'[n + 1] = t /\ \A i \in 1..n : todo'[i] = todo[i]
    BY DEF Visit, Put, WalkInv, WalkTypeOK
  <2>3. Head(todo') = h /\ todo' # <<>>
    BY <1>4, <2>1, <2>2
  <2>4. \A d \in DOMAIN depth : depth[d] \in Nat
    BY DEF WalkInv, Hops
  <2>5. /\ \A i, j \in 1..n : i <= j => depth[todo[i]] <= depth[todo[j]]
        /\ \A j \in 1..n : depth[todo[j]] <= depth[h] + 1
    BY <2>2 DEF WalkInv, BreadthFirst
  <2> HIDE DEF n, h
  <2>6. \A i \in 1..n : depth'[todo'[i]] = depth[todo[i]]
    BY <1>3, <2>1, <2>2
  <2>7. depth'[todo'[n + 1]] = depth[h] + 1
    BY <1>9, <2>2
  <2>8. \A i, j \in 1..(n + 1) : i <= j => depth'[todo'[i]] <= depth'[todo'[j]]
    <3> TAKE i, j \in 1..(n + 1)
    <3>1. CASE i \in 1..n /\ j \in 1..n BY <3>1, <2>5, <2>6
    <3>2. CASE i \in 1..n /\ j = n + 1 BY <3>2, <2>5, <2>6, <2>7
    <3>3. CASE i = n + 1
      <4>1. i <= j => j = n + 1 BY <3>3, <2>1
      <4> QED BY <3>3, <4>1, <2>7, <1>9
    <3> QED BY <3>1, <3>2, <3>3, <2>1
  <2>9. \A j \in 1..(n + 1) : depth'[todo'[j]] <= depth'[h] + 1
    <3> TAKE j \in 1..(n + 1)
    <3>1. depth'[h] = depth[h] BY <1>1, <1>3
    <3>2. CASE j \in 1..n BY <3>1, <3>2, <2>5, <2>6
    <3>3. CASE j = n + 1 BY <3>1, <3>3, <2>7, <1>9
    <3> QED BY <3>2, <3>3, <2>1
  <2>10. ASSUME NEW d \in DOMAIN depth', ~Waits(d)'
         PROVE  /\ depth'[d] <= depth'[h]
                /\ MayExpand(d)' => \A u \in Follows(kind, d) :
                     u \in DOMAIN depth' /\ depth'[u] <= depth'[d] + 1
    <3>1. d # t BY <2>10, <1>4 DEF Waits
    <3>2. d \in DOMAIN depth /\ ~Waits(d) BY <3>1, <2>10, <1>3, <1>4 DEF Waits
    <3>3. depth[d] <= depth[h] BY <3>2, <1>1 DEF WalkInv, BreadthFirst, h
    <3>4. MayExpand(d)' => MayExpand(d) BY <3>2, <1>3 DEF MayExpand, Visit
    <3>5. MayExpand(d) => \A u \in Follows(kind, d) : u \in DOMAIN depth /\ depth[u] <= depth[d] + 1
      BY <3>2 DEF WalkInv, BreadthFirst
    <3> QED BY <3>2, <3>3, <3>4, <3>5, <1>1, <1>3
  <2>11. kind' = kind BY DEF Visit
  <2>12. \A i, j \in DOMAIN todo' : i <= j => depth'[todo'[i]] <= depth'[todo'[j]]
    BY <2>2, <2>8
  <2>13. \A j \in DOMAIN todo' : depth'[todo'[j]] <= depth'[Head(todo')] + 1
    BY <2>2, <2>3, <2>9
  <2>14. \A d \in DOMAIN depth' : ~Waits(d)' =>
           /\ todo' # <<>> => depth'[d] <= depth'[Head(todo')]
           /\ MayExpand(d)' => \A u \in Follows(kind, d)' :
                u \in DOMAIN depth' /\ depth'[u] <= depth'[d] + 1
    BY <1>10, <2>3, <2>10
  <2> QED BY <2>12, <2>13, <2>14 DEF BreadthFirst
<1> QED BY <1>5, <1>6, <1>7, <1>8, <1>11, <1>12 DEF WalkInv

\* A document is left when all it leads to is seen.
LEMMA LeaveStep == ASSUME WalkInv, Leave PROVE WalkInv'
<1> DEFINE h == Head(todo)
<1>1. todo \in Seq(DOMAIN depth) /\ todo # <<>> BY DEF WalkInv, WalkTypeOK, Leave
<1>2. /\ todo' \in Seq(DOMAIN depth)
      /\ Len(todo') = Len(todo) - 1
      /\ \A i \in 2..Len(todo) : todo'[i - 1] = todo[i]
  BY <1>1 DEF Leave
<1>3. WalkTypeOK' BY <1>2 DEF WalkInv, WalkTypeOK, Leave
<1>4. EdgesReadable' BY DEF WalkInv, EdgesReadable, Leave
<1>5. NothingDropped'
  <2> SUFFICES ASSUME NEW d \in DOMAIN depth', MayExpand(d)',
                      ~(Follows(kind, d)' \subseteq DOMAIN depth')
               PROVE  Waits(d)'
    BY DEF NothingDropped
  <2>1. d \in DOMAIN depth /\ MayExpand(d) BY DEF MayExpand, Leave
  <2>2. ~(Follows(kind, d) \subseteq DOMAIN depth) BY FollowsKept DEF Leave
  <2>3. PICK i \in DOMAIN todo : todo[i] = d
    BY <2>1, <2>2 DEF WalkInv, NothingDropped, Waits
  <2>4. d # h BY <2>1, <2>2 DEF Leave, Unseen
  <2>5. i \in 2..Len(todo) BY <1>1, <2>3, <2>4
  <2>6. i - 1 \in DOMAIN todo' BY <1>1, <1>2, <2>5
  <2> QED BY <1>2, <2>3, <2>5, <2>6 DEF Waits
<1>6. NeverAnotherClient' BY DEF WalkInv, NeverAnotherClient, Leave
<1>7. \A d : Follows(kind, d)' = Follows(kind, d) BY FollowsKept DEF Leave
<1>8. Hops' BY <1>7 DEF WalkInv, Hops, Leave
<1>9. BreadthFirst'
  <2> SUFFICES ASSUME kind \in Breadth PROVE BreadthFirst'
    BY DEF BreadthFirst, Leave
  <2> DEFINE n == Len(todo)
  <2>1. /\ n \in Nat \ {0} /\ h = todo[1] /\ DOMAIN todo = 1..n
        /\ \A i \in 1..n : todo[i] \in DOMAIN depth
    BY <1>1
  <2>2. DOMAIN todo' = 1..(n - 1) /\ \A i \in 1..(n - 1) : todo'[i] = todo[i + 1]
    BY <1>1, <1>2
  <2>3. \A d \in DOMAIN depth : depth[d] \in Nat
    BY DEF WalkInv, Hops
  <2>4. /\ \A i, j \in 1..n : i <= j => depth[todo[i]] <= depth[todo[j]]
        /\ \A j \in 1..n : depth[todo[j]] <= depth[h] + 1
    BY <2>1 DEF WalkInv, BreadthFirst
  <2>5. \A d \in DOMAIN depth : ~Waits(d) =>
          /\ depth[d] <= depth[h]
          /\ MayExpand(d) => \A t \in Follows(kind, d) :
               t \in DOMAIN depth /\ depth[t] <= depth[d] + 1
    BY <1>1 DEF WalkInv, BreadthFirst
  <2>6. \A d \in DOMAIN depth : d # h /\ Waits(d) => Waits(d)'
    <3> TAKE d \in DOMAIN depth
    <3> HAVE d # h /\ Waits(d)
    <3>1. PICK i \in 1..n : todo[i] = d BY <2>1 DEF Waits
    <3>2. i - 1 \in 1..(n - 1) /\ (i - 1) + 1 = i BY <2>1, <3>1
    <3> QED BY <2>2, <3>1, <3>2 DEF Waits
  <2>7. todo' # <<>> => n > 1 /\ Head(todo') = todo[2] /\ 1 \in 1..n /\ 2 \in 1..n
    BY <1>2, <2>1, <2>2
  <2>8. h \in DOMAIN depth BY <2>1
  <2>9. MayExpand(h) => Follows(kind, h) \subseteq DOMAIN depth
    BY DEF Leave, Unseen
  <2>10. \A t \in DOMAIN depth : depth[t] <= depth[h] + 1
    <3> TAKE t \in DOMAIN depth
    <3>1. CASE Waits(t) BY <3>1, <2>1, <2>4 DEF Waits
    <3>2. CASE ~Waits(t) BY <3>2, <2>3, <2>5, <2>8
    <3> QED BY <3>1, <3>2
  <2> HIDE DEF n, h
  <2>11. depth' = depth /\ kind' = kind BY DEF Leave
  <2>12. \A i, j \in 1..(n - 1) : i <= j => depth[todo'[i]] <= depth[todo'[j]]
    <3> TAKE i, j \in 1..(n - 1)
    <3>1. i + 1 \in 1..n /\ j + 1 \in 1..n /\ (i <= j => i + 1 <= j + 1) BY <2>1
    <3> QED BY <2>2, <2>4, <3>1
  <2>13. \A j \in 1..(n - 1) : depth[todo'[j]] <= depth[Head(todo')] + 1
    <3> TAKE j \in 1..(n - 1)
    <3>1. j + 1 \in 1..n /\ todo'[j] = todo[j + 1] BY <2>1, <2>2
    <3>2. depth[todo[j + 1]] <= depth[h] + 1 BY <2>4, <3>1
    <3>3. todo' # <<>>
      <4>1. DOMAIN <<>> = {} OBVIOUS
      <4> QED BY <4>1, <2>2
    <3>4. depth[h] <= depth[todo[2]] BY <2>1, <2>4, <2>7, <3>3
    <3>5. todo[2] \in DOMAIN depth /\ todo[j + 1] \in DOMAIN depth BY <2>1, <2>7, <3>1, <3>3
    <3> QED BY <2>3, <2>7, <2>8, <3>1, <3>2, <3>3, <3>4, <3>5
  <2>14. ASSUME NEW d \in DOMAIN depth, ~Waits(d)'
         PROVE  /\ todo' # <<>> => depth[d] <= depth[Head(todo')]
                /\ MayExpand(d) => \A t \in Follows(kind, d) :
                     t \in DOMAIN depth /\ depth[t] <= depth[d] + 1
    <3>1. depth[d] <= depth[h] BY <2>3, <2>5, <2>6, <2>8, <2>14
    <3>2. todo' # <<>> => depth[h] <= depth[todo[2]] /\ todo[2] \in DOMAIN depth
      BY <2>1, <2>4, <2>7
    <3>3. todo' # <<>> => depth[d] <= depth[Head(todo')]
      BY <2>3, <2>7, <2>8, <3>1, <3>2
    <3>4. CASE d = h BY <3>3, <3>4, <2>9, <2>10
    <3>5. CASE d # h BY <3>3, <3>5, <2>5, <2>6, <2>14
    <3> QED BY <3>4, <3>5
  <2>15. \A d : MayExpand(d)' = MayExpand(d) BY <2>11 DEF MayExpand
  <2> QED BY <1>7, <2>2, <2>11, <2>12, <2>13, <2>14, <2>15 DEF BreadthFirst
<1> QED BY <1>3, <1>4, <1>5, <1>6, <1>8, <1>9 DEF WalkInv
\* The answer clears the state.
LEMMA ReplyStep == ASSUME WalkInv, Reply PROVE WalkInv'
<1>1. WalkTypeOK' BY DEF WalkTypeOK, Reply
<1>2. EdgesReadable' BY DEF EdgesReadable, Reply
<1>3. NothingDropped' BY DEF NothingDropped, Reply
<1>4. NeverAnotherClient' BY DEF NeverAnotherClient, Reply
<1>5. Hops' BY DEF Hops, Reply
<1>6. BreadthFirst' BY DEF BreadthFirst, Breadth, Reply
<1> QED BY <1>1, <1>2, <1>3, <1>4, <1>5, <1>6 DEF WalkInv

\* taskContext starts from documents of one project.
LEMMA AskContextStep ==
  ASSUME NEW graph \in Graphs, NEW p, NEW S \in SUBSET {d \in Key : d.scope = p},
         AskContext(graph, S)
  PROVE  WalkInv'
<1> DEFINE live == S \cap Live
<1>1. live \in SUBSET Key /\ \A d, e \in live : d.scope = e.scope OBVIOUS
<1>2. Cardinality(live) \in Nat
  BY <1>1, GraphAssumption, FS_Subset, FS_CardinalityType
<1>3. PICK order \in [1..Cardinality(live) -> live] :
        /\ \A d \in live : \E i \in DOMAIN order : order[i] = d
        /\ Ask("context", graph, live, order)
  BY DEF AskContext
<1> HIDE DEF live
<1>4. order \in Seq(live)
  <2>1. \E n \in Nat : order \in [1..n -> live] BY <1>2, <1>3
  <2>2. order \in UNION {[1..n -> live] : n \in Nat} BY <2>1
  <2> QED BY <2>2, SeqDef, Zenon
<1>5. "context" \in Kind BY DEF Kind
<1> QED BY <1>1, <1>3, <1>4, <1>5, AskStep

\* Every step keeps the invariant.
LEMMA WalkStep == ASSUME WalkInv, [GraphNext]_graphVars PROVE WalkInv'
<1>1. CASE UNCHANGED graphVars
  <2>1. WalkTypeOK' BY <1>1 DEF WalkInv, WalkTypeOK, graphVars
  <2>2. EdgesReadable' BY <1>1 DEF WalkInv, EdgesReadable, graphVars
  <2>3. NothingDropped'
    BY <1>1, FollowsKept DEF WalkInv, NothingDropped, Waits, MayExpand, graphVars
  <2>4. NeverAnotherClient' BY <1>1 DEF WalkInv, NeverAnotherClient, graphVars
  <2>5. \A d : Follows(kind, d)' = Follows(kind, d) BY <1>1, FollowsKept DEF graphVars
  <2>6. Hops' BY <1>1, <2>5 DEF WalkInv, Hops, graphVars
  <2>7. BreadthFirst'
    BY <1>1, <2>5 DEF WalkInv, BreadthFirst, Waits, MayExpand, graphVars
  <2> QED BY <2>1, <2>2, <2>3, <2>4, <2>6, <2>7 DEF WalkInv
<1>2. ASSUME NEW graph \in Graphs, NEW k \in Kind, NEW d \in Key, AskOne(k, graph, d)
      PROVE  WalkInv'
  <2>1. Ask(k, graph, {d}, <<d>>) BY <1>2 DEF AskOne
  <2>2. <<d>> \in Seq({d}) /\ \E i \in DOMAIN <<d>> : <<d>>[i] = d OBVIOUS
  <2>3. {d} \in SUBSET Key /\ \A e, f \in {d} : e.scope = f.scope OBVIOUS
  <2>4. \A e \in {d} : \E i \in DOMAIN <<d>> : <<d>>[i] = e BY <2>2
  <2> QED BY <2>1, <2>2, <2>3, <2>4, AskStep
<1>3. ASSUME NEW graph \in Graphs, NEW p, NEW S \in SUBSET {d \in Key : d.scope = p},
             AskContext(graph, S)
      PROVE  WalkInv'
  BY <1>3, AskContextStep
<1>4. ASSUME NEW t \in Key, Visit(t) PROVE WalkInv' BY <1>4, VisitStep
<1>5. CASE Leave BY <1>5, LeaveStep
<1>6. CASE Reply BY <1>6, ReplyStep
<1> QED BY <1>1, <1>2, <1>3, <1>4, <1>5, <1>6 DEF GraphNext

\* Along any chain of references nothing of another client or project is reached.
THEOREM ScopesKept == GraphSpec => []NeverAnotherClient
<1>1. GraphInit => WalkInv BY WalkInitial
<1>2. WalkInv /\ [GraphNext]_graphVars => WalkInv' BY WalkStep
<1>3. WalkInv => NeverAnotherClient BY DEF WalkInv
<1> QED BY <1>1, <1>2, <1>3, PTL DEF GraphSpec

\* A walk that ended has listed the neighbours of all it lists, up to its limit.
THEOREM WalkComplete == GraphSpec => []NothingSkipped
<1>1. GraphInit => WalkInv BY WalkInitial
<1>2. WalkInv /\ [GraphNext]_graphVars => WalkInv' BY WalkStep
<1>3. WalkInv => NothingSkipped
  BY DEF WalkInv, NothingDropped, NothingSkipped, Waits, Ended
<1> QED BY <1>1, <1>2, <1>3, PTL DEF GraphSpec

\* A breadth-first walk lists exactly the documents within its limit, each with
\* its distance from the start (impactOf, ExpandContext).
THEOREM DistancesRight == GraphSpec => []WithinLimit
<1>1. GraphInit => WalkInv BY WalkInitial
<1>2. WalkInv /\ [GraphNext]_graphVars => WalkInv' BY WalkStep
<1>3. WalkInv => WithinLimit
  <2> SUFFICES ASSUME WalkInv, Ended, kind \in Breadth
               PROVE  /\ DOMAIN depth = Ball[Limit[kind]]
                      /\ \A d \in DOMAIN depth : \A n \in 0..Limit[kind] :
                           d \in Ball[n] <=> depth[d] <= n
    BY DEF WithinLimit
  <2>1. Limit[kind] \in Nat
    BY GraphAssumption DEF Kind, Breadth
  <2>2. \A d \in DOMAIN depth : depth[d] <= Limit[kind]
    BY <2>1 DEF WalkInv, Hops
  <2> QED BY <2>1, <2>2, ListedBalls
<1> QED BY <1>1, <1>2, <1>3, PTL DEF GraphSpec
=============================================================================

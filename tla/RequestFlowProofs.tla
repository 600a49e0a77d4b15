--------------------------- MODULE RequestFlowProofs ---------------------------
(***************************************************************************)
(* Theorems about RequestFlow, for every set of loadable workflows and     *)
(* every bound.                                                            *)
(***************************************************************************)
EXTENDS RequestFlow, WellFoundedInduction, TLAPS

-----------------------------------------------------------------------------
(***************************************************************************)
(* The table of tasks.                                                     *)
(***************************************************************************)

\* Step i has tasks and all of them are completed.
Finished(tab, i) ==
  /\ \E t \in DOMAIN tab : tab[t].step = i
  /\ \A t \in DOMAIN tab : tab[t].step = i => tab[t].status = "COMPLETED"

\* Every task is in a step of wf whose predecessors are finished.
InOrder(wf, tab) ==
  \A t \in DOMAIN tab : /\ tab[t].step \in DOMAIN wf
                        /\ \A i \in 1..(tab[t].step - 1) : Finished(tab, i)

\* What is completed behind a gate was approved.
ApprovedDone(wf, tab) ==
  \A t \in DOMAIN tab :
    tab[t].status = "COMPLETED" /\ wf[tab[t].step].gate => tab[t].approved

\* A document or plan step has one task.
OneTask(wf, tab) ==
  \A t, u \in DOMAIN tab :
    tab[t].step = tab[u].step /\ wf[tab[t].step].kind \in {"document", "plan"} => t = u

\* A task waits for earlier ones of its own step only.
Linked(tab) ==
  \A t \in DOMAIN tab : \A d \in tab[t].deps : d \in 1..(t - 1) /\ tab[d].step = tab[t].step

Table(wf, tab) ==
  /\ tab \in Seq(TaskRow)
  /\ InOrder(wf, tab) /\ ApprovedDone(wf, tab) /\ OneTask(wf, tab) /\ Linked(tab)

\* What a row of the task table is made of.
LEMMA Rows ==
  ASSUME NEW tab \in Seq(TaskRow)
  PROVE  /\ Len(tab) \in Nat /\ DOMAIN tab = 1..Len(tab)
         /\ \A t \in DOMAIN tab : /\ tab[t] \in TaskRow /\ tab[t].step \in Nat
                                  /\ tab[t].status \in TaskStatus
                                  /\ tab[t].approved \in BOOLEAN
<1>1. /\ Len(tab) \in Nat /\ DOMAIN tab = 1..Len(tab)
      /\ \A t \in DOMAIN tab : tab[t] \in TaskRow
  OBVIOUS
<1> QED BY <1>1 DEF TaskRow

\* stepStatus, by what it says of the tasks.
LEMMA StepStatusIs ==
  ASSUME NEW tab \in Seq(TaskRow), NEW i
  PROVE  /\ StepStatus(tab, i) = "completed" <=> Finished(tab, i)
         /\ StepStatus(tab, i) = "not_started" <=> \A t \in DOMAIN tab : tab[t].step # i
         /\ StepStatus(tab, i) \in {"in_progress", "not_started"} =>
              \A t \in DOMAIN tab : tab[t].step = i => tab[t].status # "CANCELLED"
<1> DEFINE S == {tab[t].status : t \in TasksOf(tab, i)}
<1>1. \A t \in DOMAIN tab : tab[t].step = i => tab[t].status \in S
  BY DEF TasksOf
<1>2. \A s \in S : \E t \in DOMAIN tab : tab[t].step = i /\ tab[t].status = s
  BY DEF TasksOf
<1>3. /\ S = {} => StepStatus(tab, i) = "not_started"
      /\ "CANCELLED" \in S => StepStatus(tab, i) = "cancelled"
      /\ S = {"COMPLETED"} => StepStatus(tab, i) = "completed"
      /\ S # {} /\ "CANCELLED" \notin S /\ S # {"COMPLETED"} => StepStatus(tab, i) = "in_progress"
  <2>1. CASE S = {}
    BY <2>1, Zenon DEF StepStatus
  <2>2. CASE S # {} /\ "CANCELLED" \in S
    BY <2>2, Zenon DEF StepStatus
  <2>3. CASE S # {} /\ "CANCELLED" \notin S /\ S = {"COMPLETED"}
    BY <2>3, Zenon DEF StepStatus
  <2>4. CASE S # {} /\ "CANCELLED" \notin S /\ S # {"COMPLETED"}
    BY <2>4, Zenon DEF StepStatus
  <2> QED BY <2>1, <2>2, <2>3, <2>4
<1> HIDE DEF S
<1>4. S = {} <=> \A t \in DOMAIN tab : tab[t].step # i
  BY <1>1, <1>2 DEF S
<1>5. S = {"COMPLETED"} <=> Finished(tab, i)
  BY <1>1, <1>2 DEF Finished
<1> QED BY <1>1, <1>2, <1>3, <1>4, <1>5

\* A step with an open task is the last one that has tasks.
LEMMA LastStep ==
  ASSUME NEW wf \in Seq(Step), NEW tab, Table(wf, tab),
         NEW t \in DOMAIN tab, tab[t].status # "COMPLETED"
  PROVE  \A u \in DOMAIN tab : tab[u].step <= tab[t].step
<1>1. \A u \in DOMAIN tab : tab[u].step \in Nat /\ tab[u].step >= 1
  BY Rows DEF Table, InOrder
<1>2. ASSUME NEW u \in DOMAIN tab, tab[u].step > tab[t].step
      PROVE  FALSE
  <2>1. Finished(tab, tab[t].step)
    BY <1>1, <1>2 DEF Table, InOrder
  <2> QED BY <2>1 DEF Finished
<1> QED BY <1>1, <1>2

\* Rows may be rewritten as long as they keep their step, a completed one
\* stays as it is, and one completed behind a gate is approved.
LEMMA Rewritten ==
  ASSUME NEW wf, NEW tab, Table(wf, tab),
         NEW tab2 \in Seq(TaskRow), DOMAIN tab2 = DOMAIN tab,
         \A t \in DOMAIN tab :
           /\ tab2[t].step = tab[t].step /\ tab2[t].deps = tab[t].deps
           /\ \/ tab2[t] = tab[t]
              \/ /\ tab[t].status # "COMPLETED"
                 /\ tab2[t].status = "COMPLETED" /\ wf[tab[t].step].gate => tab2[t].approved
  PROVE  /\ Table(wf, tab2)
         /\ \A i : Finished(tab, i) => Finished(tab2, i)
<1>1. \A i : Finished(tab, i) => Finished(tab2, i)
  BY DEF Finished
<1>2. InOrder(wf, tab2)
  BY <1>1 DEF Table, InOrder
<1>3. ApprovedDone(wf, tab2)
  BY DEF Table, ApprovedDone
<1>4. OneTask(wf, tab2)
  BY DEF Table, OneTask
<1>5. Linked(tab2)
  <2> SUFFICES ASSUME NEW t \in DOMAIN tab, NEW d \in tab[t].deps
               PROVE  d \in 1..(t - 1) /\ tab2[d].step = tab2[t].step
    BY DEF Linked
  <2>1. d \in 1..(t - 1) /\ tab[d].step = tab[t].step
    BY DEF Table, Linked
  <2>2. d \in DOMAIN tab
    BY <2>1 DEF Table
  <2> QED BY <2>1, <2>2
<1> QED BY <1>1, <1>2, <1>3, <1>4, <1>5 DEF Table

\* As long as none of them is or becomes completed, the finished steps stay.
LEMMA SameFinished ==
  ASSUME NEW tab \in Seq(TaskRow), NEW tab2 \in Seq(TaskRow), DOMAIN tab2 = DOMAIN tab,
         \A t \in DOMAIN tab :
           /\ tab2[t].step = tab[t].step
           /\ tab2[t].status = "COMPLETED" <=> tab[t].status = "COMPLETED"
  PROVE  \A i : Finished(tab2, i) <=> Finished(tab, i)
BY DEF Finished

\* New tasks may be appended to a step after all the others, once every step
\* before it is finished.
LEMMA Appended ==
  ASSUME NEW wf \in Seq(Step), NEW tab, Table(wf, tab),
         NEW i \in DOMAIN wf, NEW new \in Seq(TaskRow), new # <<>>,
         \A k \in DOMAIN new :
           /\ new[k].step = i /\ new[k].status = "PENDING"
           /\ \A d \in new[k].deps : d \in (Len(tab) + 1)..(Len(tab) + k - 1),
         wf[i].kind \in {"document", "plan"} => Len(new) = 1,
         \A j \in 1..(i - 1) : Finished(tab, j),
         \A t \in DOMAIN tab : tab[t].step < i
  PROVE  /\ Table(wf, tab \o new)
         /\ \A j \in 1..(i - 1) : Finished(tab \o new, j)
         /\ ~Finished(tab \o new, i)
<1> DEFINE both == tab \o new
<1>1. /\ both \in Seq(TaskRow) /\ tab \in Seq(TaskRow)
      /\ Len(tab) \in Nat /\ Len(new) \in Nat /\ Len(new) > 0
      /\ DOMAIN tab = 1..Len(tab) /\ DOMAIN new = 1..Len(new)
      /\ DOMAIN both = 1..(Len(tab) + Len(new))
      /\ i \in Nat
  BY DEF Table
<1>2. \A t \in DOMAIN tab : t \in DOMAIN both /\ both[t] = tab[t]
  BY <1>1
<1>3. \A t \in DOMAIN both \ DOMAIN tab :
        /\ t - Len(tab) \in DOMAIN new
        /\ both[t] = new[t - Len(tab)]
        /\ both[t].step = i /\ both[t].status = "PENDING"
  BY <1>1
<1>4. Len(tab) + 1 \in DOMAIN both \ DOMAIN tab
  BY <1>1
<1> HIDE DEF both
<1>5. \A j \in 1..(i - 1) : Finished(both, j)
  <2> TAKE j \in 1..(i - 1)
  <2>1. Finished(tab, j) /\ j # i
    BY <1>1
  <2>2. \A t \in DOMAIN both : both[t].step = j => t \in DOMAIN tab
    BY <1>3, <2>1
  <2> QED BY <2>1, <2>2, <1>2 DEF Finished
<1>6. ~Finished(both, i)
  BY <1>3, <1>4 DEF Finished
<1>7. InOrder(wf, both)
  <2>1. ASSUME NEW t \in DOMAIN tab
        PROVE  /\ both[t].step \in DOMAIN wf
               /\ \A j \in 1..(both[t].step - 1) : Finished(both, j)
    <3>1. both[t] = tab[t] /\ tab[t].step \in DOMAIN wf /\ tab[t].step < i /\ tab[t].step \in Nat
      BY <1>1, <1>2, Rows DEF Table, InOrder
    <3> QED BY <3>1, <1>1, <1>5
  <2>2. ASSUME NEW t \in DOMAIN both \ DOMAIN tab
        PROVE  /\ both[t].step \in DOMAIN wf
               /\ \A j \in 1..(both[t].step - 1) : Finished(both, j)
    BY <1>3, <1>5
  <2> QED BY <2>1, <2>2 DEF InOrder
<1>8. ApprovedDone(wf, both)
  BY <1>2, <1>3 DEF Table, ApprovedDone
<1>9. OneTask(wf, both)
  <2> SUFFICES ASSUME NEW t \in DOMAIN both, NEW u \in DOMAIN both,
                      both[t].step = both[u].step,
                      wf[both[t].step].kind \in {"document", "plan"}
               PROVE  t = u
    BY DEF OneTask
  <2>1. CASE t \in DOMAIN tab /\ u \in DOMAIN tab
    BY <2>1, <1>2 DEF Table, OneTask
  <2>2. CASE t \notin DOMAIN tab /\ u \notin DOMAIN tab
    <3>1. Len(new) = 1
      BY <2>2, <1>3
    <3> QED BY <3>1, <2>2, <1>1
  <2>3. \A v \in DOMAIN tab : both[v].step # i
    <3> TAKE v \in DOMAIN tab
    <3>1. both[v] = tab[v] /\ tab[v].step < i /\ tab[v].step \in Nat
      BY <1>1, <1>2, Rows
    <3> QED BY <3>1, <1>1
  <2> QED BY <2>1, <2>2, <2>3, <1>3
<1>10. Linked(both)
  <2> SUFFICES ASSUME NEW t \in DOMAIN both, NEW d \in both[t].deps
               PROVE  d \in 1..(t - 1) /\ both[d].step = both[t].step
    BY DEF Linked
  <2>1. CASE t \in DOMAIN tab
    <3>1. d \in 1..(t - 1) /\ tab[d].step = tab[t].step
      BY <2>1, <1>2 DEF Table, Linked
    <3>2. d \in DOMAIN tab
      BY <3>1, <2>1, <1>1
    <3> QED BY <3>1, <3>2, <2>1, <1>2
  <2>2. CASE t \notin DOMAIN tab
    <3>1. t - Len(tab) \in DOMAIN new /\ both[t] = new[t - Len(tab)] /\ both[t].step = i
      BY <2>2, <1>3
    <3>2. d \in (Len(tab) + 1)..(Len(tab) + (t - Len(tab)) - 1)
      BY <3>1
    <3>3. d \in 1..(t - 1) /\ d \in DOMAIN both \ DOMAIN tab
      BY <3>2, <1>1
    <3> QED BY <3>1, <3>3, <1>3
  <2> QED BY <2>1, <2>2
<1> QED BY <1>1, <1>5, <1>6, <1>7, <1>8, <1>9, <1>10 DEF Table, both

-----------------------------------------------------------------------------
(***************************************************************************)
(* Folds over 1..n.                                                        *)
(***************************************************************************)

\* The least-number principle for sets, which is what induction needs.
LEMMA LeastNat ==
  ASSUME NEW T, T \subseteq Nat, T # {}
  PROVE  \E x \in T : \A y \in T : x <= y
<1> DEFINE R == OpToRel(<, Nat)
<1>1. IsWellFoundedOn(R, Nat)
  BY NatLessThanWellFounded, Zenon
<1>2. \A x, y \in Nat : y < x => <<y, x>> \in R
  BY DEF OpToRel
<1> HIDE DEF R
<1>3. PICK x \in T : \A y \in T : ~(<<y, x>> \in R)
  BY <1>1, WFMin
<1>4. ASSUME NEW y \in T PROVE x <= y
  <2>1. x \in Nat /\ y \in Nat /\ ~(y < x)
    BY <1>2, <1>3, Zenon
  <2> QED BY <2>1
<1> QED BY <1>4

\* A set of numbers up to n has a largest one.
LEMMA MaxIs ==
  ASSUME NEW n \in Nat, NEW s, s \subseteq 1..n, s # {}
  PROVE  Max(s) \in s /\ Max(s) \in 1..n /\ \A y \in s : Max(s) >= y
<1> DEFINE T == {n - x : x \in s}
<1>1. T \subseteq Nat /\ T # {}
  OBVIOUS
<1>2. PICK m \in T : \A y \in T : m <= y
  BY <1>1, LeastNat
<1>3. PICK x \in s : m = n - x
  BY <1>2
<1>4. ASSUME NEW y \in s PROVE x >= y
  <2>1. n - y \in T
    OBVIOUS
  <2>2. m <= n - y
    BY <2>1, <1>2
  <2> QED BY <2>2, <1>3
<1>5. \E z \in s : \A y \in s : z >= y
  BY <1>4
<1>6. Max(s) \in s /\ \A y \in s : Max(s) >= y
  BY <1>5, Zenon DEF Max
<1> QED BY <1>6

\* What a fold of op over 1..n, from base, has made of the numbers in s.
FoldRun(g, op, base, n) ==
  \A s \in SUBSET (1..n) : g[s] = IF s = {} THEN base ELSE op[<<g[s \ {Max(s)}], Max(s)>>]

\* Some function meets the equation of a fold.
LEMMA FoldExists ==
  ASSUME NEW n \in Nat, NEW V, NEW base \in V, NEW op \in [V \X (1..n) -> V]
  PROVE  \E g \in [SUBSET (1..n) -> V] : FoldRun(g, op, base, n)
<1> DEFINE Has(m) == \E g \in [SUBSET (1..m) -> V] : FoldRun(g, op, base, m)
           T == {m \in 0..n : ~Has(m)}
<1> SUFFICES ASSUME T # {} PROVE FALSE
  <2>1. n \in 0..n
    OBVIOUS
  <2> HIDE DEF Has
  <2>2. n \notin T => Has(n)
    BY <2>1
  <2> QED BY <2>2 DEF Has
<1>1. T \subseteq Nat
  OBVIOUS
<1>2. PICK m \in T : \A y \in T : m <= y
  BY <1>1, LeastNat, Zenon
<1>3. m \in 0..n /\ ~Has(m)
  BY <1>2
<1>4. CASE m = 0
  <2>1. SUBSET (1..m) = {{}}
    BY <1>4
  <2>2. FoldRun([s \in SUBSET (1..m) |-> base], op, base, m)
    BY <2>1 DEF FoldRun
  <2> QED BY <2>2, <1>3
<1>5. CASE m # 0
  <2>1. m \in Nat /\ m - 1 \in 0..n /\ m - 1 \in Nat /\ m \in 1..n
    BY <1>3, <1>5
  <2>2. Has(m - 1)
    <3> HIDE DEF T
    <3>1. m - 1 \notin T
      BY <2>1, <1>2
    <3> QED BY <3>1, <2>1 DEF T
  <2>3. PICK g \in [SUBSET (1..(m - 1)) -> V] : FoldRun(g, op, base, m - 1)
    BY <2>2
  <2> DEFINE val(s) == IF m \in s THEN op[<<g[s \ {m}], m>>] ELSE g[s]
             h == [s \in SUBSET (1..m) |-> val(s)]
  <2>4. ASSUME NEW s \in SUBSET (1..m), m \notin s
        PROVE  s \in SUBSET (1..(m - 1)) /\ h[s] = g[s]
    BY <2>1, <2>4
  <2>5. ASSUME NEW s \in SUBSET (1..m), m \in s
        PROVE  /\ s \ {m} \in SUBSET (1..(m - 1)) /\ m \notin s \ {m} /\ s # {}
               /\ h[s] = op[<<g[s \ {m}], m>>] /\ Max(s) = m
    <3>1. Max(s) \in s /\ Max(s) \in 1..m /\ Max(s) >= m
      BY <2>1, <2>5, MaxIs
    <3> QED BY <3>1, <2>1, <2>5
  <2>6. h \in [SUBSET (1..m) -> V]
    <3>1. ASSUME NEW s \in SUBSET (1..m) PROVE val(s) \in V
      BY <2>1, <2>4, <2>5
    <3> HIDE DEF val
    <3> QED BY <3>1
  <2> HIDE DEF h, val
  <2>7. FoldRun(h, op, base, m)
    <3> SUFFICES ASSUME NEW s \in SUBSET (1..m)
                 PROVE  h[s] = IF s = {} THEN base ELSE op[<<h[s \ {Max(s)}], Max(s)>>]
      BY DEF FoldRun
    <3>1. CASE m \in s
      <4>1. s \ {m} \in SUBSET (1..m)
        OBVIOUS
      <4>2. h[s \ {m}] = g[s \ {m}]
        BY <4>1, <2>4
      <4> QED BY <4>2, <3>1, <2>5
    <3>2. CASE m \notin s /\ s # {}
      <4>1. s \in SUBSET (1..(m - 1)) /\ h[s] = g[s]
        BY <3>2, <2>4
      <4>2. g[s] = op[<<g[s \ {Max(s)}], Max(s)>>]
        BY <4>1, <3>2, <2>3 DEF FoldRun
      <4>3. s \ {Max(s)} \in SUBSET (1..m) /\ m \notin s \ {Max(s)}
        BY <3>2
      <4>4. h[s \ {Max(s)}] = g[s \ {Max(s)}]
        BY <4>3, <2>4
      <4> QED BY <4>1, <4>2, <4>4, <3>2
    <3>3. CASE s = {}
      <4>1. {} \in SUBSET (1..(m - 1)) /\ h[{}] = g[{}]
        BY <2>4
      <4>2. g[{}] = base
        BY <4>1, <2>3 DEF FoldRun
      <4> QED BY <4>1, <4>2, <3>3
    <3> QED BY <3>1, <3>2, <3>3
  <2> QED BY <2>6, <2>7, <1>3
<1> QED BY <1>4, <1>5

\* A fold whose step stays in V ends in V.
LEMMA FoldStays ==
  ASSUME NEW n \in Nat, NEW V, NEW base \in V, NEW g, g[{}] = base,
         \A s \in SUBSET (1..n) : s # {} /\ g[s \ {Max(s)}] \in V => g[s] \in V
  PROVE  g[1..n] \in V
<1> DEFINE T == {m \in 0..n : g[1..m] \notin V}
<1> SUFFICES ASSUME T # {} PROVE FALSE
  OBVIOUS
<1>1. T \subseteq Nat
  OBVIOUS
<1>2. PICK m \in T : \A y \in T : m <= y
  BY <1>1, LeastNat, Zenon
<1>3. m \in 0..n /\ g[1..m] \notin V
  BY <1>2
<1>4. m # 0
  <2>1. ASSUME m = 0 PROVE 1..m = {}
    BY <2>1
  <2> QED BY <2>1, <1>3
<1>5. m - 1 \in 0..n /\ m \in 1..m
  BY <1>3, <1>4
<1>6. g[1..(m - 1)] \in V
  <2> HIDE DEF T
  <2>1. m - 1 \notin T
    BY <1>2, <1>3
  <2> QED BY <2>1, <1>5 DEF T
<1>7. Max(1..m) = m /\ 1..m # {}
  <2> DEFINE s == 1..m
  <2>2. m \in Nat /\ s \subseteq 1..m /\ s # {} /\ m \in s
    BY <1>3, <1>5
  <2> HIDE DEF s
  <2>3. Max(s) \in 1..m /\ Max(s) >= m
    BY <2>2, MaxIs
  <2>1. Max(1..m) \in 1..m /\ Max(1..m) >= m
    BY <2>3 DEF s
  <2> QED BY <2>1, <1>3, <1>5
<1>8. (1..m) \ {Max(1..m)} = 1..(m - 1)
  BY <1>3, <1>7
<1>9. 1..m \in SUBSET (1..n)
  BY <1>3
<1> QED BY <1>3, <1>6, <1>7, <1>8, <1>9

-----------------------------------------------------------------------------
(***************************************************************************)
(* What ParsePlan makes of a plan.                                         *)
(***************************************************************************)

\* A list of items without repetitions, each after the ones it depends on.
Sorted(D) ==
  {o \in Seq(DOMAIN D) : \A k \in DOMAIN o :
     /\ \A j \in 1..(k - 1) : o[j] # o[k]
     /\ D[o[k]] \subseteq {o[j] : j \in 1..(k - 1)}}

\* One item, as Pass treats it.
Place(D, acc, k) ==
  IF k \notin ToSet(acc) /\ D[k] \subseteq ToSet(acc) THEN Append(acc, k) ELSE acc

\* Placing an item whose dependencies are placed keeps the order.
LEMMA PlaceSorted ==
  ASSUME NEW D, NEW acc \in Sorted(D), NEW k \in DOMAIN D
  PROVE  Place(D, acc, k) \in Sorted(D)
<1>1. /\ acc \in Seq(DOMAIN D) /\ Len(acc) \in Nat /\ DOMAIN acc = 1..Len(acc)
      /\ ToSet(acc) = {acc[j] : j \in 1..Len(acc)}
  BY DEF Sorted, ToSet
<1>2. CASE k \notin ToSet(acc) /\ D[k] \subseteq ToSet(acc)
  <2> DEFINE o == Append(acc, k)
  <2>1. /\ o \in Seq(DOMAIN D) /\ DOMAIN o = 1..(Len(acc) + 1)
        /\ \A j \in 1..Len(acc) : o[j] = acc[j]
        /\ o[Len(acc) + 1] = k
    BY <1>1
  <2> HIDE DEF o
  <2>2. ASSUME NEW i \in DOMAIN o
        PROVE  /\ \A j \in 1..(i - 1) : o[j] # o[i]
               /\ D[o[i]] \subseteq {o[j] : j \in 1..(i - 1)}
    <3>1. \A j \in 1..(i - 1) : j \in 1..Len(acc) /\ o[j] = acc[j]
      BY <1>1, <2>1
    <3>2. {o[j] : j \in 1..(i - 1)} = {acc[j] : j \in 1..(i - 1)}
      BY <3>1
    <3>3. CASE i \in 1..Len(acc)
      <4>1. o[i] = acc[i] /\ i \in DOMAIN acc
        BY <1>1, <2>1, <3>3
      <4> QED BY <4>1, <3>1, <3>2 DEF Sorted
    <3>4. CASE i = Len(acc) + 1
      <4>1. o[i] = k /\ i - 1 = Len(acc)
        BY <1>1, <2>1, <3>4
      <4> QED BY <4>1, <3>1, <3>2, <1>1, <1>2
    <3> QED BY <3>3, <3>4, <2>1, <1>1
  <2> QED BY <2>1, <2>2, <1>2 DEF Sorted, Place, o
<1>3. CASE ~(k \notin ToSet(acc) /\ D[k] \subseteq ToSet(acc))
  BY <1>3 DEF Place
<1> QED BY <1>2, <1>3

\* One pass over the items keeps the order.
LEMMA PassSorted ==
  ASSUME NEW m \in Nat, NEW D, DOMAIN D = 1..m, NEW ordered \in Sorted(D)
  PROVE  Pass(D, ordered) \in Sorted(D)
<1> DEFINE items == [k \in DOMAIN D |-> k]
           Iter(g) == [s \in SUBSET DOMAIN items |->
             IF s = {} THEN ordered ELSE Place(D, g[s \ {Max(s)}], items[Max(s)])]
           op == [p \in Sorted(D) \X (1..m) |-> Place(D, p[1], p[2])]
           run == CHOOSE g : g = Iter(g)
<1>1. Pass(D, ordered) = run[DOMAIN items]
  BY Zenon DEF Pass, FoldLeft, MapThenFoldSet, Place
<1>2. DOMAIN items = 1..m /\ \A k \in 1..m : items[k] = k
  OBVIOUS
<1>3. \A acc \in Sorted(D), k \in 1..m : op[<<acc, k>>] = Place(D, acc, k)
  OBVIOUS
<1>4. op \in [Sorted(D) \X (1..m) -> Sorted(D)]
  BY PlaceSorted
<1> HIDE DEF items, op
<1>5. PICK g \in [SUBSET (1..m) -> Sorted(D)] : FoldRun(g, op, ordered, m)
  BY <1>4, FoldExists
<1>6. ASSUME NEW s \in SUBSET (1..m), s # {}
      PROVE  /\ Max(s) \in 1..m /\ items[Max(s)] = Max(s)
             /\ s \ {Max(s)} \in SUBSET (1..m)
  BY <1>2, <1>6, MaxIs
<1>7. g = Iter(g)
  <2>1. ASSUME NEW s \in SUBSET (1..m)
        PROVE  g[s] = IF s = {} THEN ordered ELSE Place(D, g[s \ {Max(s)}], items[Max(s)])
    <3>1. CASE s = {}
      BY <3>1, <1>5 DEF FoldRun
    <3>2. CASE s # {}
      <4>1. g[s] = op[<<g[s \ {Max(s)}], Max(s)>>]
        BY <3>2, <1>5 DEF FoldRun
      <4>2. Max(s) \in 1..m /\ items[Max(s)] = Max(s) /\ g[s \ {Max(s)}] \in Sorted(D)
        BY <3>2, <1>6
      <4> QED BY <4>1, <4>2, <3>2, <1>3
    <3> QED BY <3>1, <3>2
  <2> QED BY <2>1, <1>2
<1>8. run = Iter(run)
  <2> HIDE DEF Iter
  <2> QED BY <1>7, Zenon
<1> HIDE DEF run
<1>9. \A s \in SUBSET (1..m) :
        run[s] = IF s = {} THEN ordered ELSE Place(D, run[s \ {Max(s)}], items[Max(s)])
  BY <1>8, <1>2
<1>10. run[{}] = ordered
  BY <1>9
<1>11. ASSUME NEW s \in SUBSET (1..m), s # {}, run[s \ {Max(s)}] \in Sorted(D)
       PROVE  run[s] \in Sorted(D)
  <2>1. run[s] = Place(D, run[s \ {Max(s)}], items[Max(s)])
    BY <1>9, <1>11
  <2>2. Max(s) \in DOMAIN D /\ items[Max(s)] = Max(s)
    BY <1>6, <1>11
  <2> QED BY <2>1, <2>2, <1>11, PlaceSorted
<1>12. run[1..m] \in Sorted(D)
  BY <1>10, <1>11, FoldStays
<1> QED BY <1>1, <1>2, <1>12

\* The passes together end in an order.
LEMMA OrderedSorted ==
  ASSUME NEW m \in Nat, NEW D, DOMAIN D = 1..m
  PROVE  Ordered(D) \in Sorted(D)
<1> DEFINE base == <<>>
           Iter(g) == [s \in SUBSET DOMAIN D |->
             IF s = {} THEN base ELSE Pass(D, g[s \ {Max(s)}])]
           op == [p \in Sorted(D) \X (1..m) |-> Pass(D, p[1])]
           run == CHOOSE g : g = Iter(g)
<1>1. Ordered(D) = run[DOMAIN D]
  BY Zenon DEF Ordered, FoldLeft, MapThenFoldSet
<1>2. base \in Sorted(D)
  BY DEF Sorted
<1>3. \A acc \in Sorted(D), k \in 1..m : op[<<acc, k>>] = Pass(D, acc)
  OBVIOUS
<1>4. op \in [Sorted(D) \X (1..m) -> Sorted(D)]
  BY PassSorted
<1> HIDE DEF base, op
<1>5. PICK g \in [SUBSET (1..m) -> Sorted(D)] : FoldRun(g, op, base, m)
  BY <1>2, <1>4, FoldExists
<1>6. ASSUME NEW s \in SUBSET (1..m), s # {}
      PROVE  Max(s) \in 1..m /\ s \ {Max(s)} \in SUBSET (1..m)
  BY <1>6, MaxIs
<1>7. g = Iter(g)
  <2>1. ASSUME NEW s \in SUBSET (1..m)
        PROVE  g[s] = IF s = {} THEN base ELSE Pass(D, g[s \ {Max(s)}])
    <3>1. CASE s = {}
      BY <3>1, <1>5 DEF FoldRun
    <3>2. CASE s # {}
      <4>1. g[s] = op[<<g[s \ {Max(s)}], Max(s)>>]
        BY <3>2, <1>5 DEF FoldRun
      <4>2. Max(s) \in 1..m /\ g[s \ {Max(s)}] \in Sorted(D)
        BY <3>2, <1>6
      <4> QED BY <4>1, <4>2, <3>2, <1>3
    <3> QED BY <3>1, <3>2
  <2> QED BY <2>1
<1>8. run = Iter(run)
  <2> HIDE DEF Iter
  <2> QED BY <1>7, Zenon
<1> HIDE DEF run
<1>9. \A s \in SUBSET (1..m) : run[s] = IF s = {} THEN base ELSE Pass(D, run[s \ {Max(s)}])
  BY <1>8
<1>10. run[{}] = base
  BY <1>9
<1>11. ASSUME NEW s \in SUBSET (1..m), s # {}, run[s \ {Max(s)}] \in Sorted(D)
       PROVE  run[s] \in Sorted(D)
  <2>1. run[s] = Pass(D, run[s \ {Max(s)}])
    BY <1>9, <1>11, Zenon
  <2>2. Pass(D, run[s \ {Max(s)}]) \in Sorted(D)
    <3> DEFINE last == run[s \ {Max(s)}]
    <3>1. last \in Sorted(D)
      BY <1>11
    <3> HIDE DEF last
    <3>2. Pass(D, last) \in Sorted(D)
      BY <3>1, PassSorted
    <3> QED BY <3>2 DEF last
  <2> QED BY <2>1, <2>2
<1>12. run[1..m] \in Sorted(D)
  BY <1>2, <1>10, <1>11, FoldStays
<1> QED BY <1>1, <1>12

\* In a plan's order an item comes after the ones it depends on.
LEMMA PlanOrder ==
  ASSUME NEW D \in Plans
  PROVE  /\ \E m \in 1..MaxItems : DOMAIN D = 1..m
         /\ \A k, q \in DOMAIN D : Ordered(D)[q] \in D[Ordered(D)[k]] => q < k
<1>1. PICK m \in 1..MaxItems : D \in [1..m -> SUBSET (1..m)] /\ Len(Ordered(D)) = Len(D)
  BY DEF Plans
<1>2. m \in Nat /\ DOMAIN D = 1..m /\ Len(D) = m
  BY <1>1, FlowBoundAssumption
<1>3. PICK o : o = Ordered(D)
  OBVIOUS
<1>4. o \in Sorted(D) /\ DOMAIN o = 1..m
  <2>1. o \in Sorted(D)
    BY <1>2, <1>3, OrderedSorted
  <2>2. o \in Seq(DOMAIN D)
    BY <2>1 DEF Sorted
  <2>3. Len(o) = m
    BY <1>1, <1>2, <1>3
  <2> QED BY <2>1, <2>2, <2>3
<1>5. ASSUME NEW k \in 1..m, NEW q \in 1..m, o[q] \in D[o[k]]
      PROVE  q < k
  <2>1. PICK j \in 1..(k - 1) : o[j] = o[q]
    BY <1>4, <1>5 DEF Sorted
  <2>2. j = q
    <3>1. j \in 1..m /\ j \in Nat /\ q \in Nat
      BY <1>2
    <3>2. ~(j \in 1..(q - 1)) /\ ~(q \in 1..(j - 1))
      BY <1>4, <2>1, <3>1 DEF Sorted
    <3> QED BY <3>1, <3>2
  <2> QED BY <2>1, <2>2, <1>2
<1> QED BY <1>1, <1>2, <1>3, <1>5

-----------------------------------------------------------------------------
(***************************************************************************)
(* The rows that startStep and createPlanTasks insert.                     *)
(***************************************************************************)

\* Rows that can be inserted for step i after n others.
Fresh(i, n, new) ==
  /\ new \in Seq(TaskRow) /\ new # <<>>
  /\ \A k \in DOMAIN new :
       /\ new[k].step = i /\ new[k].status = "PENDING"
       /\ \A d \in new[k].deps : d \in (n + 1)..(n + k - 1)

\* A new row is pending.
LEMMA RowIsFresh ==
  ASSUME NEW i \in Nat, NEW D \in SUBSET Nat
  PROVE  /\ Row(i, D) \in TaskRow
         /\ Row(i, D).step = i /\ Row(i, D).status = "PENDING" /\ Row(i, D).deps = D
BY DEF Row, TaskRow, TaskStatus

\* Starting a step gives it fresh rows.
LEMMA StartedRows ==
  ASSUME NEW wf \in Seq(Step), NEW repo, NEW i \in DOMAIN wf, NEW n \in Nat,
         NEW new \in StepTasks(wf, repo, i, n)
  PROVE  /\ Fresh(i, n, new)
         /\ wf[i].kind \in {"document", "plan"} => Len(new) = 1
<1>1. i \in Nat /\ wf[i].kind \in {"document", "plan", "revise", "code"}
  <2>1. i \in Nat /\ wf[i] \in Step
    OBVIOUS
  <2> QED BY <2>1 DEF Step
<1>2. Fresh(i, n, <<Row(i, {})>>) /\ Len(<<Row(i, {})>>) = 1
  <2>1. /\ Row(i, {}) \in TaskRow /\ Row(i, {}).step = i /\ Row(i, {}).status = "PENDING"
        /\ Row(i, {}).deps = {}
    BY <1>1, RowIsFresh
  <2> QED BY <2>1 DEF Fresh
<1>3. CASE wf[i].kind \in {"document", "plan"}
  <2>1. StepTasks(wf, repo, i, n) = {<<Row(i, {})>>}
    BY <1>3, Zenon DEF StepTasks
  <2> QED BY <2>1, <1>2
<1>4. CASE wf[i].kind = "revise"
  <2> DEFINE row(k) == Row(i, {n + k - 1} \ {n})
  <2>1. wf[i].kind \notin {"document", "plan"}
    BY <1>4
  <2>2. StepTasks(wf, repo, i, n) =
          IF \E j \in 1..(i - 1) : wf[j].kind = "document"
          THEN {[k \in 1..m |-> row(k)] : m \in 1..MaxTargets} ELSE {}
    BY <1>4, <2>1, Zenon DEF StepTasks
  <2>3. PICK m \in 1..MaxTargets : new = [k \in 1..m |-> row(k)]
    BY <2>2
  <2>4. m \in Nat /\ m > 0
    BY FlowBoundAssumption
  <2>5. \A k \in 1..m : /\ row(k) \in TaskRow /\ row(k).step = i /\ row(k).status = "PENDING"
                         /\ \A d \in row(k).deps : d \in (n + 1)..(n + k - 1)
    <3> TAKE k \in 1..m
    <3>1. {n + k - 1} \ {n} \in SUBSET Nat
      BY <2>4
    <3>2. \A d \in {n + k - 1} \ {n} : d \in (n + 1)..(n + k - 1)
      BY <2>4
    <3>3. /\ row(k) \in TaskRow /\ row(k).step = i /\ row(k).status = "PENDING"
          /\ row(k).deps = {n + k - 1} \ {n}
      BY <3>1, <1>1, RowIsFresh
    <3> QED BY <3>2, <3>3
  <2> HIDE DEF row
  <2> QED BY <1>4, <2>3, <2>4, <2>5 DEF Fresh
<1>5. CASE wf[i].kind = "code"
  <2>1. wf[i].kind \notin {"document", "plan"} /\ wf[i].kind # "revise"
    BY <1>5
  <2>2. StepTasks(wf, repo, i, n) = IF repo THEN {<<Row(i, {})>>} ELSE {}
    BY <1>5, <2>1, Zenon DEF StepTasks
  <2> QED BY <2>1, <2>2, <1>2
<1> QED BY <1>1, <1>3, <1>4, <1>5

\* The rows of an accepted plan wait for earlier rows of the plan only.
LEMMA PlannedRows ==
  ASSUME NEW i \in Nat, NEW n \in Nat, NEW new \in PlanTasks(i, n)
  PROVE  Fresh(i, n, new)
<1> DEFINE deps(D, k) == {n + p : p \in {q \in DOMAIN D : Ordered(D)[q] \in D[Ordered(D)[k]]}}
<1>1. PICK D \in Plans : new = [k \in DOMAIN D |-> Row(i, deps(D, k))]
  BY DEF PlanTasks
<1>2. PICK m \in 1..MaxItems : DOMAIN D = 1..m
  BY PlanOrder
<1>3. m \in Nat /\ m > 0
  BY FlowBoundAssumption
<1>4. \A k \in 1..m : /\ Row(i, deps(D, k)) \in TaskRow
                      /\ new[k].step = i /\ new[k].status = "PENDING"
                      /\ \A d \in new[k].deps : d \in (n + 1)..(n + k - 1)
  <2> TAKE k \in 1..m
  <2>1. \A q \in 1..m : Ordered(D)[q] \in D[Ordered(D)[k]] => q < k
    BY <1>2, PlanOrder
  <2>2. \A d \in deps(D, k) : d \in (n + 1)..(n + k - 1)
    BY <2>1, <1>2, <1>3
  <2>3. deps(D, k) \in SUBSET Nat
    BY <1>2, <1>3
  <2> HIDE DEF deps
  <2> QED BY <2>2, <2>3, <1>1, <1>2, RowIsFresh
<1> HIDE DEF deps
<1> QED BY <1>1, <1>2, <1>3, <1>4 DEF Fresh

-----------------------------------------------------------------------------
(***************************************************************************)
(* advance.                                                                *)
(***************************************************************************)

\* The current step has been started.
CurrentHasTasks == request = "active" => \E t \in DOMAIN tasks : tasks[t].step = current

\* The inductive invariant: the table is in order, and the request's status
\* and current step agree with it.
FlowInv ==
  /\ FlowTypeOK
  /\ request # "none" => steps \in Workflow
  /\ Table(steps, tasks)
  /\ RequestClosed
  /\ CurrentIsFirstOpen
  /\ CurrentHasTasks

\* What a workflow that can be loaded looks like: code follows a plan.
LEMMA LoadedSteps ==
  ASSUME NEW wf \in Workflow
  PROVE  /\ wf \in Seq(Step) /\ wf # <<>>
         /\ Len(wf) \in Nat /\ DOMAIN wf = 1..Len(wf) /\ 1 \in DOMAIN wf
         /\ \A i \in DOMAIN wf :
              /\ i \in Nat /\ wf[i].gate \in BOOLEAN
              /\ wf[i].kind \in {"document", "plan", "revise", "code"}
              /\ wf[i].kind = "plan" => i + 1 \in DOMAIN wf /\ wf[i + 1].kind = "code"
              /\ wf[i].kind # "plan" => wf[i].gate
<1>1. wf \in Seq(Step) /\ wf # <<>> /\ Loadable(wf)
  BY WorkflowAssumption DEF Loadable
<1>2. Len(wf) \in Nat /\ DOMAIN wf = 1..Len(wf) /\ 1 \in DOMAIN wf
  BY <1>1
<1>3. \A i \in DOMAIN wf : i \in Nat /\ wf[i] \in Step
  BY <1>1
<1>4. \A i \in DOMAIN wf : /\ wf[i].gate \in BOOLEAN
                           /\ wf[i].kind \in {"document", "plan", "revise", "code"}
  BY <1>3 DEF Step
<1> QED BY <1>1, <1>2, <1>3, <1>4 DEF Loadable

\* The parts of RequestClosed.
LEMMA ClosedCases ==
  /\ request = "none" => (RequestClosed <=> tasks = <<>>)
  /\ request = "active" =>
       (RequestClosed <=> \A t \in DOMAIN tasks : tasks[t].status # "CANCELLED")
  /\ request = "completed" =>
       (RequestClosed <=> \A i \in DOMAIN steps : StepStatus(tasks, i) = "completed")
  /\ request = "cancelled" =>
       (RequestClosed <=> \A t \in DOMAIN tasks : tasks[t].status \in Closed)
<1>1. CASE request = "none"
  BY <1>1, Zenon DEF RequestClosed
<1>2. CASE request = "active"
  BY <1>2, Zenon DEF RequestClosed
<1>3. CASE request = "completed"
  BY <1>3, Zenon DEF RequestClosed
<1>4. CASE request = "cancelled"
  BY <1>4, Zenon DEF RequestClosed
<1> QED BY <1>1, <1>2, <1>3, <1>4

\* Only an active request has a task that is neither completed nor cancelled.
LEMMA OpenIsActive ==
  ASSUME FlowInv, NEW t \in DOMAIN tasks, tasks[t].status \notin Closed
  PROVE  request = "active"
<1>1. tasks \in Seq(TaskRow) /\ tasks[t].step \in DOMAIN steps
  BY DEF FlowInv, FlowTypeOK, Table, InOrder
<1>2. request # "none"
  BY ClosedCases DEF FlowInv
<1>3. request # "cancelled"
  BY ClosedCases DEF FlowInv
<1>4. request # "completed"
  <2> SUFFICES ASSUME request = "completed" PROVE FALSE
    OBVIOUS
  <2>1. StepStatus(tasks, tasks[t].step) = "completed"
    BY <1>1, ClosedCases DEF FlowInv
  <2> QED BY <1>1, <2>1, StepStatusIs DEF Finished, Closed
<1> QED BY <1>2, <1>3, <1>4 DEF FlowInv, FlowTypeOK

\* RequestClosed after a step, by the status of the request.
LEMMA ClosedCasesNext ==
  /\ request' = "active" =>
       (RequestClosed' <=> \A t \in DOMAIN tasks' : tasks'[t].status # "CANCELLED")
  /\ request' = "completed" =>
       (RequestClosed' <=> \A i \in DOMAIN steps' : StepStatus(tasks', i) = "completed")
  /\ request' = "cancelled" =>
       (RequestClosed' <=> \A t \in DOMAIN tasks' : tasks'[t].status \in Closed)
<1>1. CASE request' = "active"
  BY <1>1, Zenon DEF RequestClosed
<1>2. CASE request' = "completed"
  BY <1>2, Zenon DEF RequestClosed
<1>3. CASE request' = "cancelled"
  BY <1>3, Zenon DEF RequestClosed
<1> QED BY <1>1, <1>2, <1>3

\* A row with another status is a row with nothing else changed.
LEMMA Restatused ==
  ASSUME NEW r \in TaskRow, NEW st \in TaskStatus
  PROVE  /\ [r EXCEPT !.status = st] \in TaskRow
         /\ [r EXCEPT !.status = st].step = r.step
         /\ [r EXCEPT !.status = st].status = st
         /\ [r EXCEPT !.status = st].approved = r.approved
         /\ [r EXCEPT !.status = st].deps = r.deps
BY DEF TaskRow

\* What finishRequest does to the rows.
LEMMA CancelOpenRows ==
  ASSUME NEW tab \in Seq(TaskRow)
  PROVE  /\ CancelOpen(tab) \in Seq(TaskRow) /\ DOMAIN CancelOpen(tab) = DOMAIN tab
         /\ \A t \in DOMAIN tab :
              /\ CancelOpen(tab)[t].step = tab[t].step
              /\ CancelOpen(tab)[t].deps = tab[t].deps
              /\ CancelOpen(tab)[t].status \in Closed
              /\ \/ CancelOpen(tab)[t] = tab[t]
                 \/ tab[t].status # "COMPLETED" /\ CancelOpen(tab)[t].status = "CANCELLED"
<1> DEFINE row(t) == IF tab[t].status \in Closed THEN tab[t]
                     ELSE [tab[t] EXCEPT !.status = "CANCELLED"]
<1>1. CancelOpen(tab) = [t \in DOMAIN tab |-> row(t)]
  BY DEF CancelOpen
<1>2. \A t \in DOMAIN tab :
        /\ row(t) \in TaskRow
        /\ row(t).step = tab[t].step /\ row(t).deps = tab[t].deps /\ row(t).status \in Closed
        /\ row(t) = tab[t] \/ (tab[t].status # "COMPLETED" /\ row(t).status = "CANCELLED")
  <2> TAKE t \in DOMAIN tab
  <2>1. tab[t] \in TaskRow /\ "CANCELLED" \in TaskStatus
    BY DEF TaskStatus
  <2> QED BY <2>1, Restatused DEF Closed
<1>3. Len(tab) \in Nat /\ DOMAIN tab = 1..Len(tab)
  OBVIOUS
<1> HIDE DEF row
<1> QED BY <1>1, <1>2, <1>3

\* The first open step, by the tasks.
LEMMA FirstOpenIs ==
  ASSUME NEW tab \in Seq(TaskRow), NEW i, IsFirstOpen(i, tab)
  PROVE  /\ \A j \in 1..(i - 1) : Finished(tab, j)
         /\ i \in DOMAIN steps => ~Finished(tab, i)
BY StepStatusIs DEF IsFirstOpen

\* The first step that is not finished is the current one.
LEMMA CurrentNext ==
  ASSUME tasks' \in Seq(TaskRow), current' \in DOMAIN steps',
         \A j \in 1..(current' - 1) : Finished(tasks', j),
         ~Finished(tasks', current')
  PROVE  CurrentIsFirstOpen'
BY StepStatusIs DEF CurrentIsFirstOpen, IsFirstOpen

\* Whatever table a handler wrote, as long as it is in order, the request and
\* its tasks agree after it has been advanced.
LEMMA AdvanceKeeps ==
  ASSUME request = "active", steps \in Workflow, repository \in BOOLEAN,
         current \in 0..Len(steps),
         NEW tab, Table(steps, tab), Advance(tab)
  PROVE  FlowInv'
<1>1. /\ steps' = steps /\ repository' = repository
      /\ tab \in Seq(TaskRow) /\ Len(steps) \in Nat /\ DOMAIN steps = 1..Len(steps)
      /\ steps \in Seq(Step)
  BY LoadedSteps DEF Advance, Table
<1>2. PICK i \in 1..(Len(steps) + 1) :
       /\ IsFirstOpen(i, tab)
       /\ \/ /\ i \notin DOMAIN steps
             /\ request' = "completed"
             /\ tasks' = tab /\ UNCHANGED current
          \/ /\ i \in DOMAIN steps /\ StepStatus(tab, i) = "cancelled"
             /\ request' = "cancelled"
             /\ tasks' = CancelOpen(tab) /\ UNCHANGED current
          \/ /\ i \in DOMAIN steps /\ StepStatus(tab, i) = "not_started"
             /\ \E new \in StepTasks(steps, repository, i, Len(tab)) : tasks' = tab \o new
             /\ current' = i /\ UNCHANGED request
          \/ /\ i \in DOMAIN steps /\ StepStatus(tab, i) = "in_progress"
             /\ tasks' = tab
             /\ current' = i /\ UNCHANGED request
  BY DEF Advance
<1>3. \A j \in 1..(i - 1) : Finished(tab, j)
  BY <1>1, <1>2, FirstOpenIs
<1>4. \A t \in DOMAIN tab : tab[t].step \in Nat /\ tab[t].step >= 1
  BY <1>1, Rows DEF Table, InOrder
\* No task is past the first open step.
<1>5. ASSUME i \in DOMAIN steps, NEW t \in DOMAIN tab
      PROVE  tab[t].step <= i
  <2> SUFFICES ASSUME tab[t].step > i PROVE FALSE
    BY <1>4
  <2>1. Finished(tab, i)
    BY <1>4, <1>5 DEF Table, InOrder
  <2> QED BY <2>1, <1>1, <1>2, <1>5, FirstOpenIs
\* A cancelled task can only be in the first open step.
<1>6. ASSUME i \in DOMAIN steps, NEW t \in DOMAIN tab, tab[t].status = "CANCELLED"
      PROVE  tab[t].step = i
  <2> SUFFICES ASSUME tab[t].step < i PROVE FALSE
    BY <1>4, <1>5, <1>6
  <2>1. Finished(tab, tab[t].step)
    BY <1>3, <1>4
  <2> QED BY <2>1, <1>6 DEF Finished
<1>7. ASSUME i \notin DOMAIN steps, request' = "completed", tasks' = tab, current' = current
      PROVE  FlowInv'
  <2>1. \A j \in DOMAIN steps : StepStatus(tab, j) = "completed"
    BY <1>1, <1>2, <1>7 DEF IsFirstOpen
  <2>2. RequestClosed'
    BY <2>1, <1>1, <1>7, ClosedCasesNext
  <2> QED BY <2>2, <1>1, <1>7 DEF FlowInv, FlowTypeOK, Table, CurrentIsFirstOpen, CurrentHasTasks
<1>8. ASSUME i \in DOMAIN steps, request' = "cancelled", tasks' = CancelOpen(tab), current' = current
      PROVE  FlowInv'
  <2>1. /\ tasks' \in Seq(TaskRow) /\ DOMAIN tasks' = DOMAIN tab
        /\ \A t \in DOMAIN tab :
             /\ tasks'[t].step = tab[t].step /\ tasks'[t].deps = tab[t].deps
             /\ tasks'[t].status \in Closed
             /\ \/ tasks'[t] = tab[t]
                \/ tab[t].status # "COMPLETED" /\ tasks'[t].status = "CANCELLED"
    BY <1>1, <1>8, CancelOpenRows
  <2>2. Table(steps, tasks')
    BY <2>1, Rewritten
  <2>3. RequestClosed'
    BY <2>1, <1>8, ClosedCasesNext
  <2> QED BY <2>1, <2>2, <2>3, <1>1, <1>8 DEF FlowInv, FlowTypeOK, CurrentIsFirstOpen, CurrentHasTasks
<1>9. ASSUME i \in DOMAIN steps, StepStatus(tab, i) = "not_started",
             NEW new \in StepTasks(steps, repository, i, Len(tab)), tasks' = tab \o new,
             current' = i, request' = "active"
      PROVE  FlowInv'
  <2>1. \A t \in DOMAIN tab : tab[t].step # i
    BY <1>1, <1>9, StepStatusIs
  <2>2. \A t \in DOMAIN tab : tab[t].step < i /\ tab[t].status # "CANCELLED"
    BY <2>1, <1>4, <1>5, <1>6, <1>9
  <2>3. /\ Fresh(i, Len(tab), new)
        /\ steps[i].kind \in {"document", "plan"} => Len(new) = 1
    <3>1. Len(tab) \in Nat
      BY <1>1
    <3> QED BY <3>1, <1>1, <1>9, StartedRows
  <2>4. /\ Table(steps, tasks')
        /\ \A j \in 1..(i - 1) : Finished(tasks', j)
        /\ ~Finished(tasks', i)
    BY <2>2, <2>3, <1>1, <1>3, <1>9, Appended DEF Fresh
  <2>5. CurrentIsFirstOpen'
    BY <2>4, <1>1, <1>9, CurrentNext DEF Table
  <2>6. \A t \in DOMAIN tasks' : tasks'[t].status # "CANCELLED"
    BY <2>2, <2>3, <1>1, <1>9 DEF Fresh
  <2>7. RequestClosed'
    BY <2>6, <1>9, ClosedCasesNext
  <2>8. CurrentHasTasks'
    <3>1. Len(tab) + 1 \in DOMAIN tasks' /\ tasks'[Len(tab) + 1].step = i
      BY <2>3, <1>1, <1>9 DEF Fresh
    <3> QED BY <3>1, <1>9 DEF CurrentHasTasks
  <2> QED BY <2>4, <2>5, <2>7, <2>8, <1>1, <1>9 DEF FlowInv, FlowTypeOK, Table
<1>10. ASSUME i \in DOMAIN steps, StepStatus(tab, i) = "in_progress", tasks' = tab,
              current' = i, request' = "active"
       PROVE  FlowInv'
  <2>1. \A t \in DOMAIN tab : tab[t].status # "CANCELLED"
    BY <1>1, <1>6, <1>10, StepStatusIs
  <2>2. RequestClosed'
    BY <2>1, <1>10, ClosedCasesNext
  <2>3. CurrentIsFirstOpen'
    BY <1>1, <1>2, <1>3, <1>10, FirstOpenIs, CurrentNext
  <2>4. CurrentHasTasks'
    BY <1>1, <1>10, StepStatusIs DEF CurrentHasTasks
  <2> QED BY <2>2, <2>3, <2>4, <1>1, <1>10 DEF FlowInv, FlowTypeOK, Table
<1> QED BY <1>2, <1>7, <1>8, <1>9, <1>10

-----------------------------------------------------------------------------
(***************************************************************************)
(* The handlers.                                                           *)
(***************************************************************************)

\* tab rewrites the row of task t and nothing else, and keeps its step.
Rewrites(tab, t) ==
  /\ tab \in Seq(TaskRow) /\ DOMAIN tab = DOMAIN tasks
  /\ tab[t].step = tasks[t].step /\ tab[t].deps = tasks[t].deps
  /\ \A u \in DOMAIN tasks \ {t} : tab[u] = tasks[u]

\* Replacing one row rewrites the table.
LEMMA RowRewrites ==
  ASSUME tasks \in Seq(TaskRow), NEW t \in DOMAIN tasks,
         NEW row \in TaskRow, row.step = tasks[t].step, row.deps = tasks[t].deps
  PROVE  Rewrites([tasks EXCEPT ![t] = row], t) /\ [tasks EXCEPT ![t] = row][t] = row
BY DEF Rewrites

\* Setting a status rewrites the table.
LEMMA SetStatusRewrites ==
  ASSUME tasks \in Seq(TaskRow), NEW t \in DOMAIN tasks, NEW st \in TaskStatus
  PROVE  /\ Rewrites(SetStatus(t, st), t)
         /\ SetStatus(t, st)[t].status = st
         /\ SetStatus(t, st)[t].approved = tasks[t].approved
<1> DEFINE row == [tasks[t] EXCEPT !.status = st]
<1>1. /\ row \in TaskRow /\ row.step = tasks[t].step /\ row.deps = tasks[t].deps
      /\ row.status = st /\ row.approved = tasks[t].approved
  <2>1. tasks[t] \in TaskRow
    OBVIOUS
  <2> QED BY <2>1, Restatused
<1>2. SetStatus(t, st) = [tasks EXCEPT ![t] = row]
  BY DEF SetStatus
<1> HIDE DEF row
<1> QED BY <1>1, <1>2, RowRewrites

\* A decision rewrites the table.
LEMMA DecidedRewrites ==
  ASSUME tasks \in Seq(TaskRow), NEW t \in DOMAIN tasks, NEW st \in TaskStatus,
         NEW yes \in BOOLEAN
  PROVE  /\ Rewrites(Decided(t, st, yes), t)
         /\ Decided(t, st, yes)[t].status = st
         /\ Decided(t, st, yes)[t].approved = yes
<1> DEFINE row == [[tasks[t] EXCEPT !.status = st] EXCEPT !.approved = yes]
<1>1. /\ row \in TaskRow /\ row.step = tasks[t].step /\ row.deps = tasks[t].deps
      /\ row.status = st /\ row.approved = yes
  <2>1. tasks[t] \in TaskRow
    OBVIOUS
  <2> QED BY <2>1 DEF TaskRow
<1>2. Decided(t, st, yes) = [tasks EXCEPT ![t] = row]
  BY DEF Decided
<1> HIDE DEF row
<1> QED BY <1>1, <1>2, RowRewrites

\* An open task's row is rewritten to another open status.
LEMMA OpenKeeps ==
  ASSUME FlowInv, NEW t \in DOMAIN tasks, tasks[t].status \notin Closed,
         Rewrites(tasks', t), tasks'[t].status \notin Closed,
         UNCHANGED <<request, steps, repository, current>>
  PROVE  FlowInv'
<1>1. request = "active" /\ tasks \in Seq(TaskRow)
  BY OpenIsActive DEF FlowInv, FlowTypeOK
<1>2. \A u \in DOMAIN tasks :
        /\ tasks'[u].step = tasks[u].step /\ tasks'[u].deps = tasks[u].deps
        /\ tasks'[u].status = "COMPLETED" <=> tasks[u].status = "COMPLETED"
        /\ tasks'[u].status = "CANCELLED" <=> tasks[u].status = "CANCELLED"
        /\ tasks'[u] = tasks[u] \/ (tasks[u].status # "COMPLETED" /\ tasks'[u].status # "COMPLETED")
  BY DEF Rewrites, Closed
<1>3. Table(steps, tasks')
  BY <1>2, Rewritten DEF FlowInv, Rewrites
<1>4. \A i : Finished(tasks', i) <=> Finished(tasks, i)
  BY <1>1, <1>2, SameFinished DEF Rewrites
<1>5. RequestClosed'
  BY <1>1, <1>2, ClosedCases, ClosedCasesNext DEF FlowInv, Rewrites
<1>6. CurrentIsFirstOpen'
  <2>1. current \in DOMAIN steps /\ IsFirstOpen(current, tasks)
    BY <1>1 DEF FlowInv, CurrentIsFirstOpen
  <2>2. /\ \A j \in 1..(current - 1) : Finished(tasks, j)
        /\ ~Finished(tasks, current)
    BY <1>1, <2>1, FirstOpenIs
  <2> QED BY <2>1, <2>2, <1>4, CurrentNext DEF Rewrites
<1>7. CurrentHasTasks'
  BY <1>1, <1>2 DEF FlowInv, CurrentHasTasks, Rewrites
<1> QED BY <1>3, <1>5, <1>6, <1>7, <1>1 DEF FlowInv, FlowTypeOK, Rewrites

\* An open task's row is rewritten and the request advanced.
LEMMA RewrittenAdvanceKeeps ==
  ASSUME FlowInv, NEW t \in DOMAIN tasks, tasks[t].status \notin Closed,
         NEW tab, Rewrites(tab, t),
         tab[t].status = "COMPLETED" /\ Gated(t) => tab[t].approved,
         Advance(tab)
  PROVE  FlowInv'
<1>1. /\ request = "active" /\ steps \in Workflow
      /\ repository \in BOOLEAN /\ current \in 0..Len(steps)
  BY OpenIsActive DEF FlowInv, FlowTypeOK
<1>2. Table(steps, tab)
  BY Rewritten DEF FlowInv, Rewrites, Closed, Gated
<1> QED BY <1>1, <1>2, AdvanceKeeps

\* A plan is completed, its tasks are created and the request is advanced.
LEMMA PlanAdvanceKeeps ==
  ASSUME FlowInv, NEW t \in DOMAIN tasks, tasks[t].status \notin Closed, KindOf(t) = "plan",
         NEW tab, Rewrites(tab, t), tab[t].status = "COMPLETED",
         Gated(t) => tab[t].approved,
         NEW new \in PlanTasks(tasks[t].step + 1, Len(tasks)), Advance(tab \o new)
  PROVE  FlowInv'
<1> DEFINE s == tasks[t].step
<1>1. /\ request = "active" /\ steps \in Workflow
      /\ repository \in BOOLEAN /\ current \in 0..Len(steps)
      /\ tasks \in Seq(TaskRow) /\ Table(steps, tasks) /\ s \in DOMAIN steps
      /\ Len(tasks) \in Nat
  BY OpenIsActive DEF FlowInv, FlowTypeOK, Table, InOrder
<1>2. /\ steps \in Seq(Step) /\ s \in Nat /\ s + 1 \in DOMAIN steps
      /\ steps[s + 1].kind = "code"
  BY <1>1, LoadedSteps DEF KindOf
<1>3. Table(steps, tab) /\ \A i : Finished(tasks, i) => Finished(tab, i)
  BY <1>1, Rewritten DEF Rewrites, Closed, Gated
<1>4. Finished(tab, s)
  <2>1. \A u \in DOMAIN tasks : tasks[u].step = s => u = t
    BY <1>1 DEF Table, OneTask, KindOf
  <2> QED BY <2>1 DEF Finished, Rewrites
<1>5. \A j \in 1..s : Finished(tab, j)
  <2>1. \A j \in 1..(s - 1) : Finished(tasks, j)
    BY <1>1 DEF Table, InOrder
  <2> QED BY <2>1, <1>2, <1>3, <1>4
<1>6. \A u \in DOMAIN tab : tab[u].step < s + 1
  <2>1. \A u \in DOMAIN tasks : tasks[u].step <= s /\ tasks[u].step \in Nat
    BY <1>1, <1>2, LastStep, Rows DEF Closed
  <2>2. \A u \in DOMAIN tasks : tab[u].step = tasks[u].step
    BY DEF Rewrites
  <2> QED BY <2>1, <2>2, <1>2 DEF Rewrites
<1>7. Fresh(s + 1, Len(tab), new)
  <2>1. Len(tab) = Len(tasks)
    BY <1>1 DEF Rewrites
  <2> QED BY <2>1, <1>1, <1>2, PlannedRows
<1>8. Table(steps, tab \o new)
  <2> DEFINE i == s + 1
  <2>1. i \in DOMAIN steps /\ ~(steps[i].kind \in {"document", "plan"})
    BY <1>2
  <2>2. \A j \in 1..(i - 1) : Finished(tab, j)
    BY <1>2, <1>5
  <2>3. \A u \in DOMAIN tab : tab[u].step < i
    BY <1>6
  <2>4. Fresh(i, Len(tab), new)
    BY <1>7
  <2> HIDE DEF i
  <2> QED BY <2>1, <2>2, <2>3, <2>4, <1>2, <1>3, Appended DEF Fresh
<1> QED BY <1>1, <1>8, AdvanceKeeps

-----------------------------------------------------------------------------
(***************************************************************************)
(* The invariant and what follows from it.                                 *)
(***************************************************************************)
LEMMA InitInv == Init => FlowInv
<1> SUFFICES ASSUME Init PROVE FlowInv
  OBVIOUS
<1>1. tasks = <<>> /\ tasks \in Seq(TaskRow) /\ DOMAIN tasks = {} /\ steps = <<>>
  BY DEF Init
<1>2. RequestClosed
  BY <1>1, ClosedCases DEF Init
<1>3. Table(steps, tasks)
  BY <1>1 DEF Table, InOrder, ApprovedDone, OneTask, Linked
<1>4. FlowTypeOK
  <2>1. steps \in Workflow \cup {<<>>} /\ 0 \in 0..Len(steps)
    BY <1>1
  <2> QED BY <2>1, <1>1 DEF Init, FlowTypeOK
<1> QED BY <1>2, <1>3, <1>4 DEF Init, FlowInv, CurrentIsFirstOpen, CurrentHasTasks

\* Creating a request establishes the invariant.
LEMMA CreateKeeps ==
  ASSUME FlowInv, NEW wf \in Workflow, NEW repo \in BOOLEAN, CreateRequest(wf, repo)
  PROVE  FlowInv'
<1>1. /\ request' = "active" /\ steps' = wf /\ repository' = repo
      /\ current' = 1 /\ tasks' \in StepTasks(wf, repo, 1, 0)
  BY DEF CreateRequest
<1>2. wf \in Seq(Step) /\ 1 \in DOMAIN wf /\ Len(wf) \in Nat /\ DOMAIN wf = 1..Len(wf)
  BY LoadedSteps
<1>3. Table(wf, <<>>)
  BY DEF Table, InOrder, ApprovedDone, OneTask, Linked
<1>4. /\ Fresh(1, 0, tasks')
      /\ wf[1].kind \in {"document", "plan"} => Len(tasks') = 1
  <2> DEFINE new == tasks'
  <2>1. new \in StepTasks(wf, repo, 1, 0)
    BY <1>1
  <2> HIDE DEF new
  <2>2. Fresh(1, 0, new) /\ (wf[1].kind \in {"document", "plan"} => Len(new) = 1)
    BY <2>1, <1>2, StartedRows
  <2> QED BY <2>2 DEF new
<1>5. Table(wf, tasks') /\ ~Finished(tasks', 1)
  <2> DEFINE new == tasks'
             tab == <<>>
  <2>1. tab \o new = new
    BY <1>4 DEF Fresh
  <2>2. /\ \A j \in 1..(1 - 1) : Finished(tab, j)
        /\ \A t \in DOMAIN tab : tab[t].step < 1
    OBVIOUS
  <2>3. /\ new \in Seq(TaskRow) /\ new # <<>>
        /\ \A k \in DOMAIN new :
             /\ new[k].step = 1 /\ new[k].status = "PENDING"
             /\ \A d \in new[k].deps : d \in (Len(tab) + 1)..(Len(tab) + k - 1)
        /\ wf[1].kind \in {"document", "plan"} => Len(new) = 1
    BY <1>4 DEF Fresh
  <2> HIDE DEF new, tab
  <2>4. Table(wf, tab)
    BY <1>3 DEF tab
  <2>5. Table(wf, tab \o new) /\ ~Finished(tab \o new, 1)
    BY <1>2, <2>2, <2>3, <2>4, Appended
  <2> QED BY <2>1, <2>5 DEF new
<1>6. RequestClosed'
  BY <1>1, <1>4, ClosedCasesNext DEF Fresh
<1>7. CurrentIsFirstOpen'
  BY <1>1, <1>2, <1>4, <1>5, CurrentNext DEF Fresh
<1>8. CurrentHasTasks'
  <2>1. 1 \in DOMAIN tasks' /\ tasks'[1].step = 1
    BY <1>4 DEF Fresh
  <2> QED BY <2>1, <1>1 DEF CurrentHasTasks
<1> QED BY <1>1, <1>2, <1>4, <1>5, <1>6, <1>7, <1>8 DEF FlowInv, FlowTypeOK, Fresh

\* Cancelling a request keeps the invariant.
LEMMA CancelRequestKeeps ==
  ASSUME FlowInv, CancelRequest
  PROVE  FlowInv'
<1>1. /\ tasks \in Seq(TaskRow) /\ tasks' = CancelOpen(tasks) /\ request' = "cancelled"
      /\ steps' = steps /\ repository' = repository /\ current' = current
      /\ steps \in Workflow
  BY DEF FlowInv, FlowTypeOK, CancelRequest
<1>2. Table(steps, tasks')
  BY <1>1, CancelOpenRows, Rewritten DEF FlowInv
<1>3. RequestClosed'
  BY <1>1, CancelOpenRows, ClosedCasesNext
<1> QED BY <1>1, <1>2, <1>3 DEF FlowInv, FlowTypeOK, CurrentIsFirstOpen, CurrentHasTasks, Table

\* Every handler of a task keeps the invariant.
LEMMA TaskKeeps ==
  ASSUME FlowInv, NEW t \in DOMAIN tasks, TaskNext(t)
  PROVE  FlowInv'
<1>1. /\ tasks \in Seq(TaskRow) /\ tasks[t].approved \in BOOLEAN
      /\ steps \in Seq(Step)
      /\ KindOf(t) # "plan" => Gated(t)
  <2>1. tasks \in Seq(TaskRow) /\ steps \in Workflow /\ tasks[t].step \in DOMAIN steps
    BY ClosedCases DEF FlowInv, FlowTypeOK, Table, InOrder
  <2> QED BY <2>1, Rows, LoadedSteps DEF KindOf, Gated
<1>2. ASSUME NEW from \in TaskStatus \ Closed, NEW to \in TaskStatus \ Closed,
             Moves(t, from, to)
      PROVE  FlowInv'
  BY <1>1, <1>2, SetStatusRewrites, OpenKeeps DEF Moves
<1>3. \A st \in {"PENDING", "RUNNING", "WAITING_FOR_HUMAN", "FAILED"} :
        st \in TaskStatus \ Closed
  BY DEF TaskStatus, Closed
<1>4. CASE Take(t)
  BY <1>2, <1>3, <1>4 DEF Take
<1>5. CASE Release(t)
  BY <1>2, <1>3, <1>5 DEF Release
<1>6. CASE Fail(t)
  BY <1>2, <1>3, <1>6 DEF Fail
<1>7. CASE RetryTask(t)
  BY <1>2, <1>3, <1>7 DEF RetryTask
<1>8. CASE AskMerge(t)
  BY <1>2, <1>3, <1>8 DEF AskMerge
<1>9. CASE SubmitOutput(t)
  BY <1>2, <1>3, <1>9 DEF SubmitOutput
<1>10. CASE ReworkCode(t)
  BY <1>2, <1>3, <1>10 DEF ReworkCode
<1>11. "COMPLETED" \in TaskStatus /\ "CANCELLED" \in TaskStatus /\ "PENDING" \in TaskStatus
  BY DEF TaskStatus
\* A merge is approved: the only decision that does not advance the request.
<1>12. CASE ApproveMerge(t)
  <2>1. Rewrites(tasks', t) /\ tasks'[t].status = "PENDING"
    BY <1>1, <1>11, <1>12, DecidedRewrites DEF ApproveMerge
  <2> QED BY <2>1, <1>3, <1>12, OpenKeeps DEF ApproveMerge
<1>13. ASSUME NEW st \in {"COMPLETED", "CANCELLED", "PENDING"},
              tasks[t].status \notin Closed, Advance(SetStatus(t, st)),
              st = "COMPLETED" /\ Gated(t) => tasks[t].approved
       PROVE  FlowInv'
  BY <1>1, <1>11, <1>13, SetStatusRewrites, RewrittenAdvanceKeeps
<1>14. CASE CompleteCode(t)
  BY <1>3, <1>13, <1>14 DEF CompleteCode
<1>15. CASE ReworkDocument(t)
  BY <1>3, <1>13, <1>15 DEF ReworkDocument
<1>16. CASE Reject(t)
  BY <1>3, <1>13, <1>16 DEF Reject
<1>17. CASE CancelTask(t)
  BY <1>13, <1>17 DEF CancelTask
<1>18. CASE AcceptPlan(t)
  <2>1. PICK new \in PlanTasks(tasks[t].step + 1, Len(tasks)) :
          Advance(SetStatus(t, "COMPLETED") \o new)
    BY <1>18 DEF AcceptPlan
  <2>2. KindOf(t) = "plan" /\ ~Gated(t) /\ tasks[t].status \notin Closed
    BY <1>3, <1>18 DEF AcceptPlan
  <2>3. /\ Rewrites(SetStatus(t, "COMPLETED"), t)
        /\ SetStatus(t, "COMPLETED")[t].status = "COMPLETED"
    BY <1>1, <1>11, SetStatusRewrites
  <2> QED BY <2>1, <2>2, <2>3, PlanAdvanceKeeps
<1>19. CASE ApproveDocument(t)
  <2> DEFINE tab == Decided(t, "COMPLETED", TRUE)
  <2>1. tasks[t].status \notin Closed
    BY <1>3, <1>19 DEF ApproveDocument
  <2>2. Rewrites(tab, t) /\ tab[t].status = "COMPLETED" /\ tab[t].approved = TRUE
    BY <1>1, <1>11, DecidedRewrites
  <2>3. IF KindOf(t) = "plan"
        THEN \E new \in PlanTasks(tasks[t].step + 1, Len(tasks)) : Advance(tab \o new)
        ELSE Advance(tab)
    BY <1>19 DEF ApproveDocument
  <2> HIDE DEF tab
  <2>4. CASE KindOf(t) = "plan"
    BY <2>1, <2>2, <2>3, <2>4, PlanAdvanceKeeps
  <2>5. CASE KindOf(t) # "plan"
    BY <2>1, <2>2, <2>3, <2>5, RewrittenAdvanceKeeps
  <2> QED BY <2>4, <2>5
<1> QED BY <1>4, <1>5, <1>6, <1>7, <1>8, <1>9, <1>10, <1>12, <1>14, <1>15, <1>16, <1>17,
           <1>18, <1>19 DEF TaskNext

\* Every step keeps the invariant.
LEMMA FlowInvStep == FlowInv /\ [Next]_vars => FlowInv'
<1> SUFFICES ASSUME FlowInv, [Next]_vars PROVE FlowInv'
  OBVIOUS
<1>1. CASE Next
  BY <1>1, CreateKeeps, TaskKeeps, CancelRequestKeeps DEF Next
<1>2. CASE UNCHANGED vars
  BY <1>2, ClosedCases, ClosedCasesNext DEF vars, FlowInv, FlowTypeOK, RequestClosed, CurrentIsFirstOpen,
     IsFirstOpen, CurrentHasTasks
<1> QED BY <1>1, <1>2

\* FlowInv holds in every reachable state: it holds initially, and creating a
\* request, whatever happens to one of its tasks, and cancelling it keep it.
THEOREM FlowInvariant == Spec => []FlowInv
BY InitInv, FlowInvStep, PTL DEF Spec

\* The request, its current step and the rows of its tasks are always
\* well-formed, whatever workflow (workflow.check) the request names.
THEOREM FlowTypeCorrect == Spec => []FlowTypeOK
<1>1. FlowInv => FlowTypeOK
  BY DEF FlowInv
<1> QED BY <1>1, FlowInvariant, PTL

\* For every loadable workflow, no task exists before every step ahead of its
\* own is completed and, where the step has a gate, approved by a human
\* (requests.go advance, startStep and createPlanTasks).
THEOREM StepsInOrderCorrect == Spec => []StepsInOrder
<1>1. FlowInv => StepsInOrder
  <2> SUFFICES ASSUME FlowInv, NEW t \in DOMAIN tasks, NEW i \in 1..(tasks[t].step - 1)
               PROVE  /\ StepStatus(tasks, i) = "completed"
                      /\ steps[i].gate => \A u \in TasksOf(tasks, i) : tasks[u].approved
    BY DEF StepsInOrder
  <2>1. tasks \in Seq(TaskRow) /\ Finished(tasks, i)
    BY DEF FlowInv, Table, InOrder
  <2>2. ASSUME steps[i].gate, NEW u \in TasksOf(tasks, i)
        PROVE  tasks[u].approved
    BY <2>1, <2>2 DEF FlowInv, Table, ApprovedDone, Finished, TasksOf
  <2> QED BY <2>1, <2>2, StepStatusIs
<1> QED BY <1>1, FlowInvariant, PTL

\* A request and its tasks end together: one that is closed has no open task,
\* and one that is active has no cancelled one (finishRequest).
THEOREM RequestClosedCorrect == Spec => []RequestClosed
<1>1. FlowInv => RequestClosed
  BY DEF FlowInv
<1> QED BY <1>1, FlowInvariant, PTL

\* current_step of an active request is its first step that is not completed
\* (the last assignment of advance).
THEOREM CurrentCorrect == Spec => []CurrentIsFirstOpen
<1>1. FlowInv => CurrentIsFirstOpen
  BY DEF FlowInv
<1> QED BY <1>1, FlowInvariant, PTL

\* An active request always has a task that is with a worker, waits for a human, has
\* failed, or can be claimed: tasks wait for earlier ones of their own step only
\* (startStep, and createPlanTasks with ParsePlan's order), so that of the pending
\* tasks of the current step the first can be claimed.
THEOREM ActiveCanGoOn == Spec => []ActiveNotStuck
<1>1. FlowInv => ActiveNotStuck
  <2> SUFFICES ASSUME FlowInv, request = "active",
                      \A t \in DOMAIN tasks :
                        tasks[t].status \notin {"RUNNING", "WAITING_FOR_HUMAN", "FAILED"}
               PROVE  \E t \in DOMAIN tasks :
                        /\ tasks[t].status = "PENDING"
                        /\ \A d \in tasks[t].deps : tasks[d].status = "COMPLETED"
    BY DEF ActiveNotStuck
  <2> DEFINE T == {t \in DOMAIN tasks : tasks[t].step = current /\ tasks[t].status # "COMPLETED"}
  <2>1. /\ tasks \in Seq(TaskRow) /\ DOMAIN tasks = 1..Len(tasks) /\ Len(tasks) \in Nat
        /\ Linked(tasks) /\ current \in DOMAIN steps /\ IsFirstOpen(current, tasks)
    BY DEF FlowInv, Table, CurrentIsFirstOpen
  <2>2. T # {}
    <3>1. ~Finished(tasks, current)
      BY <2>1, FirstOpenIs
    <3>2. \E t \in DOMAIN tasks : tasks[t].step = current
      BY DEF FlowInv, CurrentHasTasks
    <3> QED BY <3>1, <3>2 DEF Finished
  <2>3. T \subseteq Nat
    BY <2>1
  <2>4. PICK t \in T : \A u \in T : t <= u
    BY <2>2, <2>3, LeastNat
  <2>5. tasks[t].status = "PENDING"
    <3>1. tasks[t].status \in TaskStatus /\ tasks[t].status # "CANCELLED" /\ tasks[t].status # "COMPLETED"
      BY <2>1, <2>4, Rows, ClosedCases DEF FlowInv
    <3> QED BY <3>1 DEF TaskStatus
  <2>6. ASSUME NEW d \in tasks[t].deps PROVE tasks[d].status = "COMPLETED"
    <3>1. t \in DOMAIN tasks /\ d \in 1..(t - 1) /\ tasks[d].step = tasks[t].step
      BY <2>1, <2>4 DEF Linked
    <3>2. d \in DOMAIN tasks /\ tasks[d].step = current /\ ~(t <= d)
      BY <2>1, <2>4, <3>1
    <3> QED BY <2>4, <3>2
  <2> QED BY <2>4, <2>5, <2>6
<1> QED BY <1>1, FlowInvariant, PTL

-----------------------------------------------------------------------------
(***************************************************************************)
(* What the handlers do to the rows of the tasks.                          *)
(***************************************************************************)

\* Rows keep their steps, and new ones are claimable unless cancelled at once.
Grown ==
  /\ tasks' \in Seq(TaskRow) /\ DOMAIN tasks \subseteq DOMAIN tasks'
  /\ tasks # <<>> => steps' = steps
  /\ \A u \in DOMAIN tasks : tasks'[u].step = tasks[u].step
  /\ \A u \in DOMAIN tasks' \ DOMAIN tasks : tasks'[u].status \in {"PENDING", "CANCELLED"}

\* Task t goes to st and no other one moves.
Sets(t, st) ==
  /\ Grown /\ tasks'[t].status = st
  /\ \A u \in DOMAIN tasks \ {t} : tasks'[u].status = tasks[u].status

\* Some open tasks are cancelled and no other one moves.
Drops ==
  /\ Grown
  /\ \A u \in DOMAIN tasks : \/ tasks'[u].status = tasks[u].status
                            \/ (tasks[u].status # "COMPLETED" /\ tasks'[u].status = "CANCELLED")

\* A cancelled step has a cancelled task.
LEMMA StepCancelled ==
  ASSUME NEW tab \in Seq(TaskRow), NEW i, StepStatus(tab, i) = "cancelled"
  PROVE  \E t \in DOMAIN tab : tab[t].status = "CANCELLED"
<1> DEFINE S == {tab[t].status : t \in TasksOf(tab, i)}
<1>1. "CANCELLED" \in S
  <2>1. CASE S = {}
    BY <2>1, Zenon DEF StepStatus
  <2>2. CASE S # {} /\ "CANCELLED" \notin S /\ S = {"COMPLETED"}
    BY <2>2, Zenon DEF StepStatus
  <2>3. CASE S # {} /\ "CANCELLED" \notin S /\ S # {"COMPLETED"}
    BY <2>3, Zenon DEF StepStatus
  <2> QED BY <2>1, <2>2, <2>3
<1> QED BY <1>1 DEF TasksOf

\* advance cancels nothing unless something has been cancelled.
LEMMA AdvanceRows ==
  ASSUME request = "active", steps \in Workflow, NEW tab \in Seq(TaskRow), Advance(tab)
  PROVE  /\ steps' = steps /\ tasks' \in Seq(TaskRow) /\ DOMAIN tab \subseteq DOMAIN tasks'
         /\ \A t \in DOMAIN tab :
              /\ tasks'[t].step = tab[t].step
              /\ tasks'[t].status \in {tab[t].status, "CANCELLED"}
              /\ tab[t].status = "COMPLETED" => tasks'[t].status = "COMPLETED"
         /\ (\A t \in DOMAIN tab : tab[t].status # "CANCELLED") =>
              \A t \in DOMAIN tab : tasks'[t] = tab[t]
         /\ \A t \in DOMAIN tasks' \ DOMAIN tab :
              /\ tasks'[t].status = "PENDING"
              /\ \A u \in DOMAIN tab : tab[u].step # tasks'[t].step
<1>1. /\ steps' = steps /\ steps \in Seq(Step) /\ Len(tab) \in Nat /\ DOMAIN tab = 1..Len(tab)
  BY LoadedSteps DEF Advance
<1>2. PICK i \in 1..(Len(steps) + 1) :
       \/ tasks' = tab
       \/ StepStatus(tab, i) = "cancelled" /\ tasks' = CancelOpen(tab)
       \/ /\ i \in DOMAIN steps /\ StepStatus(tab, i) = "not_started"
          /\ \E new \in StepTasks(steps, repository, i, Len(tab)) : tasks' = tab \o new
  BY DEF Advance
<1>3. CASE tasks' = tab
  BY <1>1, <1>3
<1>4. CASE StepStatus(tab, i) = "cancelled" /\ tasks' = CancelOpen(tab)
  <2>1. \E t \in DOMAIN tab : tab[t].status = "CANCELLED"
    BY <1>4, StepCancelled
  <2> QED BY <2>1, <1>1, <1>4, CancelOpenRows
<1>5. ASSUME i \in DOMAIN steps, StepStatus(tab, i) = "not_started",
             NEW new \in StepTasks(steps, repository, i, Len(tab)), tasks' = tab \o new
      PROVE  /\ tasks' \in Seq(TaskRow) /\ DOMAIN tab \subseteq DOMAIN tasks'
             /\ \A t \in DOMAIN tab : tasks'[t] = tab[t]
             /\ \A t \in DOMAIN tasks' \ DOMAIN tab :
                  tasks'[t].status = "PENDING" /\ tasks'[t].step = i
  <2>1. Fresh(i, Len(tab), new)
    BY <1>1, <1>5, StartedRows
  <2> QED BY <2>1, <1>1, <1>5 DEF Fresh
<1>6. ASSUME StepStatus(tab, i) = "not_started" PROVE \A u \in DOMAIN tab : tab[u].step # i
  BY <1>6, StepStatusIs
<1> QED BY <1>1, <1>2, <1>3, <1>4, <1>5, <1>6

\* An open task's row is rewritten, and a plan's tasks may follow.
LEMMA RewrittenRows ==
  ASSUME FlowInv, NEW t \in DOMAIN tasks, tasks[t].status \notin Closed,
         NEW tab, Rewrites(tab, t), NEW new \in Seq(TaskRow),
         \A k \in DOMAIN new : new[k].status = "PENDING", Advance(tab \o new)
  PROVE  /\ tab[t].status # "CANCELLED" => Sets(t, tab[t].status)
         /\ tab[t].status = "CANCELLED" => Drops /\ tasks'[t].status = "CANCELLED"
<1> DEFINE both == tab \o new
<1>1. /\ request = "active" /\ steps \in Workflow /\ tasks \in Seq(TaskRow)
      /\ \A u \in DOMAIN tasks : tasks[u].status # "CANCELLED"
  BY OpenIsActive, ClosedCases DEF FlowInv, FlowTypeOK
<1>2. /\ both \in Seq(TaskRow) /\ DOMAIN tasks \subseteq DOMAIN both
      /\ \A u \in DOMAIN tasks : both[u] = tab[u]
      /\ \A u \in DOMAIN both \ DOMAIN tasks : both[u].status = "PENDING"
  BY DEF Rewrites
<1> HIDE DEF both
<1>3. Advance(both)
  BY DEF both
<1>4. /\ steps' = steps /\ tasks' \in Seq(TaskRow) /\ DOMAIN both \subseteq DOMAIN tasks'
      /\ \A u \in DOMAIN both :
           /\ tasks'[u].step = both[u].step /\ tasks'[u].status \in {both[u].status, "CANCELLED"}
           /\ both[u].status = "COMPLETED" => tasks'[u].status = "COMPLETED"
      /\ (\A u \in DOMAIN both : both[u].status # "CANCELLED") =>
           \A u \in DOMAIN both : tasks'[u] = both[u]
      /\ \A u \in DOMAIN tasks' \ DOMAIN both : tasks'[u].status = "PENDING"
  BY <1>1, <1>2, <1>3, AdvanceRows
<1>5. \A u \in DOMAIN tasks : tab[u].step = tasks[u].step /\ (u # t => tab[u] = tasks[u])
  BY DEF Rewrites
<1>6. Grown
  <2>1. \A u \in DOMAIN tasks' \ DOMAIN tasks : tasks'[u].status \in {"PENDING", "CANCELLED"}
    BY <1>2, <1>4
  <2> QED BY <2>1, <1>2, <1>4, <1>5 DEF Grown
<1>7. CASE tab[t].status # "CANCELLED"
  <2>1. \A u \in DOMAIN both : both[u].status # "CANCELLED"
    BY <1>1, <1>2, <1>5, <1>7
  <2>2. \A u \in DOMAIN tasks : tasks'[u] = tab[u]
    BY <2>1, <1>2, <1>4
  <2> QED BY <2>2, <1>5, <1>7, <1>6 DEF Sets
<1>8. CASE tab[t].status = "CANCELLED"
  <2>1. \A u \in DOMAIN tasks : tasks'[u].status \in {tab[u].status, "CANCELLED"}
    BY <1>2, <1>4
  <2>2. \A u \in DOMAIN tasks : tab[u].status = "COMPLETED" => tasks'[u].status = "COMPLETED"
    BY <1>2, <1>4
  <2>3. tasks'[t].status = "CANCELLED"
    BY <2>1, <1>8
  <2>4. tasks[t].status # "COMPLETED"
    BY DEF Closed
  <2>5. ASSUME NEW u \in DOMAIN tasks, u # t
        PROVE  \/ tasks'[u].status = tasks[u].status
               \/ (tasks[u].status # "COMPLETED" /\ tasks'[u].status = "CANCELLED")
    BY <2>1, <2>2, <2>5, <1>5
  <2> QED BY <2>3, <2>4, <2>5, <1>8, <1>6 DEF Drops
<1> QED BY <1>7, <1>8

\* What each handler that does not cancel does.
LEMMA HandlerRows ==
  ASSUME FlowInv, NEW t \in DOMAIN tasks
  PROVE  /\ Take(t) => Sets(t, "RUNNING")
         /\ Release(t) \/ RetryTask(t) \/ ApproveMerge(t) \/ ReworkCode(t) => Sets(t, "PENDING")
         /\ Fail(t) => Sets(t, "FAILED")
         /\ AskMerge(t) \/ SubmitOutput(t) => Sets(t, "WAITING_FOR_HUMAN")
         /\ CompleteCode(t) \/ AcceptPlan(t) \/ ApproveDocument(t) => Sets(t, "COMPLETED")
         /\ ReworkDocument(t) => Sets(t, "PENDING")
         /\ Reject(t) \/ CancelTask(t) => Drops /\ tasks'[t].status = "CANCELLED"
<1>1. /\ tasks \in Seq(TaskRow) /\ steps \in Seq(Step) /\ tasks[t].step \in Nat
      /\ KindOf(t) = "plan" => tasks[t].step + 1 \in Nat
  <2>1. tasks \in Seq(TaskRow) /\ steps \in Workflow /\ tasks[t].step \in DOMAIN steps
    BY ClosedCases DEF FlowInv, FlowTypeOK, Table, InOrder
  <2> QED BY <2>1, LoadedSteps
<1>2. \A st \in {"PENDING", "RUNNING", "WAITING_FOR_HUMAN", "FAILED", "COMPLETED", "CANCELLED"} :
        st \in TaskStatus
  BY DEF TaskStatus
<1>3. ASSUME NEW tab, Rewrites(tab, t), tasks' = tab, UNCHANGED steps PROVE Sets(t, tab[t].status)
  BY <1>1, <1>3 DEF Rewrites, Sets, Grown
<1>4. ASSUME NEW from, NEW to \in TaskStatus, Moves(t, from, to) PROVE Sets(t, to)
  <2>1. Rewrites(SetStatus(t, to), t) /\ SetStatus(t, to)[t].status = to
    BY <1>1, SetStatusRewrites
  <2> QED BY <2>1, <1>3, <1>4 DEF Moves
<1>5. ASSUME ApproveMerge(t) PROVE Sets(t, "PENDING")
  <2>1. Rewrites(Decided(t, "PENDING", TRUE), t) /\ Decided(t, "PENDING", TRUE)[t].status = "PENDING"
    BY <1>1, <1>2, DecidedRewrites
  <2> QED BY <2>1, <1>3, <1>5 DEF ApproveMerge
\* The handlers that advance the request.
<1>6. ASSUME NEW tab, Rewrites(tab, t), tasks[t].status \notin Closed, Advance(tab)
      PROVE  /\ tab[t].status # "CANCELLED" => Sets(t, tab[t].status)
             /\ tab[t].status = "CANCELLED" => Drops /\ tasks'[t].status = "CANCELLED"
  <2> DEFINE new == <<>>
  <2>1. new \in Seq(TaskRow) /\ (\A k \in DOMAIN new : new[k].status = "PENDING") /\ tab \o new = tab
    BY <1>6 DEF Rewrites
  <2> HIDE DEF new
  <2>2. Advance(tab \o new)
    BY <2>1, <1>6
  <2> QED BY <2>1, <2>2, <1>6, RewrittenRows
<1>7. ASSUME NEW to \in TaskStatus, tasks[t].status \notin Closed, Advance(SetStatus(t, to))
      PROVE  /\ to # "CANCELLED" => Sets(t, to)
             /\ to = "CANCELLED" => Drops /\ tasks'[t].status = "CANCELLED"
  BY <1>1, <1>6, <1>7, SetStatusRewrites
<1>8. ASSUME NEW tab, Rewrites(tab, t), tab[t].status = "COMPLETED", tasks[t].status \notin Closed,
             KindOf(t) = "plan", NEW new \in PlanTasks(tasks[t].step + 1, Len(tasks)), Advance(tab \o new)
      PROVE  Sets(t, "COMPLETED")
  <2>1. Fresh(tasks[t].step + 1, Len(tasks), new)
    BY <1>1, <1>8, PlannedRows
  <2> QED BY <2>1, <1>8, RewrittenRows DEF Fresh
<1>9. \A st \in {"RUNNING", "WAITING_FOR_HUMAN"} : st \notin Closed
  BY DEF Closed
<1>10. ASSUME AcceptPlan(t) PROVE Sets(t, "COMPLETED")
  BY <1>1, <1>2, <1>8, <1>9, <1>10, SetStatusRewrites DEF AcceptPlan
<1>11. ASSUME ApproveDocument(t) PROVE Sets(t, "COMPLETED")
  <2> DEFINE tab == Decided(t, "COMPLETED", TRUE)
  <2>1. Rewrites(tab, t) /\ tab[t].status = "COMPLETED"
    BY <1>1, <1>2, DecidedRewrites
  <2>2. IF KindOf(t) = "plan"
        THEN \E new \in PlanTasks(tasks[t].step + 1, Len(tasks)) : Advance(tab \o new)
        ELSE Advance(tab)
    BY <1>11 DEF ApproveDocument
  <2>3. tasks[t].status \notin Closed
    BY <1>9, <1>11 DEF ApproveDocument
  <2> HIDE DEF tab
  <2> QED BY <2>1, <2>2, <2>3, <1>6, <1>8
<1>12. Take(t) => Sets(t, "RUNNING")
  BY <1>2, <1>4 DEF Take
<1>13. Release(t) \/ RetryTask(t) \/ ReworkCode(t) => Sets(t, "PENDING")
  BY <1>2, <1>4 DEF Release, RetryTask, ReworkCode
<1>14. Fail(t) => Sets(t, "FAILED")
  BY <1>2, <1>4 DEF Fail
<1>15. AskMerge(t) \/ SubmitOutput(t) => Sets(t, "WAITING_FOR_HUMAN")
  BY <1>2, <1>4 DEF AskMerge, SubmitOutput
<1>16. CompleteCode(t) => Sets(t, "COMPLETED")
  BY <1>2, <1>7, <1>9 DEF CompleteCode
<1>17. ReworkDocument(t) => Sets(t, "PENDING")
  BY <1>2, <1>7, <1>9 DEF ReworkDocument
<1>18. Reject(t) \/ CancelTask(t) => Drops /\ tasks'[t].status = "CANCELLED"
  BY <1>2, <1>7, <1>9 DEF Reject, CancelTask
<1> QED BY <1>5, <1>10, <1>11, <1>12, <1>13, <1>14, <1>15, <1>16, <1>17, <1>18

\* A cancelled request only cancels tasks.
LEMMA CancelRequestRows ==
  ASSUME FlowInv, CancelRequest PROVE Drops
<1>1. tasks \in Seq(TaskRow) /\ tasks' = CancelOpen(tasks) /\ steps' = steps
  BY DEF FlowInv, FlowTypeOK, CancelRequest
<1> QED BY <1>1, CancelOpenRows DEF Drops, Grown

\* A request is created with no tasks before it.
LEMMA CreateRows ==
  ASSUME FlowInv, NEW wf \in Workflow, NEW repo, CreateRequest(wf, repo)
  PROVE  tasks = <<>> /\ Drops
<1>1. /\ tasks = <<>> /\ tasks' \in StepTasks(wf, repo, 1, 0)
      /\ wf \in Seq(Step) /\ 1 \in DOMAIN wf
  BY ClosedCases, LoadedSteps DEF FlowInv, CreateRequest
<1>2. PICK new : new = tasks'
  OBVIOUS
<1>3. Fresh(1, 0, new)
  BY <1>1, <1>2, StartedRows
<1> QED BY <1>1, <1>2, <1>3 DEF Drops, Grown, Fresh

-----------------------------------------------------------------------------
(***************************************************************************)
(* Steps end one by one.                                                   *)
(***************************************************************************)

\* Every handler of a task is about one that is still open.
LEMMA HandledIsOpen ==
  ASSUME NEW t \in DOMAIN tasks, TaskNext(t)
  PROVE  tasks[t].status # "COMPLETED"
BY DEF TaskNext, Moves, Take, Release, Fail, RetryTask, AskMerge, CompleteCode, SubmitOutput, AcceptPlan,
   ApproveDocument, ReworkDocument, ApproveMerge, ReworkCode, Reject, CancelTask, Closed

\* A handler of a task only cancels, or sets the status of that task.
LEMMA HandlerMoves ==
  ASSUME FlowInv, NEW t \in DOMAIN tasks, TaskNext(t)
  PROVE  \/ Drops
         \/ \E st : Sets(t, st)
BY HandlerRows, Zenon DEF TaskNext

\* Done speaks of the steps that Finished speaks of.
LEMMA DoneIs ==
  ASSUME NEW tab \in Seq(TaskRow)
  PROVE  Done(tab) = {i \in DOMAIN steps : Finished(tab, i)}
BY StepStatusIs DEF Done

\* When only t may become completed, only its step may become finished; the
\* new rows cannot reopen a step, since t's step is the last that has rows.
LEMMA OneStepEnds ==
  ASSUME FlowInv, FlowInv', Grown, NEW t \in DOMAIN tasks, tasks[t].status # "COMPLETED",
         \A u \in DOMAIN tasks : tasks[u].status = "COMPLETED" => tasks'[u].status = "COMPLETED",
         \A u \in DOMAIN tasks \ {t} : tasks'[u].status = "COMPLETED" => tasks[u].status = "COMPLETED"
  PROVE  /\ tasks[t].step \in DOMAIN steps /\ IsFirstOpen(tasks[t].step, tasks)
         /\ \A i : Finished(tasks, i) => Finished(tasks', i)
         /\ \A i : Finished(tasks', i) => Finished(tasks, i) \/ i = tasks[t].step
<1> DEFINE s == tasks[t].step
           tab == tasks'
<1>1. /\ tasks \in Seq(TaskRow) /\ steps \in Seq(Step) /\ Table(steps, tasks)
      /\ s \in DOMAIN steps /\ s \in Nat
  <2>1. /\ tasks \in Seq(TaskRow) /\ steps \in Workflow /\ Table(steps, tasks) /\ s \in DOMAIN steps
    BY ClosedCases DEF FlowInv, FlowTypeOK, Table, InOrder
  <2> QED BY <2>1, LoadedSteps, Rows
<1>2. /\ tab \in Seq(TaskRow) /\ Table(steps, tab)
      /\ DOMAIN tasks \subseteq DOMAIN tab /\ t \in DOMAIN tab /\ tab[t].step = s
      /\ \A u \in DOMAIN tasks : tab[u].step = tasks[u].step
      /\ \A u \in DOMAIN tab \ DOMAIN tasks : tab[u].status # "COMPLETED"
  <2>1. steps' = steps /\ tab \in Seq(TaskRow)
    BY DEF Grown
  <2>2. Table(steps, tab)
    BY <2>1 DEF FlowInv
  <2> QED BY <2>1, <2>2 DEF Grown
<1>3. \A u \in DOMAIN tasks : tasks[u].step \in Nat /\ tasks[u].step <= s
  BY <1>1, LastStep, Rows
<1> HIDE DEF s, tab
<1>4. \A u \in DOMAIN tab \ DOMAIN tasks : tab[u].step \in Nat /\ s <= tab[u].step
  BY <1>1, <1>2, LastStep, Rows
<1>5. ~Finished(tasks, s)
  BY DEF Finished, s
<1>6. ASSUME NEW i, Finished(tasks, i) PROVE Finished(tab, i)
  <2>1. PICK v \in DOMAIN tasks : tasks[v].step = i
    BY <1>6 DEF Finished
  <2>2. i \in Nat /\ i <= s /\ i # s
    BY <2>1, <1>3, <1>5, <1>6
  <2>3. \A u \in DOMAIN tab : tab[u].step = i => u \in DOMAIN tasks
    BY <1>1, <1>4, <2>2
  <2>4. \A u \in DOMAIN tab : tab[u].step = i => tab[u].status = "COMPLETED"
    BY <1>2, <1>6, <2>3 DEF Finished, tab
  <2> QED BY <2>1, <2>4, <1>2 DEF Finished
<1>7. ASSUME NEW i, Finished(tab, i), i # s PROVE Finished(tasks, i)
  <2>1. PICK v \in DOMAIN tab : tab[v].step = i /\ tab[v].status = "COMPLETED"
    BY <1>7 DEF Finished
  <2>2. v \in DOMAIN tasks /\ tasks[v].step = i
    BY <2>1, <1>2
  <2>3. \A u \in DOMAIN tasks : tasks[u].step = i => tasks[u].status = "COMPLETED"
    BY <1>2, <1>7 DEF Finished, tab, s
  <2> QED BY <2>2, <2>3 DEF Finished
<1>8. IsFirstOpen(s, tasks)
  <2>1. \A j \in 1..(s - 1) : Finished(tasks, j)
    BY <1>1 DEF Table, InOrder, s
  <2> QED BY <2>1, <1>1, <1>5, StepStatusIs DEF IsFirstOpen
<1> QED BY <1>1, <1>6, <1>7, <1>8 DEF s, tab

\* No handler undoes a step or ends two: an owner who cancels or decides, and
\* a worker that completes a task, move Done by the first open step at most.
THEOREM StepsOneByOneCorrect == Spec => StepsOneByOne
<1> DEFINE OneByOne == \/ Done(tasks') = Done(tasks)
                       \/ \E i \in DOMAIN steps :
                            IsFirstOpen(i, tasks) /\ Done(tasks') = Done(tasks) \cup {i}
<1>1. ASSUME FlowInv, FlowInv', Next, steps # <<>> PROVE OneByOne
  <2>1. tasks \in Seq(TaskRow) /\ tasks' \in Seq(TaskRow)
    BY <1>1 DEF FlowInv, FlowTypeOK
  <2>2. /\ Done(tasks) = {i \in DOMAIN steps : Finished(tasks, i)}
        /\ Done(tasks') = {i \in DOMAIN steps : Finished(tasks', i)}
    BY <2>1, DoneIs
  <2>3. CASE CancelRequest
    <3>1. \A i : Finished(tasks', i) <=> Finished(tasks, i)
      BY <2>1, <2>3, CancelOpenRows, SameFinished DEF CancelRequest
    <3> QED BY <3>1, <2>2
  <2>4. ASSUME NEW t \in DOMAIN tasks, TaskNext(t) PROVE OneByOne
    <3>1. /\ Grown /\ tasks[t].status # "COMPLETED"
          /\ \A u \in DOMAIN tasks : tasks[u].status = "COMPLETED" => tasks'[u].status = "COMPLETED"
          /\ \A u \in DOMAIN tasks \ {t} : tasks'[u].status = "COMPLETED" => tasks[u].status = "COMPLETED"
      BY <1>1, <2>4, HandledIsOpen, HandlerMoves DEF Sets, Drops
    <3>2. /\ tasks[t].step \in DOMAIN steps /\ IsFirstOpen(tasks[t].step, tasks)
          /\ \A i : Finished(tasks, i) => Finished(tasks', i)
          /\ \A i : Finished(tasks', i) => Finished(tasks, i) \/ i = tasks[t].step
      BY <1>1, <3>1, OneStepEnds
    <3>3. CASE Finished(tasks', tasks[t].step)
      <4>1. Done(tasks') = Done(tasks) \cup {tasks[t].step}
        BY <2>2, <3>2, <3>3
      <4> QED BY <4>1, <3>2
    <3>4. CASE ~Finished(tasks', tasks[t].step)
      BY <2>2, <3>2, <3>4
    <3> QED BY <3>3, <3>4
  <2>5. ASSUME NEW wf \in Workflow, NEW repo \in BOOLEAN, CreateRequest(wf, repo) PROVE OneByOne
    <3>1. tasks = <<>> /\ DOMAIN tasks = {} /\ Grown
      BY <1>1, <2>5, CreateRows DEF Drops
    <3>2. \A i : ~Finished(tasks, i) /\ ~Finished(tasks', i)
      BY <3>1 DEF Finished, Grown
    <3> QED BY <3>2, <2>2
  <2> QED BY <1>1, <2>3, <2>4, <2>5 DEF Next
<1>2. ASSUME UNCHANGED vars PROVE OneByOne
  BY <1>2 DEF vars, Done
<1>3. FlowInv /\ FlowInv' /\ [Next]_vars => [steps # <<>> => OneByOne]_vars
  BY <1>1, <1>2
<1> QED BY <1>3, FlowInvariant, PTL DEF Spec, StepsOneByOne
=============================================================================

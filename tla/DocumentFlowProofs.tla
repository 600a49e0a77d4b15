-------------------------- MODULE DocumentFlowProofs --------------------------
(***************************************************************************)
(* Theorems about DocumentFlow, for every workflow, every set of documents *)
(* and every bound on what the owner edits and when the control plane      *)
(* dies: the composed system implements RequestFlow, and what is recorded  *)
(* as approved is what humans reviewed.                                    *)
(***************************************************************************)
EXTENDS DocumentFlow, RequestFlowProofs, FiniteSetTheorems

-----------------------------------------------------------------------------
(***************************************************************************)
(* The inductive invariant.                                                *)
(***************************************************************************)

\* An approval request of a task's documents belongs to a task that has documents,
\* and every version in it is one of a file.
RowsInv ==
  \A i \in DOMAIN approvals :
    /\ approvals[i].task # 0 =>
         approvals[i].task \in DOMAIN tasks /\ KindOf(approvals[i].task) # "code"
    /\ approvals[i].covers # <<>>
    /\ \A k \in DOMAIN approvals[i].covers : approvals[i].covers[k].version # 0

\* An open request of a task is about the whole output of a waiting task, and the
\* only one of it; a waiting task has one.
OpenInv ==
  /\ \A i \in Pending(approvals) : approvals[i].task # 0 =>
       /\ tasks[approvals[i].task].status = "WAITING_FOR_HUMAN"
       /\ output[approvals[i].task] = CoveredDocs(i)
       /\ \A j \in Pending(approvals) : approvals[j].task = approvals[i].task => j = i
  /\ \A t \in DOMAIN tasks :
       KindOf(t) # "code" /\ tasks[t].status = "WAITING_FOR_HUMAN" =>
         \E i \in Pending(approvals) : approvals[i].task = t

\* The recorded versions of a document have a largest.
LatestInv ==
  \A d \in Doc : \E m \in Versions(record, d) \cup {0} :
    \A v \in Versions(record, d) : v <= m

\* Version v of d could be recorded next: it is the first, or it follows a recorded
\* one under an approved change request.
MayFollow(d, v) ==
  \/ Versions(record, d) = {}
  \/ v - 1 \in Versions(record, d) /\ \E q \in record : d \in Affects[q.doc]

\* What was true of the primary document of a request when the request was made
\* is still true, unless another request covers the document beside its own.
AskedInv ==
  \A i \in Pending(approvals) :
    LET c == approvals[i].covers[1] IN
    ~IsExtra(c.doc) =>
      /\ c.version \in Versions(record, c.doc) \/ MayFollow(c.doc, c.version)
      /\ \A j \in Pending(approvals) : approvals[j].covers[1].doc = c.doc => j = i

DocInv ==
  /\ FlowInv /\ DocTypeOK /\ RowsInv /\ OpenInv /\ LatestInv /\ AskedInv
  /\ RecordedWasReviewed /\ NewVersionsAuthorised /\ UpstreamFirst /\ StepOutputsApproved

-----------------------------------------------------------------------------
(***************************************************************************)
(* Approval requests, versions and outputs.                                *)
(***************************************************************************)

\* What a row of the request table is made of.
LEMMA RowIs ==
  ASSUME NEW rows \in Seq(ApprovalRow)
  PROVE  /\ Len(rows) \in Nat /\ DOMAIN rows = 1..Len(rows)
         /\ \A i \in DOMAIN rows :
              /\ rows[i] \in ApprovalRow
              /\ rows[i].task \in Nat /\ rows[i].covers \in Seq(CoverSet)
              /\ rows[i].status \in {"PENDING_APPROVAL", "APPROVED", "CHANGES_REQUESTED", "REJECTED"}
              /\ rows[i].covers # <<>> => 1 \in DOMAIN rows[i].covers
              /\ \A k \in DOMAIN rows[i].covers :
                   /\ rows[i].covers[k] \in CoverSet
                   /\ rows[i].covers[k].doc \in Doc /\ rows[i].covers[k].version \in Nat
<1>1. /\ Len(rows) \in Nat /\ DOMAIN rows = 1..Len(rows)
      /\ \A i \in DOMAIN rows : rows[i] \in ApprovalRow
  OBVIOUS
<1>2. \A r \in ApprovalRow :
        /\ r.task \in Nat /\ r.covers \in Seq(CoverSet)
        /\ r.status \in {"PENDING_APPROVAL", "APPROVED", "CHANGES_REQUESTED", "REJECTED"}
  BY DEF ApprovalRow
<1>3. \A s \in Seq(CoverSet) : /\ s # <<>> => 1 \in DOMAIN s
                               /\ \A k \in DOMAIN s : s[k] \in CoverSet
  OBVIOUS
<1>4. \A c \in CoverSet : c.doc \in Doc /\ c.version \in Nat
  BY DEF CoverSet
<1> QED BY <1>1, <1>2, <1>3, <1>4

\* A row answers with another status and is the same request.
LEMMA AnsweredRow ==
  ASSUME NEW r \in ApprovalRow, NEW st \in {"APPROVED", "CHANGES_REQUESTED", "REJECTED"}
  PROVE  /\ [r EXCEPT !.status = st] \in ApprovalRow
         /\ [r EXCEPT !.status = st].task = r.task
         /\ [r EXCEPT !.status = st].covers = r.covers
         /\ [r EXCEPT !.status = st].status = st
BY DEF ApprovalRow

\* What every step does to the requests that are there.
RowsKept(rows, new) ==
  /\ new \in Seq(ApprovalRow) /\ DOMAIN rows \subseteq DOMAIN new
  /\ \A i \in DOMAIN rows :
       /\ new[i].task = rows[i].task /\ new[i].covers = rows[i].covers
       /\ new[i].status # rows[i].status => rows[i].status = "PENDING_APPROVAL"
                                            /\ new[i].status # "PENDING_APPROVAL"

\* A request that is asked comes behind the others and leaves them as they are.
LEMMA AppendedRequest ==
  ASSUME NEW rows \in Seq(ApprovalRow), NEW t \in Nat, NEW covers \in Seq(CoverSet),
         NEW new, new = Append(rows, Request(t, covers)), NEW n, n = Len(rows) + 1
  PROVE  /\ RowsKept(rows, new) /\ n \notin DOMAIN rows /\ DOMAIN new = DOMAIN rows \cup {n}
         /\ \A i \in DOMAIN rows : new[i] = rows[i]
         /\ new[n] = Request(t, covers)
<1> DEFINE r == Request(t, covers)
<1>1. r \in ApprovalRow
  BY DEF Request, ApprovalRow
<1> HIDE DEF r
<1>2. /\ new = Append(rows, r) /\ new \in Seq(ApprovalRow) /\ Len(new) = n /\ n \in Nat
      /\ DOMAIN rows = 1..Len(rows) /\ DOMAIN new = 1..n /\ Len(rows) \in Nat
      /\ \A i \in DOMAIN rows : new[i] = rows[i]
      /\ new[n] = r
  BY <1>1 DEF r
<1>3. RowsKept(rows, new) /\ n \notin DOMAIN rows /\ DOMAIN new = DOMAIN rows \cup {n}
  BY <1>2 DEF RowsKept
<1> QED BY <1>2, <1>3 DEF r

\* A new request is pending.
LEMMA RequestIs ==
  ASSUME NEW t, NEW covers
  PROVE  /\ Request(t, covers).task = t /\ Request(t, covers).covers = covers
         /\ Request(t, covers).status = "PENDING_APPROVAL"
BY DEF Request

\* An answer changes the status of its own request alone.
LEMMA AnsweredRows ==
  ASSUME approvals \in Seq(ApprovalRow), NEW i \in Pending(approvals),
         NEW st \in {"APPROVED", "CHANGES_REQUESTED", "REJECTED"}
  PROVE  /\ RowsKept(approvals, Answered(i, st)) /\ DOMAIN Answered(i, st) = DOMAIN approvals
         /\ \A j \in DOMAIN approvals \ {i} : Answered(i, st)[j] = approvals[j]
         /\ Answered(i, st)[i].status = st
<1>1. i \in DOMAIN approvals /\ approvals[i] \in ApprovalRow /\ approvals[i].status = "PENDING_APPROVAL"
  BY DEF Pending
<1> DEFINE r == [approvals[i] EXCEPT !.status = st]
<1>2. r \in ApprovalRow /\ r.task = approvals[i].task /\ r.covers = approvals[i].covers /\ r.status = st
  BY <1>1, AnsweredRow
<1>3. Answered(i, st) = [approvals EXCEPT ![i] = r]
  BY DEF Answered
<1> HIDE DEF r
<1> QED BY <1>1, <1>2, <1>3 DEF RowsKept

\* Withdrawing rejects the pending requests of the dropped tasks and no other
\* row.
LEMMA WithdrawnRows ==
  ASSUME NEW dropped, NEW f, NEW rows \in Seq(ApprovalRow), Withdraw(dropped, f, rows)
  PROVE  /\ RowsKept(rows, approvals') /\ DOMAIN approvals' = DOMAIN rows
         /\ \A i \in DOMAIN rows :
              IF rows[i].task \in dropped /\ rows[i].status = "PENDING_APPROVAL"
              THEN approvals'[i].status = "REJECTED" ELSE approvals'[i] = rows[i]
<1> DEFINE Row2(i) == IF rows[i].task \in dropped /\ rows[i].status = "PENDING_APPROVAL"
                      THEN [rows[i] EXCEPT !.status = "REJECTED"] ELSE rows[i]
<1>1. approvals' = [i \in DOMAIN rows |-> Row2(i)]
  BY DEF Withdraw
<1>2. \A i \in DOMAIN rows :
        /\ Row2(i) \in ApprovalRow
        /\ Row2(i).task = rows[i].task /\ Row2(i).covers = rows[i].covers
        /\ IF rows[i].task \in dropped /\ rows[i].status = "PENDING_APPROVAL"
           THEN Row2(i).status = "REJECTED" ELSE Row2(i) = rows[i]
  BY RowIs, AnsweredRow
<1> HIDE DEF Row2
<1>3. Len(rows) \in Nat /\ DOMAIN rows = 1..Len(rows)
  OBVIOUS
<1> QED BY <1>1, <1>2, <1>3 DEF RowsKept

\* A submission renews only what the owner asked for; the rows of tasks stay.
LEMMA FreshenedRows ==
  ASSUME approvals \in Seq(ApprovalRow), NEW d
  PROVE  /\ RowsKept(approvals, Freshened(d)) /\ DOMAIN Freshened(d) = DOMAIN approvals
         /\ \A i \in DOMAIN approvals : approvals[i].task # 0 => Freshened(d)[i] = approvals[i]
<1> DEFINE Stale(i) == /\ approvals[i].status = "PENDING_APPROVAL" /\ approvals[i].task = 0
                       /\ approvals[i].covers[1].doc = d /\ approvals[i].covers[1] # Cover(file, d)
           Row2(i) == IF Stale(i) THEN [approvals[i] EXCEPT !.status = "CHANGES_REQUESTED"]
                      ELSE approvals[i]
<1>1. Freshened(d) = [i \in DOMAIN approvals |-> Row2(i)]
  BY DEF Freshened
<1>2. \A i \in DOMAIN approvals :
        /\ Row2(i) \in ApprovalRow
        /\ Row2(i).task = approvals[i].task /\ Row2(i).covers = approvals[i].covers
        /\ Row2(i) = approvals[i] \/ (Stale(i) /\ Row2(i).status = "CHANGES_REQUESTED")
  BY RowIs, AnsweredRow
<1>3. \A i \in DOMAIN approvals : Stale(i) => approvals[i].task = 0 /\ approvals[i].status = "PENDING_APPROVAL"
  OBVIOUS
<1> HIDE DEF Row2, Stale
<1>4. Len(approvals) \in Nat /\ DOMAIN approvals = 1..Len(approvals)
  OBVIOUS
<1> QED BY <1>1, <1>2, <1>3, <1>4 DEF RowsKept

\* Where a largest version exists, Latest is it.
LEMMA LatestIs ==
  ASSUME NEW rec \in SUBSET CoverSet, NEW d, NEW m \in Versions(rec, d) \cup {0},
         \A v \in Versions(rec, d) : v <= m
  PROVE  /\ Versions(rec, d) \subseteq Nat
         /\ Latest(rec, d) = m /\ m \in Nat
<1>1. Versions(rec, d) \subseteq Nat
  BY DEF Versions, CoverSet
<1>2. \A x \in Versions(rec, d) \cup {0} : (\A y \in Versions(rec, d) \cup {0} : x >= y) <=> x = m
  BY <1>1
<1> QED BY <1>1, <1>2 DEF Latest, Max

\* The first part of a concatenation.
LEMMA Concatenated ==
  ASSUME NEW S, NEW a \in Seq(S), NEW b \in Seq(S), NEW c, c = a \o b
  PROVE  /\ c \in Seq(S) /\ Len(c) = Len(a) + Len(b)
         /\ \A k \in 1..Len(a) : c[k] = a[k]
OBVIOUS

\* New tasks have no output yet.
LEMMA NewRowsKeep ==
  ASSUME tasks \in Seq(TaskRow), tasks' \in Seq(TaskRow), DOMAIN tasks \subseteq DOMAIN tasks',
         NEW out \in Seq(SUBSET Doc), Len(out) = Len(tasks),
         NEW n, n = Len(tasks') - Len(tasks),
         NEW new, new = out \o [k \in 1..n |-> {}], output' = new
  PROVE  /\ output' \in Seq(SUBSET Doc) /\ Len(output') = Len(tasks')
         /\ \A t \in DOMAIN tasks : output'[t] = out[t]
<1>1. /\ Len(tasks) \in Nat /\ Len(tasks') \in Nat
      /\ DOMAIN tasks = 1..Len(tasks) /\ DOMAIN tasks' = 1..Len(tasks')
  OBVIOUS
<1>2. Len(tasks) <= Len(tasks') /\ n \in Nat
  <2>1. CASE Len(tasks) = 0
    BY <1>1, <2>1
  <2>2. CASE Len(tasks) # 0
    <3>1. Len(tasks) \in DOMAIN tasks
      BY <1>1, <2>2
    <3>2. Len(tasks) \in DOMAIN tasks'
      BY <3>1
    <3> QED BY <1>1, <3>2
  <2> QED BY <2>1, <2>2
<1> DEFINE e == [k \in 1..n |-> {}]
<1>3. e \in Seq(SUBSET Doc)
  BY <1>2
<1>4. Len(e) = n
  BY <1>2
<1> HIDE DEF e
<1>5. /\ new \in Seq(SUBSET Doc) /\ Len(new) = Len(out) + Len(e)
      /\ \A k \in 1..Len(out) : new[k] = out[k]
  <2>1. out \in Seq(SUBSET Doc)
    OBVIOUS
  <2>2. new = out \o e
    BY DEF e
  <2> QED BY ONLY <1>3, <2>1, <2>2, Concatenated
<1>6. Len(new) = Len(tasks')
  <2>1. Len(e) = Len(tasks') - Len(tasks) /\ Len(new) = Len(tasks) + Len(e)
    BY <1>4, <1>5
  <2> QED BY <1>1, <2>1
<1> QED BY <1>1, <1>5, <1>6

-----------------------------------------------------------------------------
(***************************************************************************)
(* Every step of the composed system is one of the engine, or none.        *)
(***************************************************************************)
LEMMA FlowStep == RowsInv /\ [DocNext]_allVars => [Next]_vars
<1> SUFFICES ASSUME RowsInv, [DocNext]_allVars PROVE [Next]_vars
  OBVIOUS
<1>1. \A i \in Pending(approvals) : approvals[i].task # 0 => approvals[i].task \in DOMAIN tasks
  BY DEF RowsInv, Pending
<1>2. ASSUME NEW wf \in Workflow, Create(wf) PROVE Next
  BY <1>2 DEF Create, Next, StartsWithCode
<1>3. ASSUME NEW t \in DOMAIN tasks, WorkTask(t) \/ TaskOutput(t) \/ PlanOutput(t) \/ RejectCode(t)
      PROVE  Next
  <2>1. TaskNext(t)
    BY <1>3 DEF WorkTask, TaskOutput, PlanOutput, RejectCode, TaskNext
  <2> QED BY <2>1 DEF Next
<1>4. ASSUME Cancel PROVE Next
  BY <1>4 DEF Cancel, Next, TaskNext
<1>5. ASSUME NEW i \in DOMAIN approvals, Approve(i) \/ RequestChanges(i) \/ RejectDocuments(i)
      PROVE  [Next]_vars
  <2>1. CASE approvals[i].task = 0
    BY <1>5, <2>1 DEF Approve, RequestChanges, RejectDocuments
  <2>2. CASE approvals[i].task # 0
    <3>1. approvals[i].task \in DOMAIN tasks
      BY <1>1, <1>5, <2>2 DEF Approve, RequestChanges, RejectDocuments
    <3>2. TaskNext(approvals[i].task)
      BY <1>5, <2>2 DEF Approve, RequestChanges, RejectDocuments, TaskNext
    <3> QED BY <3>1, <3>2 DEF Next
  <2> QED BY <2>1, <2>2
<1>6. ASSUME \/ \E t \in DOMAIN tasks : CrashInOutput(t)
             \/ \E i \in DOMAIN approvals : CrashInDecision(i)
             \/ \E d \in Doc : \/ \E c \in Content : NewDocument(d, c)
                               \/ EditFile(d) \/ Submit(d) \/ CrashInSubmit(d)
             \/ UNCHANGED allVars
      PROVE  UNCHANGED vars
  BY <1>6 DEF CrashInOutput, CrashInDecision, NewDocument, EditFile, Submit, CrashInSubmit, Torn, allVars
<1> QED BY <1>2, <1>3, <1>4, <1>5, <1>6 DEF DocNext

-----------------------------------------------------------------------------
(***************************************************************************)
(* What a step does to requests, outputs and records is one of three       *)
(* things: it settles open requests, asks for a decision, or approves.     *)
(***************************************************************************)

\* Nothing is recorded, no request is new, and those of tasks that stop waiting close.
Settles ==
  /\ record' = record /\ DOMAIN approvals' = DOMAIN approvals
  /\ \A u \in DOMAIN tasks : KindOf(u) # "code" =>
       /\ tasks'[u].status = "WAITING_FOR_HUMAN" =>
            tasks[u].status = "WAITING_FOR_HUMAN" /\ output'[u] = output[u]
       /\ tasks'[u].status = "COMPLETED" /\ Gated(u) =>
            tasks[u].status = "COMPLETED" /\ output'[u] = output[u]
  /\ \A i \in Pending(approvals) : approvals[i].task # 0 =>
       (i \in Pending(approvals') <=> tasks'[approvals[i].task].status = "WAITING_FOR_HUMAN")

\* Request n is made, by task t or (0) by the owner.
Asks(n, t) ==
  /\ record' = record
  /\ n \notin DOMAIN approvals /\ DOMAIN approvals' = DOMAIN approvals \cup {n}
  /\ approvals'[n].task = t /\ approvals'[n].status = "PENDING_APPROVAL"
  /\ approvals'[n].covers # <<>>
  /\ \A k \in DOMAIN approvals'[n].covers : approvals'[n].covers[k].version # 0
  /\ LET c == approvals'[n].covers[1] IN
     /\ c.version \in Versions(record, c.doc) \/ MayFollow(c.doc, c.version)
     /\ \A j \in Pending(approvals') : approvals'[j].covers[1].doc = c.doc => j = n
  /\ t # 0 => /\ t \in DOMAIN tasks /\ KindOf(t) # "code"
              /\ tasks[t].status # "WAITING_FOR_HUMAN" /\ tasks'[t].status = "WAITING_FOR_HUMAN"
              /\ output'[t] = {c.doc : c \in ToSet(approvals'[n].covers)}
  /\ \A u \in DOMAIN tasks : u # t =>
       tasks'[u].status = tasks[u].status /\ output'[u] = output[u]
  /\ \A i \in Pending(approvals) : approvals[i].task # 0 => i \in Pending(approvals')

\* Request i is approved and what it covers recorded.
Approves(i) ==
  /\ i \in Pending(approvals) /\ DOMAIN approvals' = DOMAIN approvals
  /\ approvals'[i].status = "APPROVED"
  /\ \A j \in DOMAIN approvals \ {i} : approvals'[j] = approvals[j]
  /\ record' = record \cup ToSet(approvals[i].covers)
  /\ \A c \in ToSet(approvals[i].covers) :
       /\ c.version \notin Versions(record, c.doc)
       /\ \A v \in Versions(record', c.doc) : v <= c.version
       /\ \A u \in Upstream[c.doc] : Versions(record', u) # {}
  /\ approvals[i].task # 0 => tasks'[approvals[i].task].status = "COMPLETED"
  /\ \A u \in DOMAIN tasks :
       /\ output'[u] = output[u]
       /\ u # approvals[i].task => tasks'[u].status = tasks[u].status

\* In every case rows are kept, of the tasks and of the requests.
Kept ==
  Grown /\ RowsKept(approvals, approvals') /\ output' \in Seq(SUBSET Doc) /\ Len(output') = Len(tasks')

Shaped == Kept /\ (Settles \/ (\E n : \E t \in Nat : Asks(n, t)) \/ \E i : Approves(i))

\* The outputs grow with the tasks; the former ones stay.
LEMMA NewRowsOutput ==
  ASSUME Grown, tasks \in Seq(TaskRow), DocTypeOK, NewRows
  PROVE  /\ output' \in Seq(SUBSET Doc) /\ Len(output') = Len(tasks')
         /\ \A t \in DOMAIN tasks : output'[t] = output[t]
<1>1. PICK n, new : /\ n = Len(tasks') - Len(tasks)
                    /\ new = output \o [k \in 1..n |-> {}] /\ output' = new
  BY DEF NewRows
<1> QED BY <1>1, NewRowsKeep DEF Grown, DocTypeOK

\* Where the rows of the tasks stay, nothing happens to the outputs.
LEMMA TasksStay ==
  ASSUME tasks \in Seq(TaskRow), UNCHANGED vars PROVE Grown
BY DEF Grown, vars

\* A table that does not change keeps its rows.
LEMMA RowsStay ==
  ASSUME approvals \in Seq(ApprovalRow), approvals' = approvals PROVE RowsKept(approvals, approvals')
BY DEF RowsKept

\* A step that leaves tasks, records and requests alone settles none of them.
LEMMA IdleShape ==
  ASSUME DocInv, UNCHANGED <<vars, record, approvals, output>> PROVE Shaped
<1>1. Grown
  BY TasksStay DEF DocInv, FlowInv, FlowTypeOK
<1>2. Kept
  BY <1>1, RowsStay DEF Kept, DocInv, DocTypeOK, vars
<1>3. Settles
  BY DEF Settles, DocInv, OpenInv, vars, Pending
<1> QED BY <1>2, <1>3 DEF Shaped

\* Creating a request touches no document.
LEMMA CreateShape ==
  ASSUME DocInv, NEW wf \in Workflow, Create(wf) PROVE Shaped
<1>1. tasks = <<>> /\ Drops /\ NewRows /\ UNCHANGED <<record, approvals>>
  BY CreateRows DEF Create, DocInv
<1>2. Kept
  BY <1>1, NewRowsOutput, RowsStay DEF Kept, Drops, DocInv, DocTypeOK, FlowInv, FlowTypeOK
<1>3. Settles
  <2>1. \A i \in Pending(approvals) : approvals[i].task = 0
    BY <1>1 DEF DocInv, RowsInv, Pending
  <2> QED BY <1>1, <2>1 DEF Settles
<1> QED BY <1>2, <1>3 DEF Shaped

\* A task moves that has no open request and is not about to wait or complete as one
\* with documents.
LEMMA SetsShape ==
  ASSUME DocInv, NEW t \in DOMAIN tasks, NEW st, Sets(t, st),
         \A i \in Pending(approvals) : approvals[i].task # t,
         KindOf(t) = "code" \/ st \in {"PENDING", "RUNNING", "FAILED"},
         NewRows, UNCHANGED <<record, approvals>>
  PROVE  Shaped
<1>1. Kept /\ \A u \in DOMAIN tasks : output'[u] = output[u]
  BY NewRowsOutput, RowsStay DEF Kept, Sets, DocInv, DocTypeOK, FlowInv, FlowTypeOK
<1>2. Settles
  <2>1. ASSUME NEW u \in DOMAIN tasks, KindOf(u) # "code",
               tasks'[u].status \in {"WAITING_FOR_HUMAN", "COMPLETED"}
        PROVE  tasks'[u].status = tasks[u].status
    BY <2>1 DEF Sets
  <2>2. ASSUME NEW i \in Pending(approvals), approvals[i].task # 0
        PROVE  i \in Pending(approvals') /\ tasks'[approvals[i].task].status = "WAITING_FOR_HUMAN"
    BY <2>2 DEF Sets, DocInv, OpenInv, RowsInv, Pending
  <2> QED BY <1>1, <2>1, <2>2 DEF Settles
<1> QED BY <1>1, <1>2 DEF Shaped

\* What workers do to a task touches no document.
LEMMA WorkTaskShape ==
  ASSUME DocInv, NEW t \in DOMAIN tasks, WorkTask(t) PROVE Shaped
<1>1. NewRows /\ UNCHANGED <<record, approvals>>
  BY DEF WorkTask
<1>2. \A i \in Pending(approvals) : approvals[i].task = t =>
        t # 0 /\ KindOf(t) # "code" /\ tasks[t].status = "WAITING_FOR_HUMAN"
  <2>1. t # 0
    BY DEF DocInv, FlowInv, FlowTypeOK
  <2> QED BY <2>1 DEF DocInv, RowsInv, OpenInv, Pending
<1>3. CASE Take(t)
  BY <1>1, <1>2, <1>3, HandlerRows, SetsShape DEF Take, Moves, DocInv
<1>4. CASE Release(t)
  BY <1>1, <1>2, <1>4, HandlerRows, SetsShape DEF Release, Moves, DocInv
<1>5. CASE Fail(t)
  BY <1>1, <1>2, <1>5, HandlerRows, SetsShape DEF Fail, Moves, DocInv
<1>6. CASE RetryTask(t)
  BY <1>1, <1>2, <1>6, HandlerRows, SetsShape DEF RetryTask, Moves, DocInv
<1>7. CASE AskMerge(t)
  BY <1>1, <1>2, <1>7, HandlerRows, SetsShape DEF AskMerge, DocInv
<1>8. CASE ApproveMerge(t)
  BY <1>1, <1>2, <1>8, HandlerRows, SetsShape DEF ApproveMerge, DocInv
<1>9. CASE ReworkCode(t)
  BY <1>1, <1>2, <1>9, HandlerRows, SetsShape DEF ReworkCode, DocInv
<1>10. CASE CompleteCode(t)
  BY <1>1, <1>2, <1>10, HandlerRows, SetsShape DEF CompleteCode, DocInv
<1> QED BY <1>3, <1>4, <1>5, <1>6, <1>7, <1>8, <1>9, <1>10 DEF WorkTask

\* Some tasks are cancelled and their requests withdrawn.
LEMMA DropsShape ==
  ASSUME DocInv, Drops, NewRows, record' = record,
         NEW f, NEW rows, Withdraw(Dropped, f, rows), rows = approvals
  PROVE  Shaped
<1>1. /\ RowsKept(approvals, approvals') /\ DOMAIN approvals' = DOMAIN approvals
      /\ \A i \in DOMAIN approvals :
           IF approvals[i].task \in Dropped /\ approvals[i].status = "PENDING_APPROVAL"
           THEN approvals'[i].status = "REJECTED" ELSE approvals'[i] = approvals[i]
  BY WithdrawnRows DEF DocInv, DocTypeOK
<1>2. Kept /\ \A u \in DOMAIN tasks : output'[u] = output[u]
  BY <1>1, NewRowsOutput DEF Kept, Drops, DocInv, FlowInv, FlowTypeOK
<1>3. \A u \in DOMAIN tasks : tasks'[u].status \in {tasks[u].status, "CANCELLED"}
  BY DEF Drops
<1>4. ASSUME NEW i \in Pending(approvals), approvals[i].task # 0
      PROVE  i \in Pending(approvals') <=> tasks'[approvals[i].task].status = "WAITING_FOR_HUMAN"
  <2>1. /\ i \in DOMAIN approvals /\ approvals[i].status = "PENDING_APPROVAL"
        /\ approvals[i].task \in DOMAIN tasks /\ tasks[approvals[i].task].status = "WAITING_FOR_HUMAN"
    BY <1>4 DEF DocInv, RowsInv, OpenInv, Pending
  <2>2. approvals[i].task \in Dropped <=> tasks'[approvals[i].task].status = "CANCELLED"
    BY <2>1 DEF Dropped
  <2> QED BY <1>1, <1>3, <2>1, <2>2 DEF Pending
<1>5. Settles
  BY <1>1, <1>2, <1>3, <1>4 DEF Settles
<1> QED BY <1>2, <1>5 DEF Shaped

\* A cancellation withdraws the requests of the cancelled tasks.
LEMMA CancelShape == DocInv /\ Cancel => Shaped
<1> SUFFICES ASSUME DocInv, Cancel PROVE Shaped
  OBVIOUS
<1>1. Drops
  BY CancelRequestRows, HandlerRows DEF Cancel, DocInv
<1> QED BY <1>1, DropsShape DEF Cancel

\* Rejecting code withdraws the requests of the tasks it cancels.
LEMMA RejectCodeShape ==
  ASSUME DocInv, NEW t \in DOMAIN tasks, RejectCode(t) PROVE Shaped
<1>1. Drops
  BY HandlerRows DEF RejectCode, DocInv
<1> QED BY <1>1, DropsShape DEF RejectCode

-----------------------------------------------------------------------------
(***************************************************************************)
(* Decisions.                                                              *)
(***************************************************************************)

\* What the invariant says of an open request.
LEMMA OpenRequest ==
  ASSUME DocInv, NEW i \in Pending(approvals)
  PROVE  /\ i \in DOMAIN approvals /\ approvals[i].status = "PENDING_APPROVAL"
         /\ approvals[i] \in ApprovalRow /\ approvals[i].covers \in Seq(CoverSet)
         /\ approvals[i].covers # <<>> /\ 1 \in DOMAIN approvals[i].covers
         /\ \A c \in ToSet(approvals[i].covers) :
              c \in CoverSet /\ c.doc \in Doc /\ c.version \in Nat \ {0}
         /\ \A t \in DOMAIN tasks : t # 0
         /\ approvals[i].task # 0 =>
              /\ approvals[i].task \in DOMAIN tasks /\ KindOf(approvals[i].task) # "code"
              /\ tasks[approvals[i].task].status = "WAITING_FOR_HUMAN"
              /\ output[approvals[i].task] = CoveredDocs(i)
              /\ \A j \in Pending(approvals) : approvals[j].task = approvals[i].task => j = i
<1>1. i \in DOMAIN approvals /\ approvals[i].status = "PENDING_APPROVAL"
  BY DEF Pending
<1>2. /\ approvals[i] \in ApprovalRow /\ approvals[i].covers \in Seq(CoverSet)
      /\ approvals[i].covers # <<>> => 1 \in DOMAIN approvals[i].covers
      /\ \A k \in DOMAIN approvals[i].covers :
           /\ approvals[i].covers[k] \in CoverSet
           /\ approvals[i].covers[k].doc \in Doc /\ approvals[i].covers[k].version \in Nat
  BY <1>1, RowIs DEF DocInv, DocTypeOK
<1>3. /\ approvals[i].covers # <<>>
      /\ \A k \in DOMAIN approvals[i].covers : approvals[i].covers[k].version # 0
  BY <1>1 DEF DocInv, RowsInv
<1>4. \A t \in DOMAIN tasks : t # 0
  BY DEF DocInv, FlowInv, FlowTypeOK
<1>5. \A c \in ToSet(approvals[i].covers) : \E k \in DOMAIN approvals[i].covers : c = approvals[i].covers[k]
  BY DEF ToSet
<1> QED BY <1>1, <1>2, <1>3, <1>4, <1>5 DEF DocInv, RowsInv, OpenInv

\* Asking for changes answers one request.
LEMMA RequestChangesShape ==
  ASSUME DocInv, NEW i \in DOMAIN approvals, RequestChanges(i) PROVE Shaped
<1> DEFINE t == approvals[i].task
<1>1. /\ i \in Pending(approvals) /\ NewRows /\ record' = record
      /\ approvals' = Answered(i, "CHANGES_REQUESTED")
      /\ t = 0 => UNCHANGED vars
      /\ t # 0 => ReworkDocument(t)
  BY DEF RequestChanges
<1>2. /\ RowsKept(approvals, approvals') /\ DOMAIN approvals' = DOMAIN approvals
      /\ \A j \in DOMAIN approvals \ {i} : approvals'[j] = approvals[j]
      /\ approvals'[i].status = "CHANGES_REQUESTED"
  BY <1>1, AnsweredRows DEF DocInv, DocTypeOK
<1>3. /\ t # 0 => t \in DOMAIN tasks
      /\ \A j \in Pending(approvals) : t # 0 /\ approvals[j].task = t => j = i
  BY <1>1, OpenRequest
<1>4. /\ t # 0 => Sets(t, "PENDING")
      /\ Grown
      /\ \A u \in DOMAIN tasks : tasks'[u].status = IF u = t THEN "PENDING" ELSE tasks[u].status
  <2>1. CASE t = 0
    <3>1. \A u \in DOMAIN tasks : u # 0
      BY DEF DocInv, FlowInv, FlowTypeOK
    <3> QED BY <2>1, <3>1, <1>1, TasksStay DEF vars, DocInv, FlowInv, FlowTypeOK
  <2>2. CASE t # 0
    BY <2>2, <1>1, <1>3, HandlerRows DEF DocInv, Sets
  <2> QED BY <2>1, <2>2
<1> HIDE DEF t
<1>5. Kept /\ \A u \in DOMAIN tasks : output'[u] = output[u]
  BY <1>1, <1>2, <1>4, NewRowsOutput DEF Kept, DocInv, FlowInv, FlowTypeOK
<1>6. ASSUME NEW j \in Pending(approvals), approvals[j].task # 0
      PROVE  j \in Pending(approvals') <=> tasks'[approvals[j].task].status = "WAITING_FOR_HUMAN"
  <2>1. j \in DOMAIN approvals /\ approvals[j].task \in DOMAIN tasks
        /\ tasks[approvals[j].task].status = "WAITING_FOR_HUMAN"
    BY <1>6, OpenRequest
  <2>2. CASE j = i
    BY <2>1, <2>2, <1>2, <1>4 DEF Pending, t
  <2>3. CASE j # i
    <3>1. approvals[j].task # t
      BY <1>1, <1>3, <1>6, <2>3
    <3> QED BY <3>1, <2>1, <2>3, <1>2, <1>4 DEF Pending
  <2> QED BY <2>2, <2>3
<1>7. Settles
  BY <1>1, <1>2, <1>4, <1>5, <1>6 DEF Settles
<1> QED BY <1>5, <1>7 DEF Shaped

\* Rejecting documents answers one request and withdraws the others.
LEMMA RejectDocumentsShape ==
  ASSUME DocInv, NEW i \in DOMAIN approvals, RejectDocuments(i) PROVE Shaped
<1> DEFINE t == approvals[i].task
           rows == Answered(i, "REJECTED")
<1>1. /\ i \in Pending(approvals) /\ NewRows /\ record' = record
      /\ Withdraw(Dropped \ {t}, Marked(i, "rejected"), rows)
      /\ t = 0 => UNCHANGED vars
      /\ t # 0 => Reject(t)
  BY DEF RejectDocuments
<1>2. /\ RowsKept(approvals, rows) /\ DOMAIN rows = DOMAIN approvals
      /\ \A j \in DOMAIN approvals \ {i} : rows[j] = approvals[j]
      /\ rows[i].status = "REJECTED"
  BY <1>1, AnsweredRows DEF DocInv, DocTypeOK
<1> HIDE DEF rows
<1>3. /\ RowsKept(rows, approvals') /\ DOMAIN approvals' = DOMAIN rows
      /\ \A j \in DOMAIN rows :
           IF rows[j].task \in Dropped \ {t} /\ rows[j].status = "PENDING_APPROVAL"
           THEN approvals'[j].status = "REJECTED" ELSE approvals'[j] = rows[j]
  BY <1>1, <1>2, WithdrawnRows DEF RowsKept
<1>4. RowsKept(approvals, approvals') /\ DOMAIN approvals' = DOMAIN approvals
  BY <1>2, <1>3 DEF RowsKept
<1>5. /\ t # 0 => t \in DOMAIN tasks /\ tasks[t].status = "WAITING_FOR_HUMAN"
      /\ \A j \in Pending(approvals) : t # 0 /\ approvals[j].task = t => j = i
  BY <1>1, OpenRequest
<1>6. /\ t # 0 => tasks'[t].status = "CANCELLED"
      /\ Grown
      /\ \A u \in DOMAIN tasks : tasks'[u].status \in {tasks[u].status, "CANCELLED"}
  <2>1. CASE t = 0
    BY <2>1, <1>1, TasksStay DEF vars, DocInv, FlowInv, FlowTypeOK
  <2>2. CASE t # 0
    BY <2>2, <1>1, <1>5, HandlerRows DEF DocInv, Drops
  <2> QED BY <2>1, <2>2
<1> HIDE DEF t
<1>7. Kept /\ \A u \in DOMAIN tasks : output'[u] = output[u]
  BY <1>1, <1>4, <1>6, NewRowsOutput DEF Kept, DocInv, FlowInv, FlowTypeOK
<1>8. ASSUME NEW j \in Pending(approvals), approvals[j].task # 0
      PROVE  j \in Pending(approvals') <=> tasks'[approvals[j].task].status = "WAITING_FOR_HUMAN"
  <2>1. j \in DOMAIN approvals /\ approvals[j].task \in DOMAIN tasks
        /\ tasks[approvals[j].task].status = "WAITING_FOR_HUMAN"
        /\ approvals[j].status = "PENDING_APPROVAL"
    BY <1>8, OpenRequest
  <2>2. CASE j = i
    <3>1. approvals'[i].status # "PENDING_APPROVAL"
      BY <2>1, <2>2, <1>2, <1>3
    <3>2. tasks'[t].status = "CANCELLED"
      BY <1>6, <1>8, <2>2 DEF t
    <3> QED BY <3>1, <3>2, <2>2 DEF Pending, t
  <2>3. CASE j # i
    <3>1. approvals[j].task # t
      BY <1>1, <1>5, <1>8, <2>3
    <3>2. rows[j] = approvals[j]
      BY <1>2, <2>1, <2>3
    <3>3. approvals[j].task \in Dropped \ {t} <=> tasks'[approvals[j].task].status = "CANCELLED"
      BY <3>1, <2>1 DEF Dropped
    <3>4. tasks'[approvals[j].task].status \in {"WAITING_FOR_HUMAN", "CANCELLED"}
      BY <1>6, <2>1
    <3>5. j \in Pending(approvals') <=> approvals'[j].status = "PENDING_APPROVAL"
      BY <1>4, <2>1 DEF Pending
    <3> QED BY <3>2, <3>3, <3>4, <3>5, <2>1, <1>2, <1>3
  <2> QED BY <2>2, <2>3
<1>9. Settles
  BY <1>1, <1>4, <1>6, <1>7, <1>8 DEF Settles
<1> QED BY <1>7, <1>9 DEF Shaped

-----------------------------------------------------------------------------
(***************************************************************************)
(* Outputs and submissions.                                                *)
(***************************************************************************)
Written1 == [status : DocStatus, version : Nat \ {0}, content : Content]
FileType == [Doc -> Written1 \cup {Absent}]

\* A file is absent, or has a status, a version and a content.
LEMMA FileIs ==
  ASSUME NEW f \in FileType, NEW d \in Doc
  PROVE  /\ f[d] # Absent => f[d] \in Written1
         /\ f[d] = Absent => f[d].status = "absent" /\ f[d].version = 0
         /\ f[d].version # 0 => f[d] \in Written1
         /\ f[d].status # "absent" => f[d] \in Written1
         /\ f[d] \in Written1 => /\ f[d].status \in DocStatus /\ f[d].version \in Nat \ {0}
                                 /\ f[d].content \in Content
BY DEF FileType, Written1, Absent, DocStatus

\* The recorded versions of a document are numbers, the latest of them the
\* largest.
LEMMA RecordedVersions ==
  ASSUME DocInv, NEW d
  PROVE  /\ Versions(record, d) \subseteq Nat \ {0}
         /\ Latest(record, d) \in Nat
         /\ d \in Doc => Latest(record, d) \in Versions(record, d) \cup {0}
         /\ d \in Doc => \A v \in Versions(record, d) : v <= Latest(record, d)
<1>1. \A r \in record : r.version \in Nat \ {0} /\ r.doc \in Doc
  <2> SUFFICES ASSUME NEW r \in record PROVE r.version \in Nat \ {0} /\ r.doc \in Doc
    OBVIOUS
  <2>1. r.version \in Nat /\ r.doc \in Doc
    BY DEF DocInv, DocTypeOK, CoverSet
  <2>2. PICK i \in DOMAIN approvals : r \in ToSet(approvals[i].covers)
    BY DEF DocInv, RecordedWasReviewed
  <2>3. PICK k \in DOMAIN approvals[i].covers : r = approvals[i].covers[k]
    BY <2>2 DEF ToSet
  <2> QED BY <2>1, <2>3 DEF DocInv, RowsInv
<1>2. Versions(record, d) \subseteq Nat \ {0}
  BY <1>1 DEF Versions
<1>3. CASE d \in Doc
  <2>1. PICK m \in Versions(record, d) \cup {0} : \A v \in Versions(record, d) : v <= m
    BY <1>3 DEF DocInv, LatestInv
  <2> QED BY <2>1, <1>2, LatestIs DEF DocInv, DocTypeOK
<1>4. CASE d \notin Doc
  <2>1. Versions(record, d) = {}
    BY <1>1, <1>4 DEF Versions
  <2>2. 0 \in Versions(record, d) \cup {0} /\ \A v \in Versions(record, d) : v <= 0
    BY <2>1
  <2> QED BY <2>2, <1>2, <1>4, LatestIs DEF DocInv, DocTypeOK
<1> QED BY <1>2, <1>3, <1>4

\* A version the validator accepts is recorded or could be next.
LEMMA CheckedVersion ==
  ASSUME DocInv, NEW f, NEW d \in Doc, CheckVersioning(f, record, d)
  PROVE  f[d].version \in Versions(record, d) \/ MayFollow(d, f[d].version)
<1>1. CASE Latest(record, d) > 0
  <2>1. Latest(record, d) \in Versions(record, d)
    BY <1>1, RecordedVersions
  <2>2. CASE f[d].version = Latest(record, d)
    BY <2>1, <2>2
  <2>3. CASE f[d].version = Latest(record, d) + 1 /\ AuthorisedByCR(f, record, d)
    <3>1. PICK cr \in Doc : d \in Affects[cr] /\ Cover(f, cr) \in record
      BY <2>3 DEF AuthorisedByCR, IsApproved
    <3>2. Cover(f, cr).doc = cr
      BY DEF Cover
    <3>3. f[d].version - 1 = Latest(record, d)
      BY <2>3, RecordedVersions
    <3> QED BY <3>1, <3>2, <3>3, <2>1 DEF MayFollow
  <2> QED BY <1>1, <2>2, <2>3 DEF CheckVersioning
<1>2. CASE Latest(record, d) = 0
  <2>1. Versions(record, d) = {}
    BY <1>2, RecordedVersions
  <2> QED BY <2>1 DEF MayFollow
<1> QED BY <1>1, <1>2, RecordedVersions

\* An output has a first document and a text.
LEMMA OutputIs ==
  ASSUME DocInv, NEW t \in DOMAIN tasks, NEW o \in Outputs(t)
  PROVE  /\ o.docs \in Seq(Doc) /\ o.docs # <<>> /\ 1 \in DOMAIN o.docs
         /\ ToSet(o.docs) \in SUBSET Doc /\ o.docs[1] \in ToSet(o.docs)
         /\ o.text \in Content
<1>1. Primaries(t) \subseteq Doc /\ Extras(t) \subseteq Doc
  <2>1. t \in DOMAIN output /\ \A u \in DOMAIN output : output[u] \subseteq Doc
    BY DEF DocInv, DocTypeOK, FlowInv, FlowTypeOK
  <2>2. \A ty : Mine(t, ty) \subseteq Doc
    BY <2>1 DEF Mine, NextID
  <2>3. \A d \in UNION {output[u] : u \in DOMAIN output} : Affects[d] \subseteq Doc
    BY <2>1, DocAssumption
  <2>4. Target(t) \subseteq Doc
    BY <2>3 DEF Target, Targets
  <2> QED BY <2>2, <2>4 DEF Primaries, Extras
<1>2. o.text \in Content /\ \/ \E d \in Primaries(t) : o.docs = <<d>>
                            \/ \E d \in Primaries(t), x \in Extras(t) : o.docs = <<d, x>>
  BY DEF Outputs
<1>3. o.docs \in Seq(Doc) /\ o.docs # <<>> /\ 1 \in DOMAIN o.docs
  <2>1. ASSUME NEW s, NEW d \in Doc, s = <<d>> PROVE s \in Seq(Doc) /\ s # <<>> /\ 1 \in DOMAIN s
    BY <2>1
  <2>2. ASSUME NEW s, NEW d \in Doc, NEW x \in Doc, s = <<d, x>>
        PROVE  s \in Seq(Doc) /\ s # <<>> /\ 1 \in DOMAIN s
    BY <2>2
  <2> QED BY <2>1, <2>2, <1>1, <1>2
<1>4. ASSUME NEW s \in Seq(Doc), 1 \in DOMAIN s PROVE ToSet(s) \in SUBSET Doc /\ s[1] \in ToSet(s)
  BY <1>4 DEF ToSet
<1> QED BY <1>2, <1>3, <1>4

\* A written document gets a positive version.
LEMMA NewVersionIs ==
  ASSUME DocInv, NEW t, NEW d \in Doc PROVE NewVersion(t, d) \in Nat \ {0}
<1>1. file \in FileType
  BY DEF DocInv, DocTypeOK, FileType, Written1
<1>2. Exists(d) => file[d].version \in Nat \ {0}
  BY <1>1, FileIs DEF Exists
<1> QED BY <1>2, RecordedVersions DEF NewVersion

\* Writing documents gives files.
LEMMA WrittenIs ==
  ASSUME DocInv, NEW t, NEW D \in SUBSET Doc, NEW c \in Content, NEW st \in DocStatus,
         NEW f, f = Written(t, D, c, st)
  PROVE  f \in FileType /\ \A d \in D : f[d] \in Written1
<1>1. file \in FileType
  BY DEF DocInv, DocTypeOK, FileType, Written1
<1>2. \A d \in Doc : [status |-> st, version |-> NewVersion(t, d), content |-> c] \in Written1
  BY NewVersionIs DEF Written1
<1> QED BY <1>1, <1>2 DEF Written, FileType

\* Submitting a plan asks for no document.
LEMMA PlanOutputShape ==
  ASSUME DocInv, NEW t \in DOMAIN tasks, PlanOutput(t) PROVE Shaped
<1>1. PICK o \in Outputs(t) :
        /\ output' = [output EXCEPT ![t] = ToSet(o.docs)] \o
                     [k \in 1..(Len(tasks') - Len(tasks)) |-> {}]
        /\ UNCHANGED <<record, approvals>>
  BY DEF PlanOutput, Acceptable
<1>2. PICK D, out, n, new :
        /\ D \in SUBSET Doc /\ D = ToSet(o.docs) /\ out = [output EXCEPT ![t] = D]
        /\ n = Len(tasks') - Len(tasks) /\ new = out \o [k \in 1..n |-> {}] /\ output' = new
  BY <1>1, OutputIs
<1>3. /\ Sets(t, "COMPLETED") /\ Grown
      /\ AcceptPlan(t) /\ KindOf(t) # "code" /\ ~Gated(t) /\ tasks[t].status = "RUNNING"
  BY HandlerRows DEF PlanOutput, AcceptPlan, DocInv, Sets
<1>4. /\ tasks \in Seq(TaskRow) /\ tasks' \in Seq(TaskRow) /\ output \in Seq(SUBSET Doc)
      /\ Len(output) = Len(tasks) /\ DOMAIN tasks = DOMAIN output
  BY <1>3 DEF Grown, DocInv, DocTypeOK, FlowInv, FlowTypeOK
<1>5. /\ out \in Seq(SUBSET Doc) /\ Len(out) = Len(tasks)
      /\ \A u \in DOMAIN tasks \ {t} : out[u] = output[u]
  BY <1>2, <1>4
<1>6. /\ output' \in Seq(SUBSET Doc) /\ Len(output') = Len(tasks')
      /\ \A u \in DOMAIN tasks : output'[u] = out[u]
  BY <1>2, <1>3, <1>4, <1>5, NewRowsKeep DEF Grown
<1>7. Kept
  BY <1>1, <1>3, <1>6, RowsStay DEF Kept, DocInv, DocTypeOK
<1>8. \A u \in DOMAIN tasks : u # t => tasks'[u].status = tasks[u].status /\ output'[u] = output[u]
  BY <1>3, <1>5, <1>6 DEF Sets
<1>9. tasks'[t].status = "COMPLETED"
  BY <1>3 DEF Sets
<1>10. \A i \in Pending(approvals) : approvals[i].task # 0 =>
         approvals[i].task \in DOMAIN tasks /\ tasks[approvals[i].task].status = "WAITING_FOR_HUMAN"
  BY OpenRequest
<1>11. Settles
  BY <1>1, <1>3, <1>8, <1>9, <1>10 DEF Settles
<1> QED BY <1>7, <1>11 DEF Shaped

\* Submitting documents asks for the first of them in a new request of the
\* task.
LEMMA TaskOutputShape ==
  ASSUME DocInv, NEW t \in DOMAIN tasks, TaskOutput(t) PROVE Shaped
<1>1. PICK o \in Outputs(t) :
        /\ \A d \in ToSet(o.docs) :
             ValidateDoc(Written(t, ToSet(o.docs), o.text, "pending_approval"), record, d)
        /\ NoneOpen(o.docs[1], approvals)
        /\ file' = Written(t, ToSet(o.docs), o.text, "pending_approval")
        /\ approvals' = Append(approvals, Request(t, CoversOf(o.docs, file')))
        /\ output' = [output EXCEPT ![t] = ToSet(o.docs)]
        /\ record' = record
  BY DEF TaskOutput, Acceptable
<1>2. PICK D, f, covers, n, new :
        /\ D \in SUBSET Doc /\ D = ToSet(o.docs) /\ f = Written(t, D, o.text, "pending_approval") /\ file' = f
        /\ covers = CoversOf(o.docs, f) /\ new = Append(approvals, Request(t, covers))
        /\ approvals' = new /\ n = Len(approvals) + 1
  BY <1>1, OutputIs
<1>3. /\ Sets(t, "WAITING_FOR_HUMAN") /\ Grown /\ tasks'[t].status = "WAITING_FOR_HUMAN"
      /\ \A u \in DOMAIN tasks \ {t} : tasks'[u].status = tasks[u].status
      /\ KindOf(t) # "code" /\ tasks[t].status = "RUNNING" /\ Len(tasks') = Len(tasks)
  <2>1. SubmitOutput(t) /\ Sets(t, "WAITING_FOR_HUMAN")
    BY HandlerRows DEF TaskOutput, DocInv
  <2>2. tasks \in Seq(TaskRow) /\ tasks' = [tasks EXCEPT ![t].status = "WAITING_FOR_HUMAN"]
    BY <2>1 DEF SubmitOutput, Moves, SetStatus, DocInv, FlowInv, FlowTypeOK
  <2> QED BY <2>1, <2>2 DEF Sets, SubmitOutput, Moves
<1>4. /\ o.docs \in Seq(Doc) /\ o.docs # <<>> /\ 1 \in DOMAIN o.docs /\ o.docs[1] \in D
      /\ o.text \in Content /\ \A k \in DOMAIN o.docs : o.docs[k] \in D
  BY <1>2, OutputIs DEF ToSet
<1>5. /\ D \in SUBSET Doc /\ f \in FileType
      /\ \A d \in D : d \in Doc /\ f[d] \in Written1
  BY <1>2, <1>4, WrittenIs DEF DocStatus
<1>6. /\ covers \in Seq(CoverSet) /\ covers # <<>> /\ DOMAIN covers = DOMAIN o.docs
      /\ \A k \in DOMAIN covers : /\ covers[k].doc = o.docs[k] /\ covers[k].version # 0
                                  /\ covers[k].version = f[o.docs[k]].version
  <2>1. \A d \in D : /\ Cover(f, d) \in CoverSet /\ Cover(f, d).doc = d
                     /\ Cover(f, d).version = f[d].version /\ f[d].version # 0
    BY <1>5, FileIs DEF Cover, CoverSet
  <2>2. covers = [k \in DOMAIN o.docs |-> Cover(f, o.docs[k])]
    BY <1>2 DEF CoversOf
  <2> HIDE DEF Cover
  <2>3. covers \in Seq(CoverSet)
    BY <2>1, <2>2, <1>4
  <2> QED BY <2>1, <2>2, <2>3, <1>4
<1>7. /\ RowsKept(approvals, approvals') /\ n \notin DOMAIN approvals
      /\ DOMAIN approvals' = DOMAIN approvals \cup {n}
      /\ \A i \in DOMAIN approvals : approvals'[i] = approvals[i]
      /\ approvals'[n].task = t /\ approvals'[n].covers = covers
      /\ approvals'[n].status = "PENDING_APPROVAL"
  <2>1. t \in Nat /\ approvals \in Seq(ApprovalRow)
    BY DEF DocInv, DocTypeOK, FlowInv, FlowTypeOK
  <2>2. new = Append(approvals, Request(t, covers)) /\ n = Len(approvals) + 1 /\ approvals' = new
    BY <1>2
  <2>3. covers \in Seq(CoverSet)
    BY <1>6
  <2>4. RowsKept(approvals, new) /\ n \notin DOMAIN approvals
    BY <2>1, <2>2, <2>3, AppendedRequest
  <2>5. DOMAIN new = DOMAIN approvals \cup {n}
    BY <2>1, <2>2, <2>3, AppendedRequest
  <2>6. \A i \in DOMAIN approvals : new[i] = approvals[i]
    BY <2>1, <2>2, <2>3, AppendedRequest
  <2>7. new[n] = Request(t, covers)
    BY <2>1, <2>2, <2>3, AppendedRequest
  <2> QED BY <2>2, <2>4, <2>5, <2>6, <2>7, RequestIs
<1>8. /\ output' = [output EXCEPT ![t] = D] /\ output' \in Seq(SUBSET Doc)
      /\ Len(output') = Len(tasks') /\ output'[t] = D
      /\ \A u \in DOMAIN tasks \ {t} : output'[u] = output[u]
  <2>1. output \in Seq(SUBSET Doc) /\ Len(output) = Len(tasks) /\ t \in DOMAIN output
        /\ tasks \in Seq(TaskRow) /\ DOMAIN tasks = DOMAIN output
    BY DEF DocInv, DocTypeOK, FlowInv, FlowTypeOK
  <2>2. output' = [output EXCEPT ![t] = D] /\ D \in SUBSET Doc
    BY <1>1, <1>2
  <2> QED BY <2>1, <2>2, <1>3
<1>9. D = {c.doc : c \in ToSet(covers)}
  <2>1. D = {o.docs[k] : k \in DOMAIN covers} /\ \A k \in DOMAIN covers : covers[k].doc = o.docs[k]
    BY <1>2, <1>6 DEF ToSet
  <2>2. ToSet(covers) = {covers[k] : k \in DOMAIN covers}
    BY DEF ToSet
  <2> QED BY <2>1, <2>2
<1>10. LET c == covers[1] IN
       /\ c.version \in Versions(record, c.doc) \/ MayFollow(c.doc, c.version)
       /\ \A j \in Pending(approvals') : approvals'[j].covers[1].doc = c.doc => j = n
  <2>1. CheckVersioning(f, record, o.docs[1])
    BY <1>1, <1>2, <1>4 DEF ValidateDoc
  <2>2. f[o.docs[1]].version \in Versions(record, o.docs[1]) \/ MayFollow(o.docs[1], f[o.docs[1]].version)
    BY <2>1, <1>4, CheckedVersion
  <2>3. covers[1].doc = o.docs[1] /\ covers[1].version = f[o.docs[1]].version
    BY <1>4, <1>6
  <2>4. \A j \in Pending(approvals') : j # n =>
           j \in Pending(approvals) /\ approvals'[j].covers = approvals[j].covers
    BY <1>7 DEF Pending
  <2> QED BY <2>2, <2>3, <2>4, <1>1 DEF NoneOpen
<1>11. Kept
  BY <1>3, <1>7, <1>8 DEF Kept
<1>12. \A i \in Pending(approvals) : i \in Pending(approvals')
  BY <1>7 DEF Pending
<1>13. Asks(n, t)
  BY <1>1, <1>3, <1>6, <1>7, <1>8, <1>9, <1>10, <1>12 DEF Asks
<1> QED BY <1>11, <1>13 DEF Shaped, DocInv, FlowInv, FlowTypeOK

\* The owner's submission asks for one document.
LEMMA SubmitShape ==
  ASSUME DocInv, NEW d \in Doc, Submit(d) PROVE Shaped
<1>1. /\ Exists(d) /\ ValidateDoc(Submitted(d), record, d) /\ NoneOpen(d, Freshened(d))
      /\ approvals' = Append(Freshened(d), Request(0, <<Cover(file, d)>>))
      /\ UNCHANGED <<vars, record, output>>
  BY DEF Submit, CanSubmit
<1>2. PICK rows, covers, n, new :
        /\ rows = Freshened(d) /\ covers = <<Cover(file, d)>>
        /\ new = Append(rows, Request(0, covers)) /\ approvals' = new /\ n = Len(rows) + 1
  BY <1>1
<1>3. /\ RowsKept(approvals, rows) /\ DOMAIN rows = DOMAIN approvals /\ rows \in Seq(ApprovalRow)
      /\ \A i \in DOMAIN approvals : approvals[i].task # 0 => rows[i] = approvals[i]
  BY <1>2, FreshenedRows DEF DocInv, DocTypeOK, RowsKept
<1>4. /\ Cover(file, d) \in CoverSet /\ Cover(file, d).doc = d /\ Cover(file, d).version # 0
      /\ Cover(file, d).version = file[d].version
  <2>1. file \in FileType
    BY DEF DocInv, DocTypeOK, FileType, Written1
  <2>2. file[d] \in Written1
    BY <1>1, <2>1, FileIs DEF Exists
  <2> QED BY <2>1, <2>2, FileIs DEF Cover, CoverSet
<1>5. /\ covers \in Seq(CoverSet) /\ covers # <<>> /\ covers[1] = Cover(file, d)
      /\ \A k \in DOMAIN covers : covers[k].version # 0
  <2>1. ASSUME NEW c \in CoverSet, NEW s, s = <<c>>
        PROVE  s \in Seq(CoverSet) /\ s # <<>> /\ s[1] = c /\ \A k \in DOMAIN s : s[k] = c
    BY <2>1
  <2> HIDE DEF Cover
  <2> QED BY <2>1, <1>2, <1>4
<1>6. RowsKept(rows, new) /\ n \notin DOMAIN rows
  BY <1>2, <1>3, <1>5, AppendedRequest
<1>7. DOMAIN new = DOMAIN rows \cup {n}
  BY <1>2, <1>3, <1>5, AppendedRequest
<1>8. \A i \in DOMAIN rows : new[i] = rows[i]
  BY <1>2, <1>3, <1>5, AppendedRequest
<1>9. new[n] = Request(0, covers)
  BY <1>2, <1>3, <1>5, AppendedRequest
<1>10. RowsKept(approvals, approvals') /\ n \notin DOMAIN approvals
       /\ DOMAIN approvals' = DOMAIN approvals \cup {n}
  BY <1>2, <1>3, <1>6, <1>7 DEF RowsKept
<1>11. /\ approvals'[n].task = 0 /\ approvals'[n].covers = covers
       /\ approvals'[n].status = "PENDING_APPROVAL"
  BY <1>2, <1>9, RequestIs
<1>12. Grown /\ \A u \in DOMAIN tasks : tasks'[u] = tasks[u] /\ output'[u] = output[u]
  BY <1>1, TasksStay DEF vars, DocInv, FlowInv, FlowTypeOK
<1>13. Kept
  BY <1>1, <1>10, <1>12 DEF Kept, DocInv, DocTypeOK, vars
<1>14. LET c == approvals'[n].covers[1] IN
       /\ c.version \in Versions(record, c.doc) \/ MayFollow(c.doc, c.version)
       /\ \A j \in Pending(approvals') : approvals'[j].covers[1].doc = c.doc => j = n
  <2>1. CheckVersioning(Submitted(d), record, d) /\ Submitted(d)[d].version = file[d].version
    BY <1>1 DEF ValidateDoc, Submitted, DocInv, DocTypeOK
  <2>2. file[d].version \in Versions(record, d) \/ MayFollow(d, file[d].version)
    BY <2>1, CheckedVersion
  <2>3. \A j \in Pending(approvals') : j # n =>
           j \in Pending(rows) /\ approvals'[j].covers = rows[j].covers
    BY <1>2, <1>7, <1>8 DEF Pending
  <2>4. \A j \in Pending(rows) : rows[j].covers[1].doc # d
    BY <1>1, <1>2 DEF NoneOpen
  <2> QED BY <2>2, <2>3, <2>4, <1>4, <1>5, <1>11
<1>15. \A i \in Pending(approvals) : approvals[i].task # 0 => i \in Pending(approvals')
  BY <1>2, <1>3, <1>7, <1>8 DEF Pending
<1>16. Asks(n, 0)
  BY <1>1, <1>5, <1>10, <1>11, <1>12, <1>14, <1>15 DEF Asks
<1> QED BY <1>13, <1>16 DEF Shaped

-----------------------------------------------------------------------------
(***************************************************************************)
(* Approval: what it covers is what is recorded, and is valid.             *)
(***************************************************************************)
LEMMA Recorded ==
  ASSUME NEW rec, NEW new, rec \subseteq new, NEW d PROVE Versions(rec, d) \subseteq Versions(new, d)
BY DEF Versions

\* An approval records the versions its request covers, as the files have them.
LEMMA NewRecordsAre ==
  ASSUME DocInv, NEW i \in Pending(approvals), Unchanged(i)
  PROVE  /\ NewRecords(i) = record \cup ToSet(approvals[i].covers)
         /\ NewRecords(i) \subseteq CoverSet
         /\ \A d \in CoveredDocs(i) : /\ d \in Doc /\ file[d].version # 0
                                      /\ Cover(file, d) \in ToSet(approvals[i].covers)
                                      /\ Cover(file, d).doc = d /\ Cover(file, d).version = file[d].version
<1> DEFINE C == ToSet(approvals[i].covers)
<1>1. \A c \in C : c \in CoverSet /\ c.doc \in Doc /\ c.version \in Nat \ {0}
  BY OpenRequest
<1>2. \A c \in C : Cover(file, c.doc) = c
  BY DEF Unchanged
<1>3. NewRecords(i) = record \cup {Cover(file, c.doc) : c \in C}
  BY DEF NewRecords, CoveredDocs
<1>4. {Cover(file, c.doc) : c \in C} = C
  BY <1>2
<1>5. \A d : Cover(file, d).doc = d /\ Cover(file, d).version = file[d].version
  BY DEF Cover
<1>6. \A d \in CoveredDocs(i) : \E c \in C : c.doc = d
  BY DEF CoveredDocs
<1>7. record \subseteq CoverSet
  BY DEF DocInv, DocTypeOK
<1> HIDE DEF C
<1>8. \A d \in CoveredDocs(i) : d \in Doc /\ file[d].version # 0 /\ Cover(file, d) \in C
  BY <1>1, <1>2, <1>5, <1>6
<1> QED BY <1>1, <1>3, <1>4, <1>5, <1>7, <1>8 DEF C

\* The approved version is new and the largest, and what is upstream is recorded.
LEMMA ApprovedIsLatest ==
  ASSUME DocInv, NEW i \in Pending(approvals), Unchanged(i), CanApprove(i), NEW d \in CoveredDocs(i)
  PROVE  /\ file[d].version \notin Versions(record, d)
         /\ \A v \in Versions(NewRecords(i), d) : v <= file[d].version
         /\ \A u \in Upstream[d] : Versions(NewRecords(i), u) # {}
<1> DEFINE f == Marked(i, "approved")
           rec == NewRecords(i)
           v0 == file[d].version
<1>1. /\ d \in Doc /\ Cover(file, d) \in ToSet(approvals[i].covers) /\ Cover(file, d).doc = d
      /\ Cover(file, d).version = v0 /\ v0 # 0
      /\ rec = record \cup ToSet(approvals[i].covers) /\ rec \in SUBSET CoverSet
  BY NewRecordsAre
<1>2. v0 \notin Versions(record, d) /\ ValidateDoc(f, rec, d)
  BY DEF CanApprove
<1>3. f[d].status = "approved" /\ f[d].version = v0
  <2>1. file \in FileType
    BY DEF DocInv, DocTypeOK, FileType, Written1
  <2>2. file[d] \in Written1
    BY <1>1, <2>1, FileIs
  <2>3. f[d] = [file[d] EXCEPT !.status = "approved"]
    BY <1>1 DEF Marked
  <2> QED BY <2>2, <2>3 DEF Written1
<1>4. \A x \in Versions(rec, d) : x = v0 \/ x \in Versions(record, d)
  <2> SUFFICES ASSUME NEW r \in rec, r.doc = d PROVE r.version = v0 \/ r.version \in Versions(record, d)
    BY DEF Versions
  <2>1. CASE r \in record
    BY <2>1 DEF Versions
  <2>2. CASE r \in ToSet(approvals[i].covers)
    BY <2>2, <1>1 DEF Unchanged
  <2> QED BY <2>1, <2>2, <1>1
<1>5. v0 \in Versions(rec, d)
  BY <1>1 DEF Versions
<1>6. Versions(record, d) \subseteq Versions(rec, d)
  BY <1>1, Recorded
<1> HIDE DEF f, rec
<1>7. CheckVersioning(f, rec, d) /\ \A u \in Upstream[d] : Cover(f, u) \in rec
  BY <1>2, <1>3 DEF ValidateDoc, IsApproved
<1>8. PICK m \in Versions(rec, d) \cup {0} : \A x \in Versions(rec, d) : x <= m
  <2>1. /\ Latest(record, d) \in Versions(record, d) \cup {0} /\ Latest(record, d) \in Nat
        /\ \A x \in Versions(record, d) : x <= Latest(record, d)
    BY <1>1, RecordedVersions
  <2>2. v0 \in Nat
    BY <1>1, <1>5 DEF Versions, CoverSet
  <2>3. CASE v0 <= Latest(record, d)
    BY <2>1, <2>3, <1>4, <1>6
  <2>4. CASE ~(v0 <= Latest(record, d))
    <3>1. \A x \in Versions(record, d) : x <= v0
      BY <2>1, <2>2, <2>4, RecordedVersions
    <3> QED BY <3>1, <2>2, <1>4, <1>5
  <2> QED BY <2>3, <2>4
<1>9. Latest(rec, d) = m /\ m \in Nat /\ Versions(rec, d) \subseteq Nat
  BY <1>1, <1>8, LatestIs
<1>10. v0 <= m /\ v0 \in Nat
  BY <1>5, <1>8, <1>9
<1>11. m > 0
  BY <1>1, <1>9, <1>10
<1>12. v0 = m
  <2>1. v0 = m \/ v0 = m + 1
    BY <1>3, <1>7, <1>9, <1>11 DEF CheckVersioning
  <2> QED BY <2>1, <1>9, <1>10
<1>13. \A u \in Upstream[d] : Versions(rec, u) # {}
  <2>1. \A u : Cover(f, u).doc = u
    BY DEF Cover
  <2> QED BY <2>1, <1>7 DEF Versions
<1> QED BY <1>2, <1>8, <1>12, <1>13 DEF rec

\* An approval answers one request and records what it covers.
LEMMA ApproveShape ==
  ASSUME DocInv, NEW i \in DOMAIN approvals, Approve(i) PROVE Shaped
<1> DEFINE t == approvals[i].task
<1>1. /\ i \in Pending(approvals) /\ NewRows /\ record' = NewRecords(i)
      /\ Unchanged(i) /\ CanApprove(i) /\ approvals' = Answered(i, "APPROVED")
      /\ t = 0 => UNCHANGED vars
      /\ t # 0 => ApproveDocument(t)
  BY DEF Approve
<1>2. /\ RowsKept(approvals, approvals') /\ DOMAIN approvals' = DOMAIN approvals
      /\ \A j \in DOMAIN approvals \ {i} : approvals'[j] = approvals[j]
      /\ approvals'[i].status = "APPROVED"
  BY <1>1, AnsweredRows DEF DocInv, DocTypeOK
<1>3. t # 0 => t \in DOMAIN tasks
  BY <1>1, OpenRequest
<1>4. /\ t # 0 => tasks'[t].status = "COMPLETED"
      /\ Grown
      /\ \A u \in DOMAIN tasks : u # t => tasks'[u].status = tasks[u].status
  <2>1. CASE t = 0
    BY <2>1, <1>1, TasksStay DEF vars, DocInv, FlowInv, FlowTypeOK
  <2>2. CASE t # 0
    BY <2>2, <1>1, <1>3, HandlerRows DEF DocInv, Sets
  <2> QED BY <2>1, <2>2
<1>5. Kept /\ \A u \in DOMAIN tasks : output'[u] = output[u]
  BY <1>1, <1>2, <1>4, NewRowsOutput DEF Kept, DocInv, FlowInv, FlowTypeOK
<1>6. record' = record \cup ToSet(approvals[i].covers)
  BY <1>1, NewRecordsAre
<1>7. ASSUME NEW c \in ToSet(approvals[i].covers)
      PROVE  /\ c.version \notin Versions(record, c.doc)
             /\ \A v \in Versions(record', c.doc) : v <= c.version
             /\ \A u \in Upstream[c.doc] : Versions(record', u) # {}
  <2>1. c.doc \in CoveredDocs(i) /\ file[c.doc].version = c.version
    BY <1>1, NewRecordsAre DEF CoveredDocs, Unchanged
  <2>2. /\ file[c.doc].version \notin Versions(record, c.doc)
        /\ \A v \in Versions(NewRecords(i), c.doc) : v <= file[c.doc].version
        /\ \A u \in Upstream[c.doc] : Versions(NewRecords(i), u) # {}
    BY <1>1, <2>1, ApprovedIsLatest
  <2> QED BY <2>1, <2>2, <1>1
<1>8. Approves(i)
  BY <1>1, <1>2, <1>4, <1>5, <1>6, <1>7 DEF Approves
<1> QED BY <1>5, <1>8 DEF Shaped

\* Every step settles requests, asks for one or approves one.
LEMMA StepShape == DocInv /\ [DocNext]_allVars => Shaped
<1> SUFFICES ASSUME DocInv, [DocNext]_allVars PROVE Shaped
  OBVIOUS
<1>1. CASE \E wf \in Workflow : Create(wf)
  BY <1>1, CreateShape
<1>2. CASE \E t \in DOMAIN tasks : WorkTask(t) \/ TaskOutput(t) \/ PlanOutput(t) \/ RejectCode(t)
  BY <1>2, WorkTaskShape, TaskOutputShape, PlanOutputShape, RejectCodeShape
<1>3. CASE Cancel
  BY <1>3, CancelShape
<1>4. CASE \E i \in DOMAIN approvals : Approve(i) \/ RequestChanges(i) \/ RejectDocuments(i)
  BY <1>4, ApproveShape, RequestChangesShape, RejectDocumentsShape
<1>5. CASE \E d \in Doc : Submit(d)
  BY <1>5, SubmitShape
<1>6. CASE \/ \E t \in DOMAIN tasks : CrashInOutput(t)
           \/ \E i \in DOMAIN approvals : CrashInDecision(i)
           \/ \E d \in Doc : \/ \E c \in Content : NewDocument(d, c)
                             \/ EditFile(d) \/ CrashInSubmit(d)
           \/ UNCHANGED allVars
  <2>1. UNCHANGED <<vars, record, approvals, output>>
    BY <1>6 DEF CrashInOutput, CrashInDecision, NewDocument, EditFile, CrashInSubmit, Torn,
       allVars, docVars
  <2> QED BY <2>1, IdleShape
<1> QED BY <1>1, <1>2, <1>3, <1>4, <1>5, <1>6 DEF DocNext

-----------------------------------------------------------------------------
(***************************************************************************)
(* The invariant is kept, part by part.                                    *)
(***************************************************************************)
LEMMA KeptTasks ==
  ASSUME DocInv, Kept
  PROVE  /\ DOMAIN tasks \subseteq DOMAIN tasks'
         /\ \A t \in DOMAIN tasks : /\ steps'[tasks'[t].step].kind = KindOf(t)
                                    /\ steps'[tasks'[t].step].gate = Gated(t)
         /\ \A t \in DOMAIN tasks' :
              tasks'[t].status \in {"WAITING_FOR_HUMAN", "COMPLETED"} => t \in DOMAIN tasks
<1>1. \A t \in DOMAIN tasks : tasks # <<>>
  BY DEF DocInv, FlowInv, FlowTypeOK
<1> QED BY <1>1 DEF Kept, Grown, KindOf, Gated

\* A kept table forgets no request, no approval and no extra.
LEMMA KeptRows ==
  ASSUME DocInv, Kept
  PROVE  /\ DOMAIN approvals \subseteq DOMAIN approvals'
         /\ \A i \in DOMAIN approvals :
              /\ approvals'[i].task = approvals[i].task /\ approvals'[i].covers = approvals[i].covers
              /\ approvals[i].status = "APPROVED" => approvals'[i].status = "APPROVED"
              /\ i \in Pending(approvals') => i \in Pending(approvals)
         /\ \A d : IsExtra(d) => IsExtra(d)'
<1>1. /\ DOMAIN approvals \subseteq DOMAIN approvals'
      /\ \A i \in DOMAIN approvals :
           /\ approvals'[i].task = approvals[i].task /\ approvals'[i].covers = approvals[i].covers
           /\ approvals'[i].status # approvals[i].status =>
                approvals[i].status = "PENDING_APPROVAL" /\ approvals'[i].status # "PENDING_APPROVAL"
  BY DEF Kept, RowsKept
<1>2. \A i \in DOMAIN approvals : i \in Pending(approvals') => i \in Pending(approvals)
  BY <1>1 DEF Pending
<1>3. \A d : IsExtra(d) => IsExtra(d)'
  BY <1>1 DEF IsExtra
<1> QED BY <1>1, <1>2, <1>3

\* Every step keeps the requests with tasks that have documents.
LEMMA RowsInvStep == DocInv /\ Shaped => RowsInv'
<1> SUFFICES ASSUME DocInv, Kept,
                    Settles \/ (\E n : \E t \in Nat : Asks(n, t)) \/ \E i : Approves(i)
             PROVE  RowsInv'
  BY DEF Shaped
<1>1. ASSUME NEW i \in DOMAIN approvals
      PROVE  /\ approvals'[i].task # 0 => approvals'[i].task \in DOMAIN tasks'
                                          /\ steps'[tasks'[approvals'[i].task].step].kind # "code"
             /\ approvals'[i].covers # <<>>
             /\ \A k \in DOMAIN approvals'[i].covers : approvals'[i].covers[k].version # 0
  BY KeptTasks, KeptRows DEF DocInv, RowsInv
<1>2. ASSUME NEW n, NEW t \in Nat, Asks(n, t)
      PROVE  RowsInv'
  <2>1. t # 0 => t \in DOMAIN tasks' /\ steps'[tasks'[t].step].kind # "code"
    BY <1>2, KeptTasks DEF Asks
  <2> QED BY <1>1, <1>2, <2>1 DEF Asks, RowsInv, KindOf
<1>3. ASSUME Settles \/ \E i : Approves(i) PROVE RowsInv'
  <2>1. DOMAIN approvals' = DOMAIN approvals
    BY <1>3 DEF Settles, Approves
  <2> QED BY <1>1, <2>1 DEF RowsInv, KindOf
<1> QED BY <1>2, <1>3

\* Every step keeps a waiting task and its open request together.
LEMMA OpenInvStep == DocInv /\ Shaped => OpenInv'
<1> SUFFICES ASSUME DocInv, Kept,
                    Settles \/ (\E n : \E t \in Nat : Asks(n, t)) \/ \E i : Approves(i)
             PROVE  OpenInv'
  BY DEF Shaped
<1> DEFINE Docs2(i) == {c.doc : c \in ToSet(approvals'[i].covers)}
           Good(i) == approvals'[i].task # 0 =>
                        /\ tasks'[approvals'[i].task].status = "WAITING_FOR_HUMAN"
                        /\ output'[approvals'[i].task] = Docs2(i)
                        /\ \A j \in Pending(approvals') : approvals'[j].task = approvals'[i].task => j = i
           Served(t) == steps'[tasks'[t].step].kind # "code" /\ tasks'[t].status = "WAITING_FOR_HUMAN" =>
                          \E i \in Pending(approvals') : approvals'[i].task = t
<1>1. (\A i \in Pending(approvals') : Good(i)) /\ (\A t \in DOMAIN tasks' : Served(t)) => OpenInv'
  BY DEF OpenInv, CoveredDocs, KindOf
<1>2. \A i \in Pending(approvals) : approvals[i].task # 0 =>
        /\ i \in DOMAIN approvals
        /\ approvals[i].task \in DOMAIN tasks /\ KindOf(approvals[i].task) # "code"
        /\ tasks[approvals[i].task].status = "WAITING_FOR_HUMAN"
        /\ output[approvals[i].task] = Docs2(i)
        /\ \A j \in Pending(approvals) : approvals[j].task = approvals[i].task => j = i
  <2>1. \A i \in DOMAIN approvals : Docs2(i) = CoveredDocs(i)
    BY KeptRows DEF CoveredDocs
  <2> HIDE DEF Docs2
  <2> QED BY <2>1, OpenRequest
<1> HIDE DEF Docs2
<1>3. ASSUME NEW t \in DOMAIN tasks', steps'[tasks'[t].step].kind # "code",
             tasks'[t].status = "WAITING_FOR_HUMAN"
      PROVE  t \in DOMAIN tasks /\ KindOf(t) # "code" /\ t # 0
  BY <1>3, KeptTasks DEF DocInv, FlowInv, FlowTypeOK
<1>4. ASSUME NEW t \in DOMAIN tasks, KindOf(t) # "code", tasks[t].status = "WAITING_FOR_HUMAN"
      PROVE  \E i \in Pending(approvals) : approvals[i].task = t
  BY <1>4 DEF DocInv, OpenInv
<1>5. CASE Settles
  <2>1. \A i \in Pending(approvals') : i \in Pending(approvals) /\ approvals'[i].task = approvals[i].task
    BY <1>5, KeptRows DEF Settles, Pending
  <2>2. ASSUME NEW i \in Pending(approvals') PROVE Good(i)
    BY <2>1, <1>2, <1>5 DEF Settles
  <2>3. ASSUME NEW t \in DOMAIN tasks' PROVE Served(t)
    <3> SUFFICES ASSUME steps'[tasks'[t].step].kind # "code", tasks'[t].status = "WAITING_FOR_HUMAN"
                 PROVE  \E i \in Pending(approvals') : approvals'[i].task = t
      OBVIOUS
    <3>1. t \in DOMAIN tasks /\ KindOf(t) # "code" /\ t # 0 /\ tasks[t].status = "WAITING_FOR_HUMAN"
      BY <1>3, <1>5 DEF Settles
    <3>2. PICK i \in Pending(approvals) : approvals[i].task = t
      BY <3>1, <1>4
    <3> QED BY <3>1, <3>2, <2>1, <1>5 DEF Settles
  <2> QED BY <1>1, <2>2, <2>3
<1>6. ASSUME NEW n, NEW t0 \in Nat, Asks(n, t0) PROVE OpenInv'
  <2>1. \A i \in Pending(approvals') : i # n =>
          i \in Pending(approvals) /\ approvals'[i].task = approvals[i].task
    BY <1>6, KeptRows DEF Asks, Pending
  <2>2. n \in Pending(approvals') /\ approvals'[n].task = t0
    BY <1>6 DEF Asks, Pending
  <2>3. \A i \in Pending(approvals) : approvals[i].task # 0 =>
          approvals[i].task # t0 /\ i \in Pending(approvals') /\ approvals'[i].task = approvals[i].task
    BY <1>2, <1>6, KeptRows DEF Asks
  <2>4. ASSUME NEW i \in Pending(approvals'), approvals'[i].task # 0 PROVE Good(i)
    <3>1. CASE i = n
      BY <3>1, <2>1, <2>2, <2>3, <2>4, <1>6 DEF Asks, Docs2
    <3>2. CASE i # n
      BY <3>2, <2>1, <2>2, <2>3, <2>4, <1>2, <1>6 DEF Asks
    <3> QED BY <3>1, <3>2
  <2>5. ASSUME NEW t \in DOMAIN tasks' PROVE Served(t)
    <3> SUFFICES ASSUME steps'[tasks'[t].step].kind # "code", tasks'[t].status = "WAITING_FOR_HUMAN"
                 PROVE  \E i \in Pending(approvals') : approvals'[i].task = t
      OBVIOUS
    <3>1. CASE t = t0
      BY <3>1, <2>2
    <3>2. CASE t # t0
      <4>1. t \in DOMAIN tasks /\ KindOf(t) # "code" /\ t # 0 /\ tasks[t].status = "WAITING_FOR_HUMAN"
        BY <1>3, <1>6, <3>2 DEF Asks
      <4>2. PICK i \in Pending(approvals) : approvals[i].task = t
        BY <4>1, <1>4
      <4> QED BY <4>1, <4>2, <2>3
    <3> QED BY <3>1, <3>2
  <2> QED BY <1>1, <2>4, <2>5
<1>7. ASSUME NEW i0, Approves(i0) PROVE OpenInv'
  <2>1. \A i \in Pending(approvals') : i # i0 /\ i \in Pending(approvals) /\ approvals'[i] = approvals[i]
    BY <1>7 DEF Approves, Pending
  <2>2. \A i \in Pending(approvals) : i # i0 => i \in Pending(approvals') /\ approvals'[i] = approvals[i]
    BY <1>7 DEF Approves, Pending
  <2>3. ASSUME NEW i \in Pending(approvals'), approvals'[i].task # 0 PROVE Good(i)
    BY <2>1, <2>3, <1>2, <1>7 DEF Approves
  <2>4. ASSUME NEW t \in DOMAIN tasks' PROVE Served(t)
    <3> SUFFICES ASSUME steps'[tasks'[t].step].kind # "code", tasks'[t].status = "WAITING_FOR_HUMAN"
                 PROVE  \E i \in Pending(approvals') : approvals'[i].task = t
      OBVIOUS
    <3>1. t \in DOMAIN tasks /\ KindOf(t) # "code" /\ t # 0
      BY <1>3
    <3>2. t # approvals[i0].task /\ tasks[t].status = "WAITING_FOR_HUMAN"
      BY <3>1, <1>7 DEF Approves
    <3>3. PICK i \in Pending(approvals) : approvals[i].task = t
      BY <3>1, <3>2, <1>4
    <3> QED BY <3>2, <3>3, <2>2
  <2> QED BY <1>1, <2>3, <2>4
<1> QED BY <1>5, <1>6, <1>7

\* What a step adds to the record: nothing, or an approved request's versions.
LEMMA RecordStep ==
  ASSUME DocInv, Shaped
  PROVE  /\ Kept /\ record \subseteq record'
         /\ record' = record \/ \E i : Approves(i)
BY DEF Shaped, Settles, Asks, Approves

\* Every step records only what a human was asked about.
LEMMA ReviewedStep == DocInv /\ Shaped => RecordedWasReviewed'
<1> SUFFICES ASSUME DocInv, Shaped, NEW r \in record'
             PROVE  \E i \in DOMAIN approvals' :
                      approvals'[i].status = "APPROVED" /\ r \in ToSet(approvals'[i].covers)
  BY DEF RecordedWasReviewed
<1>1. Kept
  BY RecordStep
<1>2. CASE r \in record
  BY <1>1, <1>2, KeptRows DEF DocInv, RecordedWasReviewed
<1>3. ASSUME NEW i, Approves(i), r \in ToSet(approvals[i].covers)
      PROVE  \E j \in DOMAIN approvals' :
               approvals'[j].status = "APPROVED" /\ r \in ToSet(approvals'[j].covers)
  <2>1. i \in DOMAIN approvals /\ approvals'[i].covers = approvals[i].covers
    BY <1>1, <1>3, KeptRows DEF Approves, Pending
  <2> QED BY <2>1, <1>3 DEF Approves
<1> QED BY <1>2, <1>3, RecordStep DEF Approves

\* Every step leaves the recorded versions of a document with a largest one.
LEMMA LatestInvStep == DocInv /\ Shaped => LatestInv'
<1> SUFFICES ASSUME DocInv, Shaped PROVE LatestInv'
  OBVIOUS
<1>1. CASE record' = record
  BY <1>1 DEF DocInv, LatestInv, Versions
<1>2. ASSUME NEW i, Approves(i), NEW d \in Doc
      PROVE  \E m \in Versions(record', d) \cup {0} : \A v \in Versions(record', d) : v <= m
  <2>1. CASE \E c \in ToSet(approvals[i].covers) : c.doc = d
    <3>1. PICK c \in ToSet(approvals[i].covers) : c.doc = d
      BY <2>1
    <3>2. c \in record' /\ \A v \in Versions(record', d) : v <= c.version
      BY <3>1, <1>2 DEF Approves
    <3> QED BY <3>1, <3>2 DEF Versions
  <2>2. CASE ~ \E c \in ToSet(approvals[i].covers) : c.doc = d
    <3>1. Versions(record', d) = Versions(record, d)
      BY <2>2, <1>2 DEF Approves, Versions
    <3> QED BY <3>1 DEF DocInv, LatestInv
  <2> QED BY <2>1, <2>2
<1> QED BY <1>1, <1>2, RecordStep DEF LatestInv

\* Every step approves a document only after what it is built on.
LEMMA UpstreamStep == DocInv /\ Shaped => UpstreamFirst'
<1> SUFFICES ASSUME DocInv, Shaped, NEW r \in record', NEW u \in Upstream[r.doc]
             PROVE  Versions(record', u) # {}
  BY DEF UpstreamFirst
<1>1. CASE r \in record
  BY <1>1, Recorded, RecordStep DEF DocInv, UpstreamFirst
<1>2. ASSUME NEW i, Approves(i), r \in ToSet(approvals[i].covers) PROVE Versions(record', u) # {}
  BY <1>2 DEF Approves
<1> QED BY <1>1, <1>2, RecordStep DEF Approves

\* A new version of a document no request covers beside its primary one is that of
\* the approved request's primary document.
LEMMA OnlyPrimary ==
  ASSUME DocInv, Kept, NEW i, Approves(i), NEW c \in ToSet(approvals[i].covers), ~IsExtra(c.doc)'
  PROVE  c = approvals[i].covers[1] /\ i \in Pending(approvals)
<1>1. i \in Pending(approvals) /\ i \in DOMAIN approvals' /\ approvals'[i].covers = approvals[i].covers
  BY KeptRows DEF Approves, Pending
<1>2. PICK k \in DOMAIN approvals[i].covers : c = approvals[i].covers[k]
  BY DEF ToSet
<1>3. ~(k > 1)
  BY <1>1, <1>2 DEF IsExtra
<1>4. k \in Nat \ {0}
  <2>1. approvals[i].covers \in Seq(CoverSet)
    BY <1>1, OpenRequest
  <2> QED BY <2>1, <1>2
<1> QED BY <1>1, <1>2, <1>3, <1>4

\* Every step adds versions only where a change was approved.
LEMMA AuthorisedStep == DocInv /\ Shaped => NewVersionsAuthorised'
<1> SUFFICES ASSUME DocInv, Shaped, NEW r \in record', ~IsExtra(r.doc)'
             PROVE  Authorised(r)'
  BY DEF NewVersionsAuthorised
<1>1. Kept /\ record \subseteq record'
  BY RecordStep
<1>2. ~IsExtra(r.doc)
  BY <1>1, KeptRows
<1>3. CASE record' = record
  BY <1>2, <1>3 DEF DocInv, NewVersionsAuthorised, Authorised, Versions
<1>4. ASSUME NEW i, Approves(i), r \in record PROVE Authorised(r)'
  <2>1. Authorised(r)
    BY <1>2, <1>4 DEF DocInv, NewVersionsAuthorised
  <2>2. CASE r.version - 1 \in Versions(record, r.doc) /\ \E q \in record : r.doc \in Affects[q.doc]
    BY <2>2, <1>1, Recorded DEF Authorised
  <2>3. CASE \A q \in record : q.doc = r.doc => q.version >= r.version
    <3>1. ASSUME NEW q \in ToSet(approvals[i].covers), q.doc = r.doc PROVE q.version >= r.version
      <4>1. r.version \in Versions(record', r.doc) /\ r.version \in Nat
        BY <1>4 DEF Versions, DocInv, DocTypeOK, CoverSet
      <4>2. r.version <= q.version /\ q.version \in Nat
        BY <4>1, <3>1, <1>4, OpenRequest DEF Approves
      <4> QED BY <4>1, <4>2
    <3> QED BY <2>3, <3>1, <1>4 DEF Authorised, Approves
  <2> QED BY <2>1, <2>2, <2>3 DEF Authorised
<1>5. ASSUME NEW i, Approves(i), r \in ToSet(approvals[i].covers) PROVE Authorised(r)'
  <2>1. r = approvals[i].covers[1] /\ i \in Pending(approvals)
    BY <1>1, <1>5, OnlyPrimary
  <2>2. MayFollow(r.doc, r.version)
    BY <2>1, <1>2, <1>5 DEF DocInv, AskedInv, Approves
  <2>3. CASE r.version - 1 \in Versions(record, r.doc) /\ \E q \in record : r.doc \in Affects[q.doc]
    BY <2>3, <1>1, Recorded DEF Authorised
  <2>4. CASE Versions(record, r.doc) = {}
    <3>1. \A q \in record : q.doc # r.doc
      BY <2>4 DEF Versions
    <3>2. \A q \in ToSet(approvals[i].covers) : q.doc = r.doc => q = r
      BY <2>1, <1>1, <1>5, OnlyPrimary
    <3>3. r.version \in Nat
      BY <2>1, <1>5, OpenRequest
    <3> QED BY <3>1, <3>2, <3>3, <1>5 DEF Authorised, Approves
  <2> QED BY <2>2, <2>3, <2>4 DEF MayFollow
<1> QED BY <1>3, <1>4, <1>5, RecordStep DEF Approves

\* After every step an open request still asks for a version that may be
\* recorded, and is alone to ask for its document.
LEMMA AskedRowStep ==
  ASSUME DocInv, Shaped, NEW i \in Pending(approvals'),
         NEW c, c = approvals'[i].covers[1], ~IsExtra(c.doc)'
  PROVE  /\ c.version \in Versions(record', c.doc) \/ MayFollow(c.doc, c.version)'
         /\ \A j \in Pending(approvals') : approvals'[j].covers[1].doc = c.doc => j = i
<1>1. Kept /\ ~IsExtra(c.doc)
  BY RecordStep, KeptRows
<1>2. ASSUME i \in Pending(approvals)
      PROVE  /\ c = approvals[i].covers[1]
             /\ c.version \in Versions(record, c.doc) \/ MayFollow(c.doc, c.version)
             /\ \A j \in Pending(approvals) : approvals[j].covers[1].doc = c.doc => j = i
  <2>1. c = approvals[i].covers[1]
    BY <1>1, <1>2, KeptRows DEF Pending
  <2> QED BY <2>1, <1>1, <1>2 DEF DocInv, AskedInv
<1>3. \A j \in Pending(approvals') : j \in DOMAIN approvals =>
        j \in Pending(approvals) /\ approvals'[j].covers = approvals[j].covers
  BY <1>1, KeptRows
<1>4. CASE Settles
  <2>1. /\ record' = record
        /\ \A j \in Pending(approvals') : j \in Pending(approvals) /\ approvals'[j].covers = approvals[j].covers
    BY <1>3, <1>4 DEF Settles, Pending
  <2> QED BY <2>1, <1>2 DEF MayFollow
<1>5. ASSUME NEW n, NEW t \in Nat, Asks(n, t)
      PROVE  /\ c.version \in Versions(record', c.doc) \/ MayFollow(c.doc, c.version)'
             /\ \A j \in Pending(approvals') : approvals'[j].covers[1].doc = c.doc => j = i
  <2>1. /\ record' = record
        /\ \A j \in Pending(approvals') : j # n =>
             j \in Pending(approvals) /\ approvals'[j].covers = approvals[j].covers
    BY <1>3, <1>5 DEF Asks, Pending
  <2>2. CASE i = n
    BY <2>1, <2>2, <1>5 DEF Asks, MayFollow
  <2>3. CASE i # n
    BY <2>1, <2>3, <1>2, <1>5 DEF Asks, MayFollow
  <2> QED BY <2>2, <2>3
<1>6. ASSUME NEW i0, Approves(i0)
      PROVE  /\ c.version \in Versions(record', c.doc) \/ MayFollow(c.doc, c.version)'
             /\ \A j \in Pending(approvals') : approvals'[j].covers[1].doc = c.doc => j = i
  <2>1. \A j \in Pending(approvals') : j # i0 /\ j \in Pending(approvals)
                                       /\ approvals'[j].covers = approvals[j].covers
    BY <1>3, <1>6 DEF Approves, Pending
  <2>2. record' = record \cup ToSet(approvals[i0].covers) /\ record \subseteq record'
    BY <1>6 DEF Approves
  <2>3. CASE c.version \in Versions(record, c.doc)
    BY <2>1, <2>2, <2>3, <1>2, Recorded
  <2>4. CASE c.version - 1 \in Versions(record, c.doc) /\ \E q \in record : c.doc \in Affects[q.doc]
    BY <2>1, <2>2, <2>4, <1>2, Recorded DEF MayFollow
  <2>5. CASE Versions(record, c.doc) = {}
    <3>1. \A q \in record' : q.doc # c.doc
      <4> SUFFICES ASSUME NEW q \in record', q.doc = c.doc PROVE FALSE
        OBVIOUS
      <4>1. q \in ToSet(approvals[i0].covers)
        BY <2>2, <2>5 DEF Versions
      <4>2. q = approvals[i0].covers[1] /\ i0 \in Pending(approvals)
        BY <4>1, <1>1, <1>6, OnlyPrimary
      <4> QED BY <4>2, <2>1, <1>2
    <3>2. Versions(record', c.doc) = {}
      BY <3>1 DEF Versions
    <3> QED BY <3>2, <2>1, <1>2 DEF MayFollow
  <2> QED BY <2>1, <2>3, <2>4, <2>5, <1>2 DEF MayFollow
<1> QED BY <1>4, <1>5, <1>6 DEF Shaped

\* Every step keeps what was true of a version when a human was asked.
LEMMA AskedInvStep == DocInv /\ Shaped => AskedInv'
<1> SUFFICES ASSUME DocInv, Shaped PROVE AskedInv'
  OBVIOUS
<1>1. \A i \in Pending(approvals') : \A c : c = approvals'[i].covers[1] /\ ~IsExtra(c.doc)' =>
        /\ c.version \in Versions(record', c.doc) \/ MayFollow(c.doc, c.version)'
        /\ \A j \in Pending(approvals') : approvals'[j].covers[1].doc = c.doc => j = i
  BY AskedRowStep
<1> QED BY <1>1 DEF AskedInv, IsExtra, MayFollow

\* Every step hands on only versions approved for their task.
LEMMA OutputsStep == DocInv /\ Shaped => StepOutputsApproved'
<1> SUFFICES ASSUME DocInv, Shaped, NEW t \in DOMAIN tasks', tasks'[t].status = "COMPLETED",
                    steps'[tasks'[t].step].kind # "code", steps'[tasks'[t].step].gate
             PROVE  /\ output'[t] # {}
                    /\ \A d \in output'[t] : \E i \in DOMAIN approvals' :
                         /\ approvals'[i].task = t /\ approvals'[i].status = "APPROVED"
                         /\ \E c \in ToSet(approvals'[i].covers) \cap record' : c.doc = d
  BY DEF StepOutputsApproved, KindOf, Gated
<1>1. Kept /\ record \subseteq record'
  BY RecordStep
<1>2. t \in DOMAIN tasks /\ t # 0 /\ KindOf(t) # "code" /\ Gated(t)
  BY <1>1, KeptTasks DEF DocInv, FlowInv, FlowTypeOK
<1>3. ASSUME tasks[t].status = "COMPLETED", output'[t] = output[t]
      PROVE  /\ output'[t] # {}
             /\ \A d \in output'[t] : \E i \in DOMAIN approvals' :
                  /\ approvals'[i].task = t /\ approvals'[i].status = "APPROVED"
                  /\ \E c \in ToSet(approvals'[i].covers) \cap record' : c.doc = d
  <2>1. /\ output[t] # {}
        /\ \A d \in output[t] : \E i \in DOMAIN approvals :
             /\ approvals[i].task = t /\ approvals[i].status = "APPROVED"
             /\ \E c \in ToSet(approvals[i].covers) \cap record : c.doc = d
    BY <1>2, <1>3 DEF DocInv, StepOutputsApproved
  <2> QED BY <2>1, <1>1, <1>3, KeptRows
<1>4. CASE Settles
  BY <1>2, <1>3, <1>4 DEF Settles
<1>5. ASSUME NEW n, NEW u \in Nat, Asks(n, u)
      PROVE  tasks[t].status = "COMPLETED" /\ output'[t] = output[t]
  BY <1>2, <1>5 DEF Asks
<1>6. ASSUME NEW i, Approves(i), t = approvals[i].task
      PROVE  /\ output'[t] # {}
             /\ \A d \in output'[t] : \E j \in DOMAIN approvals' :
                  /\ approvals'[j].task = t /\ approvals'[j].status = "APPROVED"
                  /\ \E c \in ToSet(approvals'[j].covers) \cap record' : c.doc = d
  <2>1. /\ i \in Pending(approvals) /\ i \in DOMAIN approvals
        /\ output[t] = CoveredDocs(i) /\ 1 \in DOMAIN approvals[i].covers
    BY <1>2, <1>6, OpenRequest DEF Approves
  <2>2. /\ output'[t] = {c.doc : c \in ToSet(approvals[i].covers)}
        /\ approvals[i].covers[1] \in ToSet(approvals[i].covers)
    BY <2>1, <1>2, <1>6 DEF Approves, CoveredDocs, ToSet
  <2>3. /\ i \in DOMAIN approvals' /\ approvals'[i].task = t /\ approvals'[i].status = "APPROVED"
        /\ approvals'[i].covers = approvals[i].covers
        /\ ToSet(approvals[i].covers) \subseteq record'
    BY <2>1, <1>1, <1>6, KeptRows DEF Approves
  <2> QED BY <2>2, <2>3
<1>7. ASSUME NEW i, Approves(i), t # approvals[i].task
      PROVE  tasks[t].status = "COMPLETED" /\ output'[t] = output[t]
  BY <1>2, <1>7 DEF Approves
<1> QED BY <1>3, <1>4, <1>5, <1>6, <1>7 DEF Shaped

-----------------------------------------------------------------------------
(***************************************************************************)
(* Files stay well-formed.                                                 *)
(***************************************************************************)
LEMMA MarkedFiles ==
  ASSUME DocInv, NEW i \in Pending(approvals), Unchanged(i), NEW st \in DocStatus
  PROVE  Marked(i, st) \in FileType
<1>1. file \in FileType
  BY DEF DocInv, DocTypeOK, FileType, Written1
<1>2. \A d \in CoveredDocs(i) : d \in Doc /\ file[d] \in Written1
  BY <1>1, NewRecordsAre, FileIs
<1>3. \A r \in Written1 : [r EXCEPT !.status = st] \in Written1
  BY DEF Written1
<1> QED BY <1>1, <1>2, <1>3 DEF Marked, FileType

\* Withdrawing a document gives files.
LEMMA WithdrawnFiles ==
  ASSUME NEW f \in FileType, NEW dropped, NEW rows, Withdraw(dropped, f, rows)
  PROVE  file' \in FileType
<1>1. \A r \in Written1 : [r EXCEPT !.status = "rejected"] \in Written1
  BY DEF Written1, DocStatus
<1>2. \A d \in Doc : f[d] \in Written1 \cup {Absent}
                     /\ (f[d].status \notin {"absent", "approved"} => f[d] \in Written1)
  BY FileIs DEF FileType
<1>3. file' = [d \in Doc |->
        IF d \in UNION {output[t] : t \in dropped} /\ f[d].status \notin {"absent", "approved"}
        THEN [f[d] EXCEPT !.status = "rejected"] ELSE f[d]]
  BY DEF Withdraw
<1> QED BY <1>1, <1>2, <1>3 DEF FileType

\* A crash between the files leaves well-formed files.
LEMMA TornFiles ==
  ASSUME file \in FileType, NEW f \in FileType, Torn(f)
  PROVE  file' \in FileType
BY DEF Torn, FileType

\* Every step leaves well-formed files.
LEMMA FilesStep == DocInv /\ [DocNext]_allVars => file' \in FileType
<1> SUFFICES ASSUME DocInv, [DocNext]_allVars PROVE file' \in FileType
  OBVIOUS
<1>1. file \in FileType
  BY DEF DocInv, DocTypeOK, FileType, Written1
<1>2. CASE \/ \E wf \in Workflow : Create(wf)
           \/ \E t \in DOMAIN tasks : WorkTask(t)
           \/ UNCHANGED allVars
  BY <1>1, <1>2 DEF Create, WorkTask, allVars, docVars
<1>3. CASE \E t \in DOMAIN tasks : TaskOutput(t) \/ PlanOutput(t) \/ CrashInOutput(t)
  <2>1. PICK t \in DOMAIN tasks : TaskOutput(t) \/ PlanOutput(t) \/ CrashInOutput(t)
    BY <1>3
  <2>2. PICK o \in Outputs(t), st \in DocStatus :
          LET f == Written(t, ToSet(o.docs), o.text, st) IN file' = f \/ Torn(f)
    BY <2>1 DEF TaskOutput, PlanOutput, CrashInOutput, Acceptable, DocStatus
  <2>3. Written(t, ToSet(o.docs), o.text, st) \in FileType
    BY OutputIs, WrittenIs
  <2> QED BY <1>1, <2>2, <2>3, TornFiles
<1>4. CASE Cancel \/ \E t \in DOMAIN tasks : RejectCode(t)
  BY <1>1, <1>4, WithdrawnFiles DEF Cancel, RejectCode
<1>5. CASE \E i \in DOMAIN approvals : Approve(i) \/ RequestChanges(i) \/ CrashInDecision(i)
  <2>1. PICK i \in Pending(approvals), st \in DocStatus :
          Unchanged(i) /\ (file' = Marked(i, st) \/ Torn(Marked(i, st)))
    BY <1>5 DEF Approve, RequestChanges, CrashInDecision, DocStatus
  <2> QED BY <1>1, <2>1, MarkedFiles, TornFiles
<1>6. CASE \E i \in DOMAIN approvals : RejectDocuments(i)
  <2>1. PICK i \in DOMAIN approvals : RejectDocuments(i)
    BY <1>6
  <2>2. Marked(i, "rejected") \in FileType
    BY <2>1, MarkedFiles DEF RejectDocuments, DocStatus
  <2> QED BY <2>1, <2>2, WithdrawnFiles DEF RejectDocuments
<1>7. ASSUME NEW d \in Doc, NEW r \in Written1, file' = [file EXCEPT ![d] = r] PROVE file' \in FileType
  BY <1>1, <1>7 DEF FileType
<1>8. ASSUME NEW d \in Doc, Exists(d) PROVE file[d] \in Written1 /\ Submitted(d) \in FileType
  <2>1. file[d] \in Written1
    BY <1>1, <1>8, FileIs DEF Exists
  <2>2. [file[d] EXCEPT !.status = "pending_approval"] \in Written1
    BY <2>1 DEF Written1, DocStatus
  <2> QED BY <1>1, <2>1, <2>2 DEF Submitted, FileType
<1>9. ASSUME NEW d \in Doc, Submit(d) \/ CrashInSubmit(d) PROVE file' \in FileType
  BY <1>1, <1>8, <1>9, TornFiles DEF Submit, CrashInSubmit, CanSubmit
<1>10. ASSUME NEW d \in Doc, NEW c \in Content, NewDocument(d, c) PROVE file' \in FileType
  <2>1. [status |-> "draft", version |-> 1, content |-> c] \in Written1
    BY DEF Written1, DocStatus
  <2> QED BY <2>1, <1>7, <1>10 DEF NewDocument
<1>11. ASSUME NEW d \in Doc, EditFile(d) PROVE file' \in FileType
  <2>1. file[d] \in Written1
    BY <1>8, <1>11 DEF EditFile
  <2>2. PICK st \in {file[d].status, "draft", "approved"}, c \in Content,
             v \in {file[d].version} \cup 1..MaxVersion :
          file' = [file EXCEPT ![d] = [status |-> st, version |-> v, content |-> c]]
    BY <1>11 DEF EditFile
  <2>3. st \in DocStatus /\ v \in Nat \ {0}
    BY <1>1, <2>1, FileIs, DocBoundAssumption DEF DocStatus
  <2>4. [status |-> st, version |-> v, content |-> c] \in Written1
    BY <2>3 DEF Written1
  <2> QED BY <2>2, <2>4, <1>7
<1> QED BY <1>2, <1>3, <1>4, <1>5, <1>6, <1>9, <1>10, <1>11 DEF DocNext

\* Edits and crashes stay within their bound.
LEMMA UpsetsStep == DocInv /\ [DocNext]_allVars => upsets' \in 0..MaxUpsets
<1> SUFFICES ASSUME DocInv, [DocNext]_allVars PROVE upsets' \in 0..MaxUpsets
  OBVIOUS
<1>1. upsets' = upsets \/ (upsets < MaxUpsets /\ upsets' = upsets + 1)
  BY DEF DocNext, Create, WorkTask, TaskOutput, PlanOutput, RejectCode, CrashInOutput, Cancel, Approve,
     RequestChanges, RejectDocuments, CrashInDecision, NewDocument, EditFile, Submit, CrashInSubmit,
     Torn, allVars, docVars
<1> QED BY <1>1, DocBoundAssumption DEF DocInv, DocTypeOK

\* Every step keeps every variable in its type.
LEMMA DocTypeStep == DocInv /\ Shaped /\ [DocNext]_allVars => DocTypeOK'
<1> SUFFICES ASSUME DocInv, Shaped, [DocNext]_allVars PROVE DocTypeOK'
  OBVIOUS
<1>1. file' \in [Doc -> [status : DocStatus, version : Nat \ {0}, content : Content] \cup {Absent}]
  BY FilesStep DEF FileType, Written1
<1>2. /\ approvals' \in Seq(ApprovalRow)
      /\ output' \in Seq(SUBSET Doc) /\ Len(output') = Len(tasks')
  BY RecordStep DEF Kept, RowsKept
<1>3. record' \subseteq CoverSet
  BY RecordStep, OpenRequest DEF Approves, DocInv, DocTypeOK
<1> QED BY <1>1, <1>2, <1>3, UpsetsStep DEF DocTypeOK

-----------------------------------------------------------------------------
(***************************************************************************)
(* The theorems.                                                           *)
(***************************************************************************)
LEMMA DocInitInv == DocInit => DocInv
<1> SUFFICES ASSUME DocInit PROVE DocInv
  OBVIOUS
<1> DEFINE n == Cardinality(Initially)
<1>1. /\ FlowInv /\ tasks = <<>> /\ record = {FirstVersion(d) : d \in Initially}
      /\ approvals \in [1..n -> {Earlier(d) : d \in Initially}]
      /\ \A d \in Initially : Earlier(d) \in ToSet(approvals)
      /\ output = <<>> /\ upsets = 0 /\ n \in Nat
  BY InitInv, FS_CardinalityType, DocAssumption DEF DocInit, Init
<1>2. (CHOOSE c \in Content : TRUE) \in Content
  BY DocAssumption
<1>3. \A d \in Initially : /\ d \in Doc /\ FirstVersion(d) \in CoverSet
                           /\ FirstVersion(d).doc = d /\ FirstVersion(d).version = 1
  BY <1>2, DocAssumption DEF FirstVersion, CoverSet
<1>4. \A d \in Initially :
        /\ Earlier(d) \in ApprovalRow /\ Earlier(d).task = 0 /\ Earlier(d).status = "APPROVED"
        /\ Earlier(d).covers # <<>> /\ ToSet(Earlier(d).covers) = {FirstVersion(d)}
        /\ \A k \in DOMAIN Earlier(d).covers : Earlier(d).covers[k].version # 0
  <2> SUFFICES ASSUME NEW d \in Initially PROVE
        /\ Earlier(d) \in ApprovalRow /\ Earlier(d).task = 0 /\ Earlier(d).status = "APPROVED"
        /\ Earlier(d).covers # <<>> /\ ToSet(Earlier(d).covers) = {FirstVersion(d)}
        /\ \A k \in DOMAIN Earlier(d).covers : Earlier(d).covers[k].version # 0
    OBVIOUS
  <2>1. ASSUME NEW c \in CoverSet, NEW s, s = <<c>>
        PROVE  s \in Seq(CoverSet) /\ s # <<>> /\ ToSet(s) = {c} /\ \A k \in DOMAIN s : s[k] = c
    BY <2>1 DEF ToSet
  <2>2. PICK s, c : c = FirstVersion(d) /\ s = <<c>> /\ Earlier(d) = [task |-> 0, covers |-> s, status |-> "APPROVED"]
    BY DEF Earlier
  <2>3. c \in CoverSet /\ c.version # 0
    BY <2>2, <1>3
  <2>4. s \in Seq(CoverSet) /\ s # <<>> /\ ToSet(s) = {c} /\ \A k \in DOMAIN s : s[k] = c
    BY <2>1, <2>2, <2>3
  <2> QED BY <2>2, <2>3, <2>4 DEF ApprovalRow
<1> HIDE DEF n
<1>5. /\ approvals \in Seq(ApprovalRow) /\ DOMAIN approvals = 1..n
      /\ \A i \in DOMAIN approvals : \E d \in Initially : approvals[i] = Earlier(d)
      /\ Pending(approvals) = {}
  <2>1. DOMAIN approvals = 1..n /\ \A i \in DOMAIN approvals : \E d \in Initially : approvals[i] = Earlier(d)
    BY <1>1
  <2>2. approvals \in [1..n -> ApprovalRow]
    BY <1>1, <1>4
  <2> QED BY <2>1, <2>2, <1>1, <1>4 DEF Pending
<1>6. DocTypeOK
  <2>1. file \in FileType
    BY <1>2, <1>3 DEF DocInit, FileType, Written1, DocStatus, FirstVersion
  <2>2. record \subseteq CoverSet
    BY <1>1, <1>3
  <2>3. output \in Seq(SUBSET Doc) /\ Len(output) = Len(tasks)
    BY <1>1
  <2> QED BY <2>1, <2>2, <2>3, <1>1, <1>5, DocBoundAssumption DEF DocTypeOK, FileType, Written1
<1>7. RowsInv
  BY <1>4, <1>5 DEF RowsInv
<1>8. OpenInv /\ AskedInv
  BY <1>1, <1>5 DEF OpenInv, AskedInv
<1>9. \A d : \A v \in Versions(record, d) : v = 1 /\ d \in Initially
  BY <1>1, <1>3 DEF Versions
<1>10. LatestInv
  <2> SUFFICES ASSUME NEW d \in Doc
               PROVE  \E m \in Versions(record, d) \cup {0} : \A v \in Versions(record, d) : v <= m
    BY DEF LatestInv
  <2>1. CASE Versions(record, d) = {}
    BY <2>1
  <2>2. CASE Versions(record, d) # {}
    BY <2>2, <1>9
  <2> QED BY <2>1, <2>2
<1>11. RecordedWasReviewed
  <2> SUFFICES ASSUME NEW d \in Initially
               PROVE  \E i \in DOMAIN approvals :
                        approvals[i].status = "APPROVED" /\ FirstVersion(d) \in ToSet(approvals[i].covers)
    BY <1>1 DEF RecordedWasReviewed
  <2>1. PICK i \in DOMAIN approvals : approvals[i] = Earlier(d)
    BY <1>1 DEF ToSet
  <2> QED BY <2>1, <1>4
<1>12. NewVersionsAuthorised
  <2>1. \A r \in record : r.version = 1
    BY <1>1, <1>3
  <2> QED BY <2>1 DEF NewVersionsAuthorised, Authorised
<1>13. UpstreamFirst
  <2> SUFFICES ASSUME NEW r \in record, NEW u \in Upstream[r.doc] PROVE Versions(record, u) # {}
    BY DEF UpstreamFirst
  <2>1. u \in Initially
    BY <1>1, <1>3, DocAssumption
  <2> QED BY <2>1, <1>1, <1>3 DEF Versions
<1>14. StepOutputsApproved
  BY <1>1 DEF StepOutputsApproved
<1> QED BY <1>1, <1>6, <1>7, <1>8, <1>10, <1>11, <1>12, <1>13, <1>14 DEF DocInv

\* Every step keeps the invariant.
LEMMA DocStep == DocInv /\ [DocNext]_allVars => DocInv'
<1> SUFFICES ASSUME DocInv, [DocNext]_allVars PROVE DocInv'
  OBVIOUS
<1>1. Shaped
  BY StepShape
<1>2. FlowInv'
  <2>1. [Next]_vars
    BY FlowStep DEF DocInv
  <2> QED BY <2>1, FlowInvStep DEF DocInv
<1> QED BY <1>1, <1>2, DocTypeStep, RowsInvStep, OpenInvStep, LatestInvStep, AskedInvStep,
           ReviewedStep, AuthorisedStep, UpstreamStep, OutputsStep DEF DocInv

\* DocInv holds in every reachable state of the engine with its documents: whatever
\* agents produce, humans decide, the owner edits, and wherever a crash falls between
\* a handler's files and its rows.
THEOREM DocInvariant == DocSpec => []DocInv
BY DocInitInv, DocStep, PTL DEF DocSpec

\* Files, records, approval requests and outputs are always well-formed: no version
\* is 0 and every task has its outputs.
THEOREM DocTypeCorrect == DocSpec => []DocTypeOK
<1>1. DocInv => DocTypeOK
  BY DEF DocInv
<1> QED BY <1>1, DocInvariant, PTL

\* What happens to documents never makes the engine do what it could not do without
\* them: every theorem about RequestFlow holds of the two together.
THEOREM DocImplementsFlow == DocSpec => Spec
<1>1. DocInv /\ [DocNext]_allVars => [Next]_vars
  BY FlowStep DEF DocInv
<1>2. DocInit => Init
  BY DEF DocInit
<1> QED BY <1>1, <1>2, DocInvariant, PTL DEF DocSpec, Spec

\* Every approved version, with its hash, is one a human was asked about in a request
\* that was then approved (decideDocuments compares both before it records them).
THEOREM ReviewedCorrect == DocSpec => []RecordedWasReviewed
<1>1. DocInv => RecordedWasReviewed
  BY DEF DocInv
<1> QED BY <1>1, DocInvariant, PTL

\* A version after the first needs an approved change request, for every document that
\* no request covers beside its own (checkVersioning).
THEOREM VersionsAuthorised == DocSpec => []NewVersionsAuthorised
<1>1. DocInv => NewVersionsAuthorised
  BY DEF DocInv
<1> QED BY <1>1, DocInvariant, PTL

\* A document is approved only after everything it is built on (ValidateDoc runs again
\* on the approved files before the transaction commits).
THEOREM UpstreamFirstCorrect == DocSpec => []UpstreamFirst
<1>1. DocInv => UpstreamFirst
  BY DEF DocInv
<1> QED BY <1>1, DocInvariant, PTL

\* A document task waits for a human exactly while one request about it is open, after
\* every answer, cancellation and withdrawal.
THEOREM WaitingCorrect == DocSpec => []WaitingHasRequest
<1>1. DocInv => WaitingHasRequest
  <2> SUFFICES ASSUME DocInv PROVE WaitingHasRequest
    OBVIOUS
  <2>1. ASSUME NEW t \in DOMAIN tasks, KindOf(t) # "code", tasks[t].status = "WAITING_FOR_HUMAN"
        PROVE  \E i \in Pending(approvals) : \A j \in Pending(approvals) : approvals[j].task = t <=> j = i
    <3>1. PICK i \in Pending(approvals) : approvals[i].task = t
      BY <2>1 DEF DocInv, OpenInv
    <3> QED BY <3>1, OpenRequest
  <2> QED BY <2>1 DEF WaitingHasRequest, DocInv, OpenInv
<1> QED BY <1>1, DocInvariant, PTL

\* Every document a completed, gated step hands to later steps is recorded in a version
\* a human approved for that very task.
THEOREM OutputsApproved == DocSpec => []StepOutputsApproved
<1>1. DocInv => StepOutputsApproved
  BY DEF DocInv
<1> QED BY <1>1, DocInvariant, PTL
=============================================================================

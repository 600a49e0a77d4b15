----------------------------- MODULE DocumentFlow -----------------------------
(***************************************************************************)
(* The workflow engine (RequestFlow) together with the documents its tasks *)
(* produce: Markdown files in the knowledge directory, which the owner     *)
(* edits with any editor, and the control plane's table of approved        *)
(* versions (internal/controlplane/documents.go and knowledge.go, the      *)
(* rules of internal/docs/validate.go).                                    *)
(*                                                                         *)
(* A handler that writes files holds the mutex kmu around its transaction, *)
(* so each is one action; only a crash separates its files from its rows.  *)
(* A file is its status, version and content: the hash covers all but the  *)
(* status.  Types, relationships and affected documents do not change, and *)
(* everything else the validator looks at is valid.                        *)
(***************************************************************************)
EXTENDS RequestFlow, FiniteSetsExt

CONSTANTS
  Doc,           \* document keys: numbers, in revision order (reviseOrder)
  TypeOf,        \* each document's type
  StepType,      \* doc_type of the steps of each kind
  ExtraTypes,    \* extra_types of the steps of each kind
  Upstream,      \* what must be approved before a document goes for approval
  Affects,       \* a change request's `affects'; {} for other documents
  Initially,     \* documents approved, at version 1, before the request
  Content,       \* what may be written in a document
  MaxVersion,    \* bound: versions the owner writes by hand
  MaxApprovals,  \* bound: approval requests for documents ever made
  MaxUpsets      \* bound: files the owner edits or creates and crashes in a handler

ASSUME DocAssumption ==
  /\ Doc \subseteq Nat /\ Initially \subseteq Doc /\ IsFiniteSet(Initially)
  /\ Upstream \in [Doc -> SUBSET Doc] /\ Affects \in [Doc -> SUBSET Doc]
  /\ \A d \in Initially : Upstream[d] \subseteq Initially
  /\ Content # {}
ASSUME DocBoundAssumption == MaxVersion \in Nat /\ MaxUpsets \in Nat

VARIABLES
  file,       \* what is on disk
  record,     \* document_approvals: the approved versions and their hashes
  approvals,  \* approval_requests with subject_type = 'document'
  output,     \* tasks.output_docs
  upsets      \* edits of files and crashes so far

docVars == <<file, record, approvals, output, upsets>>
allVars == <<vars, docVars>>

DocStatus == {"draft", "pending_approval", "approved", "changes_requested", "rejected"}
Absent == [status |-> "absent", version |-> 0, content |-> CHOOSE c \in Content : TRUE]

\* covers: "key@version@hash"; also a row of document_approvals.
Cover(f, d) == [doc |-> d, version |-> f[d].version, content |-> f[d].content]
CoverSet == [doc : Doc, version : Nat, content : Content]

\* task is 0 when the owner submitted the document by hand.
ApprovalRow ==
  [task : Nat, covers : Seq(CoverSet),
   status : {"PENDING_APPROVAL", "APPROVED", "CHANGES_REQUESTED", "REJECTED"}]

Request(t, covers) == [task |-> t, covers |-> covers, status |-> "PENDING_APPROVAL"]
Pending(rows) == {i \in DOMAIN rows : rows[i].status = "PENDING_APPROVAL"}
Exists(d) == file[d] # Absent

-----------------------------------------------------------------------------
(***************************************************************************)
(* The validator (validate.go).                                            *)
(***************************************************************************)
Versions(rec, d) == {r.version : r \in {x \in rec : x.doc = d}}
Latest(rec, d) == Max(Versions(rec, d) \cup {0})

IsApproved(f, rec, d) == f[d].status = "approved" /\ Cover(f, d) \in rec

AuthorisedByCR(f, rec, d) == \E cr \in Doc : d \in Affects[cr] /\ IsApproved(f, rec, cr)

\* Mutant: any later version will do.
MutCheckVersioning(f, rec, d) ==
  /\ f[d].version \in Versions(rec, d) => Cover(f, d) \in rec
  /\ f[d].status = "approved" => f[d].version \in Versions(rec, d)
  /\ Latest(rec, d) > 0 => f[d].version >= Latest(rec, d)

CheckVersioning(f, rec, d) ==
  /\ f[d].version \in Versions(rec, d) => Cover(f, d) \in rec
  /\ f[d].status = "approved" => f[d].version \in Versions(rec, d)
  /\ Latest(rec, d) > 0 =>
       \/ f[d].version = Latest(rec, d)
       \/ f[d].version = Latest(rec, d) + 1 /\ AuthorisedByCR(f, rec, d)

\* Mutant: upstream documents are looked at before approval only.
MutValidateDoc(f, rec, d) == CheckVersioning(f, rec, d)

ValidateDoc(f, rec, d) ==
  /\ CheckVersioning(f, rec, d)
  /\ f[d].status \in {"pending_approval", "approved"} =>
       \A u \in Upstream[d] : IsApproved(f, rec, u)

\* NextID: one above the highest number in use, in a scope nothing leaves.
NextID(type) ==
  {d \in Doc : TypeOf[d] = type /\ \A e \in Doc : TypeOf[e] = type => (Exists(e) <=> e < d)}

-----------------------------------------------------------------------------
DocTypeOK ==
  /\ file \in [Doc -> [status : DocStatus, version : Nat \ {0}, content : Content] \cup {Absent}]
  /\ record \subseteq CoverSet
  /\ approvals \in Seq(ApprovalRow)
  /\ output \in Seq(SUBSET Doc) /\ Len(output) = Len(tasks)
  /\ upsets \in 0..MaxUpsets

FirstVersion(d) == [doc |-> d, version |-> 1, content |-> CHOOSE c \in Content : TRUE]
Earlier(d) == [task |-> 0, covers |-> <<FirstVersion(d)>>, status |-> "APPROVED"]

DocInit ==
  /\ Init
  /\ file = [d \in Doc |-> IF d \in Initially
               THEN [status |-> "approved", version |-> 1, content |-> FirstVersion(d).content]
               ELSE Absent]
  /\ record = {FirstVersion(d) : d \in Initially}
  /\ approvals \in [1..Cardinality(Initially) -> {Earlier(d) : d \in Initially}]
  /\ \A d \in Initially : Earlier(d) \in ToSet(approvals)
  /\ output = <<>> /\ upsets = 0

-----------------------------------------------------------------------------
(***************************************************************************)
(* What the engine's steps do to documents.                                *)
(***************************************************************************)

\* The documents a revise step has a task for, and the one of task t: as many come
\* before it as the step has tasks before t.
Targets == UNION {Affects[d] : d \in UNION {output[u] : u \in DOMAIN output}}
Target(t) ==
  {d \in Targets : Cardinality({e \in Targets : e < d}) =
                   Cardinality({u \in TasksOf(tasks, tasks[t].step) : u < t})}

\* output_docs of the rows startStep inserted; a revise step has one per target.
\* (The targets are those of the request's own change request.)
NewRows ==
  LET n == Len(tasks') - Len(tasks) IN
  /\ n > 0 /\ steps'[tasks'[Len(tasks')].step].kind = "revise" => n = Cardinality(Targets)
  /\ output' = output \o [k \in 1..n |-> {}]

\* Mutant: nothing is withdrawn from the queue.
MutWithdraw(dropped, f, rows) ==
  /\ file' = [d \in Doc |->
       IF d \in UNION {output[t] : t \in dropped} /\ f[d].status \notin {"absent", "approved"}
       THEN [f[d] EXCEPT !.status = "rejected"] ELSE f[d]]
  /\ approvals' = rows

\* cancelTaskTx, for every task in dropped: open requests are closed and the
\* documents that are not approved are marked rejected.
Withdraw(dropped, f, rows) ==
  /\ file' = [d \in Doc |->
       IF d \in UNION {output[t] : t \in dropped} /\ f[d].status \notin {"absent", "approved"}
       THEN [f[d] EXCEPT !.status = "rejected"] ELSE f[d]]
  /\ approvals' = [i \in DOMAIN rows |->
       IF rows[i].task \in dropped /\ rows[i].status = "PENDING_APPROVAL"
       THEN [rows[i] EXCEPT !.status = "REJECTED"] ELSE rows[i]]

Dropped == {t \in DOMAIN tasks : tasks'[t].status = "CANCELLED" /\ tasks[t].status # "CANCELLED"}

\* The repository makes no difference to documents: named only where needed.
Create(wf) ==
  /\ CreateRequest(wf, StartsWithCode(wf))
  /\ NewRows
  /\ UNCHANGED <<file, record, approvals, upsets>>

\* Steps of tasks that touch no document: the worker protocol and code tasks.
WorkTask(t) ==
  /\ \/ Take(t) \/ Release(t) \/ Fail(t) \/ RetryTask(t)
     \/ AskMerge(t) \/ ApproveMerge(t) \/ ReworkCode(t) \/ CompleteCode(t)
  /\ NewRows
  /\ UNCHANGED <<file, record, approvals, upsets>>

Cancel ==
  /\ CancelRequest \/ \E t \in DOMAIN tasks : CancelTask(t)
  /\ NewRows
  /\ Withdraw(Dropped, file, approvals)
  /\ UNCHANGED <<record, upsets>>

\* reject of a merge gate: the documents of other tasks may be withdrawn too.
RejectCode(t) ==
  /\ KindOf(t) = "code" /\ Reject(t)
  /\ NewRows
  /\ Withdraw(Dropped, file, approvals)
  /\ UNCHANGED <<record, upsets>>

-----------------------------------------------------------------------------
(***************************************************************************)
(* taskOutput and prepareOutput.                                           *)
(***************************************************************************)

\* Mutant: a new document keeps the version the agent left out.
MutNewVersion(t, d) ==
  IF \/ IsApproved(file, record, d)
     \/ KindOf(t) = "revise" /\ file[d].version <= Latest(record, d)
  THEN Latest(record, d) + 1
  ELSE file[d].version

NewVersion(t, d) ==
  IF ~Exists(d) THEN 1
  ELSE IF \/ IsApproved(file, record, d)
          \/ KindOf(t) = "revise" /\ file[d].version <= Latest(record, d)
       THEN Latest(record, d) + 1
  ELSE file[d].version

\* The documents a file of the output may be: a new one, or the task's own.
Mine(t, type) == NextID(type) \cup {d \in output[t] : TypeOf[d] = type}

Primaries(t) ==
  IF KindOf(t) = "revise" THEN Target(t) ELSE Mine(t, StepType[KindOf(t)])

Extras(t) ==
  UNION {Mine(t, type) : type \in ExtraTypes[KindOf(t)]}

\* The files of an output with documents D and text c, under a status.
Written(t, D, c, st) ==
  [d \in Doc |-> IF d \in D
     THEN [status |-> st, version |-> NewVersion(t, d), content |-> c] ELSE file[d]]

\* What an agent may send: the primary first, at most one extra of the same text.
Outputs(t) ==
  [docs : {<<d>> : d \in Primaries(t)} \cup {<<d, x>> : d \in Primaries(t), x \in Extras(t)},
   text : Content]

\* What the platform accepts, once it is on disk under that status.
Acceptable(t, st) ==
  {o \in Outputs(t) :
     LET f == Written(t, ToSet(o.docs), o.text, st) IN
     \A d \in ToSet(o.docs) : ValidateDoc(f, record, d)}

\* Mutant: the human is asked about the primary document only.
MutCoversOf(docs, f) == <<Cover(f, docs[1])>>

CoversOf(docs, f) == [k \in DOMAIN docs |-> Cover(f, docs[k])]

\* No open request about this document: the index approval_requests_one_open.
NoneOpen(d, rows) == \A i \in Pending(rows) : rows[i].covers[1].doc # d

\* Output that is not valid changes nothing: the agent tries again.
TaskOutput(t) ==
  /\ SubmitOutput(t) /\ Len(approvals) < MaxApprovals
  /\ \E o \in Acceptable(t, "pending_approval") :
    /\ NoneOpen(o.docs[1], approvals)
    /\ file' = Written(t, ToSet(o.docs), o.text, "pending_approval")
    /\ approvals' = Append(approvals, Request(t, CoversOf(o.docs, file')))
    /\ output' = [output EXCEPT ![t] = ToSet(o.docs)]
    /\ UNCHANGED <<record, upsets>>

\* A plan without a gate stays a draft.
PlanOutput(t) ==
  /\ AcceptPlan(t)
  /\ \E o \in Acceptable(t, "draft") :
    /\ file' = Written(t, ToSet(o.docs), o.text, "draft")
    /\ output' = [output EXCEPT ![t] = ToSet(o.docs)] \o
                 [k \in 1..(Len(tasks') - Len(tasks)) |-> {}]
    /\ UNCHANGED <<record, approvals, upsets>>

-----------------------------------------------------------------------------
(***************************************************************************)
(* Decisions (decide and decideDocuments).                                 *)
(***************************************************************************)
CoveredDocs(i) == {c.doc : c \in ToSet(approvals[i].covers)}

\* Mutant: the version is compared, the hash is not.
MutUnchanged(i) ==
  \A c \in ToSet(approvals[i].covers) : file[c.doc].version = c.version

Unchanged(i) == \A c \in ToSet(approvals[i].covers) : Cover(file, c.doc) = c

Marked(i, st) == [d \in Doc |-> IF d \in CoveredDocs(i) THEN [file[d] EXCEPT !.status = st] ELSE file[d]]
Answered(i, st) == [approvals EXCEPT ![i].status = st]

\* The rows the decision inserts.
NewRecords(i) == record \cup {Cover(file, d) : d \in CoveredDocs(i)}

\* The rows are new (the primary key) and each document is still valid.
CanApprove(i) ==
  \A d \in CoveredDocs(i) :
    /\ file[d].version \notin Versions(record, d)
    /\ ValidateDoc(Marked(i, "approved"), NewRecords(i), d)

Approve(i) ==
  /\ i \in Pending(approvals) /\ Unchanged(i) /\ CanApprove(i)
  /\ IF approvals[i].task = 0 THEN UNCHANGED vars ELSE ApproveDocument(approvals[i].task)
  /\ NewRows
  /\ record' = NewRecords(i)
  /\ file' = Marked(i, "approved")
  /\ approvals' = Answered(i, "APPROVED")
  /\ UNCHANGED upsets

RequestChanges(i) ==
  /\ i \in Pending(approvals) /\ Unchanged(i)
  /\ IF approvals[i].task = 0 THEN UNCHANGED vars ELSE ReworkDocument(approvals[i].task)
  /\ NewRows
  /\ file' = Marked(i, "changes_requested")
  /\ approvals' = Answered(i, "CHANGES_REQUESTED")
  /\ UNCHANGED <<record, upsets>>

RejectDocuments(i) ==
  /\ i \in Pending(approvals) /\ Unchanged(i)
  /\ IF approvals[i].task = 0 THEN UNCHANGED vars ELSE Reject(approvals[i].task)
  /\ NewRows
  /\ Withdraw(Dropped \ {approvals[i].task}, Marked(i, "rejected"), Answered(i, "REJECTED"))
  /\ UNCHANGED <<record, upsets>>

-----------------------------------------------------------------------------
(***************************************************************************)
(* The owner's own documents.                                              *)
(***************************************************************************)
NewDocument(d, c) ==
  /\ d \in NextID(TypeOf[d]) /\ upsets < MaxUpsets
  /\ file' = [file EXCEPT ![d] = [status |-> "draft", version |-> 1, content |-> c]]
  /\ upsets' = upsets + 1
  /\ UNCHANGED <<vars, record, approvals, output>>

\* With an editor, the status and the version too.
EditFile(d) ==
  /\ Exists(d) /\ upsets < MaxUpsets
  /\ \E st \in {file[d].status, "draft", "approved"}, c \in Content,
        v \in {file[d].version} \cup 1..MaxVersion :
       file' = [file EXCEPT ![d] = [status |-> st, version |-> v, content |-> c]]
  /\ upsets' = upsets + 1
  /\ UNCHANGED <<vars, record, approvals, output>>

\* The requests once a stale one of the owner's about d is closed.
Freshened(d) ==
  [i \in DOMAIN approvals |->
     IF /\ approvals[i].status = "PENDING_APPROVAL" /\ approvals[i].task = 0
        /\ approvals[i].covers[1].doc = d /\ approvals[i].covers[1] # Cover(file, d)
     THEN [approvals[i] EXCEPT !.status = "CHANGES_REQUESTED"]
     ELSE approvals[i]]

Submitted(d) == [file EXCEPT ![d].status = "pending_approval"]

CanSubmit(d) ==
  /\ Exists(d) /\ ~IsApproved(file, record, d)
  /\ ValidateDoc(Submitted(d), record, d)
  /\ NoneOpen(d, Freshened(d)) /\ Len(approvals) < MaxApprovals

Submit(d) ==
  /\ CanSubmit(d)
  /\ file' = Submitted(d)
  /\ approvals' = Append(Freshened(d), Request(0, <<Cover(file, d)>>))
  /\ UNCHANGED <<vars, record, output, upsets>>

-----------------------------------------------------------------------------
(***************************************************************************)
(* The control plane dies after a handler wrote some of its files and      *)
(* before its transaction committed: nothing undoes them (staged is in     *)
(* memory).                                                                *)
(***************************************************************************)
Torn(f) ==
  /\ upsets < MaxUpsets /\ upsets' = upsets + 1
  /\ \E D \in SUBSET {d \in Doc : f[d] # file[d]} :
       file' = [d \in Doc |-> IF d \in D THEN f[d] ELSE file[d]]
  /\ UNCHANGED <<vars, record, approvals, output>>

\* taskOutput writes before it validates.
CrashInOutput(t) ==
  /\ KindOf(t) # "code" /\ tasks[t].status = "RUNNING"
  /\ \E o \in Outputs(t) :
       Torn(Written(t, ToSet(o.docs), o.text, IF Gated(t) THEN "pending_approval" ELSE "draft"))

\* Files of other tasks that a rejection withdraws are left out.
CrashInDecision(i) ==
  /\ i \in Pending(approvals) /\ Unchanged(i)
  /\ \/ CanApprove(i) /\ Torn(Marked(i, "approved"))
     \/ Torn(Marked(i, "changes_requested"))
     \/ Torn(Marked(i, "rejected"))

CrashInSubmit(d) == CanSubmit(d) /\ Torn(Submitted(d))

-----------------------------------------------------------------------------
DocNext ==
  \/ \E wf \in Workflow : Create(wf)
  \/ \E t \in DOMAIN tasks :
       WorkTask(t) \/ TaskOutput(t) \/ PlanOutput(t) \/ RejectCode(t) \/ CrashInOutput(t)
  \/ Cancel
  \/ \E i \in DOMAIN approvals :
       Approve(i) \/ RequestChanges(i) \/ RejectDocuments(i) \/ CrashInDecision(i)
  \/ \E d \in Doc :
       (\E c \in Content : NewDocument(d, c)) \/ EditFile(d) \/ Submit(d) \/ CrashInSubmit(d)

DocSpec == DocInit /\ [][DocNext]_allVars

-----------------------------------------------------------------------------
(***************************************************************************)
(* Properties.                                                             *)
(***************************************************************************)

\* "You always approve exactly what you reviewed" (docs/documents.md:152): every
\* approved version on record, with its hash, is one a human was asked about in
\* a request that was then approved, whatever happened to the file since.
RecordedWasReviewed ==
  \A r \in record : \E i \in DOMAIN approvals :
    approvals[i].status = "APPROVED" /\ r \in ToSet(approvals[i].covers)

\* The versions of r's document begin with r, or r follows the one before and
\* came after an approved change request affecting the document.
Authorised(r) ==
  \/ \A q \in record : q.doc = r.doc => q.version >= r.version
  \/ /\ r.version - 1 \in Versions(record, r.doc)
     /\ \E q \in record : r.doc \in Affects[q.doc]

\* Some request covers d beside its primary document: only such a request may be
\* open together with another one about d.
IsExtra(d) == \E i \in DOMAIN approvals : \E k \in DOMAIN approvals[i].covers :
                k > 1 /\ approvals[i].covers[k].doc = d

\* New versions need a change request, as long as one request at a time is about
\* the document: the approval is validated with its own rows already in place, so
\* it rests on what was true when the request was made.
NewVersionsAuthorised == \A r \in record : IsExtra(r.doc) \/ Authorised(r)

\* "To change it, use a change request" (documents.md:150, of approved documents).
ChangesAuthorised == \A r \in record : Authorised(r)

\* A document is approved only after what it is built on was approved.
UpstreamFirst ==
  \A r \in record : \A u \in Upstream[r.doc] : Versions(record, u) # {}

\* A document task waits for a human exactly while one request about its output
\* is open, and that request can only be about a waiting task.
WaitingHasRequest ==
  /\ \A t \in DOMAIN tasks :
       KindOf(t) # "code" /\ tasks[t].status = "WAITING_FOR_HUMAN" =>
         \E i \in Pending(approvals) : \A j \in Pending(approvals) : approvals[j].task = t <=> j = i
  /\ \A i \in Pending(approvals) :
       approvals[i].task # 0 => tasks[approvals[i].task].status = "WAITING_FOR_HUMAN"

\* The inputs of later steps: every document of a completed step behind a gate
\* is recorded in a version a human approved for that very task.
StepOutputsApproved ==
  \A t \in DOMAIN tasks :
    tasks[t].status = "COMPLETED" /\ KindOf(t) # "code" /\ Gated(t) =>
      /\ output[t] # {}
      /\ \A d \in output[t] : \E i \in DOMAIN approvals :
           /\ approvals[i].task = t /\ approvals[i].status = "APPROVED"
           /\ \E c \in ToSet(approvals[i].covers) \cap record : c.doc = d

\* "If a document is edited after it was submitted, approval is refused until
\* it's submitted again" (documents.md:152): it can be, once its content is valid.
EditedCanBeResubmitted ==
  \A i \in Pending(approvals) :
    LET d == approvals[i].covers[1].doc IN
    /\ Cover(file, d) # approvals[i].covers[1]
    /\ ~IsApproved(file, record, d) /\ ValidateDoc(Submitted(d), record, d)
    => NoneOpen(d, Freshened(d))
=============================================================================

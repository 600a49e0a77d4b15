---------------------------- MODULE TaskLifecycle ----------------------------
(***************************************************************************)
(* The control plane's side of a CODE task: the task state machine         *)
(* (internal/task/state.go), the worker protocol, the merge gate, the      *)
(* reaper and the owner's operations (internal/controlplane).              *)
(*                                                                         *)
(* Every handler is one database transaction that locks the task row it    *)
(* changes (lockTask, tasks.go:211), so each is one action here.  The one  *)
(* row that is read without a lock, the worker's, is the subject of module *)
(* ClaimReap.  Document, plan and revise tasks are not in this module.     *)
(*                                                                         *)
(* Tasks are either stand-alone (POST /tasks) or belong to PlanTask: the   *)
(* code tasks a request's approved plan created, which form the last step  *)
(* of that one request.                                                    *)
(***************************************************************************)
EXTENDS Integers, Sequences

CONSTANTS
  Task,             \* task ids: the serial primary key of table tasks
  PlanTask,         \* the tasks of the request's code step
  PlanDeps,         \* what each plan task depends on, from the plan's table
  Worker,           \* rows of table workers
  Eligible,         \* Eligible[w]: tasks whose capabilities and project w has
  Commit,           \* git commits a worker may name
  Gate,             \* policy actions that need a human at this autonomy level
  GatedCall,        \* the <<gate, stage>> pairs the workers ask for
  MaxAttempts,      \* task.MaxAttempts
  MaxReviewRounds,  \* maxReviewRounds
  MaxClaims,        \* bound: claims in a row (the API lets a worker requeue itself)
  MaxApprovals,     \* bound: approval requests ever made
  NoWorker, NoCommit

MergeGate == "merge_protected"

ASSUME TaskAssumption ==
  /\ Task \subseteq Nat /\ PlanTask \subseteq Task
  /\ PlanDeps \in [PlanTask -> SUBSET PlanTask]
  /\ \A t \in PlanTask : \A d \in PlanDeps[t] : d < t
  /\ Eligible \in [Worker -> SUBSET Task]
ASSUME NoneAssumption == NoWorker \notin Worker /\ NoCommit \notin Commit
ASSUME BoundAssumption ==
  /\ MaxAttempts \in Nat \ {0} /\ MaxReviewRounds \in Nat
  /\ MaxClaims \in Nat /\ MaxClaims >= MaxAttempts /\ MaxApprovals \in Nat

\* worker.go asks for exactly one gated action, from the stage it resumes in
\* (worker.go:304 and 367); other gates exist in policy but never with "merge".
ASSUME CallAssumption ==
  /\ GatedCall \subseteq Gate \X {"implement", "merge"}
  /\ \A c \in GatedCall : c[2] = "merge" => c[1] = MergeGate

VARIABLES
  wstatus,    \* workers.status, or "none" before the row exists
  status,     \* tasks.status, or "NONE" before the row exists
  holder,     \* tasks.worker_id
  stage,      \* tasks.stage
  attempts,   \* tasks.attempts
  rounds,     \* tasks.review_rounds
  deps,       \* task_dependencies
  mergeSha,   \* tasks.merge_sha
  approvals,  \* approval_requests with subject_type = 'task'; the index is the id
  request     \* requests.status of the request that owns PlanTask, or "none"

workerVars == <<wstatus>>
workVars   == <<attempts, rounds, deps, mergeSha>>
vars == <<wstatus, status, holder, stage, attempts, rounds, deps, mergeSha,
          approvals, request>>

-----------------------------------------------------------------------------
(***************************************************************************)
(* The state machine (state.go).                                           *)
(***************************************************************************)
InFlight == {"ASSIGNED", "RUNNING", "TESTING", "REVIEWING"}
TaskStatus == InFlight \cup
  {"PENDING", "WAITING_FOR_HUMAN", "COMPLETED", "FAILED", "CANCELLED"}

Transitions ==
  ({"PENDING"} \X {"ASSIGNED", "CANCELLED"}) \cup
  ({"ASSIGNED"} \X {"RUNNING", "PENDING", "FAILED", "CANCELLED"}) \cup
  ({"RUNNING"} \X {"TESTING", "REVIEWING", "WAITING_FOR_HUMAN", "COMPLETED",
                   "PENDING", "FAILED", "CANCELLED"}) \cup
  ({"TESTING"} \X {"RUNNING", "REVIEWING", "WAITING_FOR_HUMAN", "COMPLETED",
                   "PENDING", "FAILED", "CANCELLED"}) \cup
  ({"REVIEWING"} \X {"RUNNING", "WAITING_FOR_HUMAN", "COMPLETED", "PENDING",
                     "FAILED", "CANCELLED"}) \cup
  ({"WAITING_FOR_HUMAN"} \X {"PENDING", "CANCELLED", "COMPLETED"}) \cup
  ({"FAILED"} \X {"PENDING"})

CanTransition(from, to) == <<from, to>> \in Transitions

\* Mutant: a failed task keeps its worker.
MutMove(t, to) ==
  /\ CanTransition(status[t], to)
  /\ status' = [status EXCEPT ![t] = to]
  /\ holder' = [holder EXCEPT ![t] = IF to \in InFlight \cup {"FAILED"} THEN @ ELSE NoWorker]

\* move(): the guard, the new status, and the worker released unless in flight.
Move(t, to) ==
  /\ CanTransition(status[t], to)
  /\ status' = [status EXCEPT ![t] = to]
  /\ holder' = [holder EXCEPT ![t] = IF to \in InFlight THEN @ ELSE NoWorker]

Created(t) == status[t] # "NONE"
Owns(w, t) == holder[t] = w /\ status[t] \in InFlight

-----------------------------------------------------------------------------
(***************************************************************************)
(* Approval requests of tasks.                                             *)
(***************************************************************************)
ApprovalStatus == {"PENDING_APPROVAL", "APPROVED", "CHANGES_REQUESTED", "REJECTED"}
Decision == ApprovalStatus \ {"PENDING_APPROVAL"}
ApprovalRow == [task : Task, gate : Gate, version : Commit \cup {NoCommit},
                status : ApprovalStatus]

ApprovalIds(t, gate, st) ==
  {i \in DOMAIN approvals : /\ approvals[i].task = t
                            /\ approvals[i].gate = gate
                            /\ approvals[i].status = st}

Approved(t, gate) == ApprovalIds(t, gate, "APPROVED")

\* ORDER BY id DESC LIMIT 1
ApprovedVersion(t, gate) ==
  approvals[CHOOSE i \in Approved(t, gate) :
              \A j \in Approved(t, gate) : j <= i].version

\* Mutants: the gates are left open; decided gates are overwritten.
MutGatesLeftOpen(S, rows) == rows
MutGatesAllClosed(S, rows) ==
  [i \in DOMAIN rows |->
     IF rows[i].task \in S THEN [rows[i] EXCEPT !.status = "REJECTED"] ELSE rows[i]]

\* cancelTaskTx closes the open gates of the tasks in S.
GatesClosed(S, rows) ==
  [i \in DOMAIN rows |->
     IF rows[i].task \in S /\ rows[i].status = "PENDING_APPROVAL"
     THEN [rows[i] EXCEPT !.status = "REJECTED"]
     ELSE rows[i]]

-----------------------------------------------------------------------------
(***************************************************************************)
(* The request that owns PlanTask, at its last step.                       *)
(***************************************************************************)
Open == {t \in Task : status[t] \notin {"NONE", "COMPLETED", "CANCELLED"}}

\* Mutant: no cascade.
MutCancelledWith(t) == {t}

\* The tasks that cancelling t cancels: a cancelled step cancels its request,
\* and finishRequest cancels the request's open tasks (a FAILED one through
\* PENDING).
CancelledWith(t) ==
  {t} \cup (IF t \in PlanTask /\ request = "active" THEN Open \cap PlanTask ELSE {})

CancelAll(S) ==
  /\ status' = [u \in Task |-> IF u \in S THEN "CANCELLED" ELSE status[u]]
  /\ holder' = [u \in Task |-> IF u \in S THEN NoWorker ELSE holder[u]]

\* advance() after t completed: the request completes with its last task.
AdvancedRequest(t) ==
  IF /\ t \in PlanTask /\ request = "active"
     /\ \A u \in PlanTask \ {t} : status[u] = "COMPLETED"
  THEN "completed" ELSE request

\* advance() after t was cancelled.
CancelledRequest(t) ==
  IF t \in PlanTask /\ request = "active" THEN "cancelled" ELSE request

-----------------------------------------------------------------------------
TypeOK ==
  /\ wstatus \in [Worker -> {"none", "online", "offline"}]
  /\ status \in [Task -> TaskStatus \cup {"NONE"}]
  /\ holder \in [Task -> Worker \cup {NoWorker}]
  /\ stage \in [Task -> {"implement", "merge"}]
  /\ attempts \in [Task -> Nat]
  /\ rounds \in [Task -> 0..MaxReviewRounds]
  /\ deps \in [Task -> SUBSET Task]
  /\ mergeSha \in [Task -> Commit \cup {NoCommit}]
  /\ approvals \in Seq(ApprovalRow)
  /\ request \in {"none", "active", "completed", "cancelled"}

Init ==
  /\ wstatus = [w \in Worker |-> "none"]
  /\ status = [t \in Task |-> "NONE"]
  /\ holder = [t \in Task |-> NoWorker]
  /\ stage = [t \in Task |-> "implement"]
  /\ attempts = [t \in Task |-> 0]
  /\ rounds = [t \in Task |-> 0]
  /\ deps = [t \in Task |-> {}]
  /\ mergeSha = [t \in Task |-> NoCommit]
  /\ approvals = <<>>
  /\ request = "none"

-----------------------------------------------------------------------------
(***************************************************************************)
(* Operations of the owner and of the workflow engine.                     *)
(***************************************************************************)

\* createTask: a stand-alone task; its dependencies are existing tasks in any
\* status, a cancelled one too.  Ids are handed out in order.
CreateTask(t, D) ==
  /\ t \notin PlanTask /\ ~Created(t)
  /\ \A u \in Task : u < t => Created(u)
  /\ \A d \in D : Created(d)
  /\ status' = [status EXCEPT ![t] = "PENDING"]
  /\ deps' = [deps EXCEPT ![t] = D]
  /\ UNCHANGED <<workerVars, holder, stage, attempts, rounds, mergeSha, approvals, request>>

\* createPlanTasks: the request reaches its code step; all tasks in one transaction.
CreatePlanTasks ==
  /\ request = "none" /\ PlanTask # {}
  /\ \A t \in PlanTask : \A u \in Task \ PlanTask : u < t => Created(u)
  /\ status' = [t \in Task |-> IF t \in PlanTask THEN "PENDING" ELSE status[t]]
  /\ deps' = [t \in Task |-> IF t \in PlanTask THEN PlanDeps[t] ELSE deps[t]]
  /\ request' = "active"
  /\ UNCHANGED <<workerVars, holder, stage, attempts, rounds, mergeSha, approvals>>

CancelTask(t) ==
  /\ CanTransition(status[t], "CANCELLED")
  /\ CancelAll(CancelledWith(t))
  /\ approvals' = GatesClosed(CancelledWith(t), approvals)
  /\ request' = CancelledRequest(t)
  /\ UNCHANGED <<workerVars, stage, workVars>>

CancelRequest ==
  /\ request = "active"
  /\ CancelAll(Open \cap PlanTask)
  /\ approvals' = GatesClosed(Open \cap PlanTask, approvals)
  /\ request' = "cancelled"
  /\ UNCHANGED <<workerVars, stage, workVars>>

RetryTask(t) ==
  /\ status[t] = "FAILED"
  /\ Move(t, "PENDING")
  /\ attempts' = [attempts EXCEPT ![t] = 0]
  /\ UNCHANGED <<workerVars, stage, rounds, deps, mergeSha, approvals, request>>

\* decide, for a gate of a task.  The requester is a worker and only the owner
\* (or Hermes relaying the owner) decides, so policy.CanDecide holds.
Decided(i, d) == [approvals EXCEPT ![i].status = d]

Approve(i) ==
  LET t == approvals[i].task IN
  /\ Move(t, "PENDING")
  /\ attempts' = [attempts EXCEPT ![t] = 0]
  /\ approvals' = Decided(i, "APPROVED")
  /\ UNCHANGED <<workerVars, stage, rounds, deps, mergeSha, request>>

\* Mutant: the task resumes in the merge stage.
MutRequestChanges(i) ==
  /\ Move(approvals[i].task, "PENDING")
  /\ attempts' = [attempts EXCEPT ![approvals[i].task] = 0]
  /\ approvals' = Decided(i, "CHANGES_REQUESTED")
  /\ UNCHANGED <<workerVars, stage, rounds, deps, mergeSha, request>>

RequestChanges(i) ==
  LET t == approvals[i].task IN
  /\ Move(t, "PENDING")
  /\ attempts' = [attempts EXCEPT ![t] = 0]
  /\ stage' = [stage EXCEPT ![t] = "implement"]
  /\ approvals' = Decided(i, "CHANGES_REQUESTED")
  /\ UNCHANGED <<workerVars, rounds, deps, mergeSha, request>>

\* Unlike CancelTask, a rejection moves the task itself without closing its
\* other gates; the request's other tasks go through finishRequest.
Reject(i) ==
  LET t == approvals[i].task IN
  /\ CanTransition(status[t], "CANCELLED")
  /\ CancelAll(CancelledWith(t))
  /\ approvals' = GatesClosed(CancelledWith(t) \ {t}, Decided(i, "REJECTED"))
  /\ request' = CancelledRequest(t)
  /\ UNCHANGED <<workerVars, stage, workVars>>

Decide(i) ==
  /\ approvals[i].status = "PENDING_APPROVAL"
  /\ Approve(i) \/ RequestChanges(i) \/ Reject(i)

-----------------------------------------------------------------------------
(***************************************************************************)
(* The worker protocol.                                                    *)
(***************************************************************************)

\* createWorker: a row for a worker with a token of its own.
CreateWorker(w) ==
  /\ wstatus[w] = "none"
  /\ wstatus' = [wstatus EXCEPT ![w] = "offline"]
  /\ UNCHANGED <<status, holder, stage, workVars, approvals, request>>

\* Mutants: one attempt too many; tasks under test forgotten.
MutRequeued(t) == IF attempts[t] > MaxAttempts THEN "FAILED" ELSE "PENDING"
MutRequeueTasksOf(W) ==
  LET held == {t \in Task : holder[t] \in W /\ status[t] \in {"ASSIGNED", "RUNNING"}} IN
  /\ status' = [t \in Task |-> IF t \in held THEN "PENDING" ELSE status[t]]
  /\ holder' = [t \in Task |-> IF t \in held THEN NoWorker ELSE holder[t]]

\* requeueWorkerTasks for every worker of W.
Requeued(t) == IF attempts[t] >= MaxAttempts THEN "FAILED" ELSE "PENDING"
RequeueTasksOf(W) ==
  LET held == {t \in Task : holder[t] \in W /\ status[t] \in InFlight} IN
  /\ status' = [t \in Task |-> IF t \in held THEN Requeued(t) ELSE status[t]]
  /\ holder' = [t \in Task |-> IF t \in held THEN NoWorker ELSE holder[t]]

RegisterWorker(w) ==
  /\ wstatus' = [wstatus EXCEPT ![w] = "online"]
  /\ RequeueTasksOf({w})
  /\ UNCHANGED <<stage, workVars, approvals, request>>

\* heartbeat: the row's status; what the reply says is Owns.
Heartbeat(w) ==
  /\ wstatus[w] = "offline"
  /\ wstatus' = [wstatus EXCEPT ![w] = "online"]
  /\ UNCHANGED <<status, holder, stage, workVars, approvals, request>>

\* ReapOnce: W are the online workers whose last heartbeat is too old.
ReapOnce(W) ==
  /\ W # {} /\ \A w \in W : wstatus[w] = "online"
  /\ wstatus' = [w \in Worker |-> IF w \in W THEN "offline" ELSE wstatus[w]]
  /\ RequeueTasksOf(W)
  /\ UNCHANGED <<stage, workVars, approvals, request>>

\* Mutant: a dependency only has to be started.
MutClaimable(w) ==
  {t \in Eligible[w] : /\ status[t] = "PENDING"
                       /\ \A d \in deps[t] : status[d] # "PENDING"}

Claimable(w) ==
  {t \in Eligible[w] : /\ status[t] = "PENDING"
                       /\ \A d \in deps[t] : status[d] = "COMPLETED"}

\* claim: ORDER BY id LIMIT 1 FOR UPDATE SKIP LOCKED.  The lowest id is taken
\* among the rows no other transaction holds at that moment; which rows those
\* are is not state of the model, so any claimable task may be the one.
Claim(w, t) ==
  /\ wstatus[w] = "online"
  /\ t \in Claimable(w)
  /\ CanTransition(status[t], "ASSIGNED")
  /\ attempts[t] < MaxClaims
  /\ status' = [status EXCEPT ![t] = "ASSIGNED"]
  /\ holder' = [holder EXCEPT ![t] = w]
  /\ attempts' = [attempts EXCEPT ![t] = @ + 1]
  /\ UNCHANGED <<workerVars, stage, rounds, deps, mergeSha, approvals, request>>

\* workerTransition to anything but COMPLETED.
WorkerTargets == {"RUNNING", "TESTING", "REVIEWING", "COMPLETED", "FAILED", "PENDING"}
Transition(w, t, to) ==
  /\ Owns(w, t)
  /\ to \in WorkerTargets \ {"COMPLETED"}
  /\ Move(t, to)
  /\ UNCHANGED <<workerVars, stage, workVars, approvals, request>>

\* workerTransition to COMPLETED: code completes through the merge stage only.
Complete(w, t, sha) ==
  /\ Owns(w, t)
  /\ stage[t] = "merge"
  /\ Move(t, "COMPLETED")
  /\ mergeSha' = [mergeSha EXCEPT ![t] = sha]
  /\ request' = AdvancedRequest(t)
  /\ UNCHANGED <<workerVars, stage, attempts, rounds, deps, approvals>>

\* Mutant: an earlier approval is not looked for.
MutAuthorize(w, t, gate, st, version) ==
  /\ Owns(w, t)
  /\ gate \in Gate
  /\ Len(approvals) < MaxApprovals
  /\ ApprovalIds(t, gate, "PENDING_APPROVAL") = {}
  /\ approvals' = Append(approvals, [task |-> t, gate |-> gate, version |-> version,
                                     status |-> "PENDING_APPROVAL"])
  /\ Move(t, "WAITING_FOR_HUMAN")
  /\ stage' = [stage EXCEPT ![t] = st]
  /\ UNCHANGED <<workerVars, workVars, request>>

\* authorize, when policy requires a human and none has approved yet.  The
\* fifth conjunct is the unique index approval_requests_one_open.
Authorize(w, t, gate, st, version) ==
  /\ Owns(w, t)
  /\ gate \in Gate
  /\ Approved(t, gate) = {}
  /\ Len(approvals) < MaxApprovals
  /\ ApprovalIds(t, gate, "PENDING_APPROVAL") = {}
  /\ approvals' = Append(approvals, [task |-> t, gate |-> gate, version |-> version,
                                     status |-> "PENDING_APPROVAL"])
  /\ Move(t, "WAITING_FOR_HUMAN")
  /\ stage' = [stage EXCEPT ![t] = st]
  /\ UNCHANGED <<workerVars, workVars, request>>

\* Mutant: one round too many.
MutReview(w, t) ==
  /\ Owns(w, t)
  /\ status[t] = "REVIEWING"
  /\ rounds[t] <= MaxReviewRounds
  /\ Move(t, "PENDING")
  /\ rounds' = [rounds EXCEPT ![t] = @ + 1]
  /\ stage' = [stage EXCEPT ![t] = "implement"]
  /\ attempts' = [attempts EXCEPT ![t] = 0]
  /\ UNCHANGED <<workerVars, deps, mergeSha, approvals, request>>

\* taskReview with verdict REQUEST_CHANGES while rounds remain; any other
\* report changes nothing.
Review(w, t) ==
  /\ Owns(w, t)
  /\ status[t] = "REVIEWING"
  /\ rounds[t] < MaxReviewRounds
  /\ Move(t, "PENDING")
  /\ rounds' = [rounds EXCEPT ![t] = @ + 1]
  /\ stage' = [stage EXCEPT ![t] = "implement"]
  /\ attempts' = [attempts EXCEPT ![t] = 0]
  /\ UNCHANGED <<workerVars, deps, mergeSha, approvals, request>>

-----------------------------------------------------------------------------
OwnerNext ==
  \/ \E t \in Task, D \in SUBSET Task : CreateTask(t, D)
  \/ CreatePlanTasks
  \/ \E t \in Task : CancelTask(t)
  \/ CancelRequest
  \/ \E t \in Task : RetryTask(t)
  \/ \E i \in DOMAIN approvals : Decide(i)

WorkerNext(w) ==
  \/ CreateWorker(w)
  \/ RegisterWorker(w)
  \/ Heartbeat(w)
  \/ \E t \in Task : Claim(w, t)
  \/ \E t \in Task, to \in WorkerTargets : Transition(w, t, to)
  \/ \E t \in Task, sha \in Commit : Complete(w, t, sha)
  \/ \E t \in Task, c \in GatedCall, v \in Commit : Authorize(w, t, c[1], c[2], v)
  \/ \E t \in Task : Review(w, t)

Next ==
  \/ OwnerNext
  \/ \E w \in Worker : WorkerNext(w)
  \/ \E W \in SUBSET Worker : ReapOnce(W)

Spec == Init /\ [][Next]_vars

-----------------------------------------------------------------------------
(***************************************************************************)
(* Properties.                                                             *)
(***************************************************************************)

OpenGatesOf(t) ==
  {i \in DOMAIN approvals : approvals[i].task = t /\ approvals[i].status = "PENDING_APPROVAL"}

\* A task waits for a human exactly while one approval request of it is open,
\* over all gates: no cancel, cascade, requeue or decision leaves a request that
\* nobody waits for, or a task waiting for a request that is gone.
WaitingIffOpenGate ==
  \A t \in Task :
    /\ status[t] = "WAITING_FOR_HUMAN" <=> OpenGatesOf(t) # {}
    /\ \A i, j \in OpenGatesOf(t) : i = j

\* At most one request of a task and gate is open or approved, ever: authorize
\* finds "the latest approved" (workers.go:281) because there is at most one,
\* and once approved the gate is never asked again.
OneLiveGate ==
  \A i, j \in DOMAIN approvals :
    /\ approvals[i].task = approvals[j].task
    /\ approvals[i].gate = approvals[j].gate
    /\ {approvals[i].status, approvals[j].status} \subseteq {"PENDING_APPROVAL", "APPROVED"}
    => i = j

\* "Code only completes through the merge stage, which sits behind the merge
\* gate" (workers.go:233): whoever can claim, run or complete a task in the merge
\* stage does so after a human approved a commit of that task.
MergeStageApproved ==
  \A t \in Task :
    stage[t] = "merge" /\ status[t] \notin {"WAITING_FOR_HUMAN", "CANCELLED"}
    => Approved(t, MergeGate) # {}

\* A task that was ever claimed and not given back has all its dependencies
\* COMPLETED, through requeues, gates, failures and retries of either.
StartedAfterDeps ==
  \A t \in Task :
    status[t] \notin {"NONE", "PENDING", "CANCELLED"}
    => \A d \in deps[t] : status[d] = "COMPLETED"

\* worker_id is set exactly while the task is in flight, whoever ended the
\* flight: the worker, the owner, the reaper or a sibling's rejection.
HolderIffInFlight ==
  \A t \in Task : holder[t] # NoWorker <=> status[t] \in InFlight

\* The request and its code tasks agree: it is completed exactly when all its
\* tasks are, and cancelling one task, or rejecting one gate, leaves no task of
\* it that a worker could still claim or a human still decide.
RequestAgrees ==
  /\ request = "active" => \A t \in PlanTask : status[t] # "CANCELLED"
  /\ request = "completed" => \A t \in PlanTask : status[t] = "COMPLETED"
  /\ request = "active" => \E t \in PlanTask : status[t] # "COMPLETED"
  /\ request = "cancelled" => PlanTask \cap Open = {}

\* A decision is never revised: no handler that closes or decides requests
\* touches one that is already decided.
DecisionsAreFinal ==
  [][\A i \in DOMAIN approvals :
       approvals[i].status # "PENDING_APPROVAL" => approvals'[i] = approvals[i]]_vars

\* The merge gate as its users see it.
PhaseOf(t) ==
  CASE status[t] = "COMPLETED" -> "merged"
    [] status[t] = "CANCELLED" -> "dropped"
    [] OTHER ->
         IF Approved(t, MergeGate) # {} THEN "approved"
         ELSE IF ApprovalIds(t, MergeGate, "PENDING_APPROVAL") # {} THEN "asked"
         ELSE "working"

SubjectOf(t) ==
  CASE PhaseOf(t) \in {"approved", "merged"} -> ApprovedVersion(t, MergeGate)
    [] PhaseOf(t) = "asked" ->
         approvals[CHOOSE i \in ApprovalIds(t, MergeGate, "PENDING_APPROVAL") : TRUE].version
    [] OTHER -> NoCommit

Gates == INSTANCE HumanGate WITH
  Item <- Task, Version <- Commit, NoVersion <- NoCommit,
  phase <- [t \in Task |-> PhaseOf(t)], subject <- [t \in Task |-> SubjectOf(t)]

\* The control plane implements the abstract gate: only a version a human
\* approved is ever completed, and it is the one the human was asked about.
ImplementsHumanGate == Gates!Spec
=============================================================================

----------------------------- MODULE RequestFlow -----------------------------
(***************************************************************************)
(* The workflow engine (internal/controlplane/requests.go over             *)
(* internal/workflow): one request walks through the steps of its          *)
(* workflow.  Each step creates tasks; when all of them are completed the  *)
(* next step starts; a plan's tasks are created when the plan is accepted. *)
(*                                                                         *)
(* Requests share nothing here, so one is enough.  Every handler is one    *)
(* transaction that locks the request row before it advances it.  What a   *)
(* worker does with a task between claiming and ending it is the subject   *)
(* of TaskLifecycle: the statuses in flight are one, RUNNING.  A handler   *)
(* whose advance fails is rolled back: the action is disabled.             *)
(***************************************************************************)
EXTENDS Integers, Sequences, SequencesExt

CONSTANTS
  Workflow,    \* the loaded workflow definitions: sequences of steps
  MaxTargets,  \* bound: documents a change request affects
  MaxItems     \* bound: tasks in an implementation plan's work breakdown

Step == [kind : {"document", "plan", "revise", "code"}, gate : BOOLEAN]

\* Workflow.check: what a definition must satisfy to be loaded.  What precedes a
\* revise step must claim to produce a change request, which a plan cannot.  Only
\* a plan can go without a gate: documents follow their contract and code is
\* merged behind the merge gate.
Loadable(wf) ==
  /\ wf \in Seq(Step) /\ wf # <<>>
  /\ \A i \in DOMAIN wf :
       /\ wf[i].kind = "plan" => i + 1 \in DOMAIN wf /\ wf[i + 1].kind = "code"
       /\ wf[i].kind = "revise" => \E j \in 1..(i - 1) : wf[j].kind # "plan"
       /\ wf[i].kind # "plan" => wf[i].gate

ASSUME WorkflowAssumption == \A wf \in Workflow : Loadable(wf)
ASSUME FlowBoundAssumption == MaxTargets \in Nat \ {0} /\ MaxItems \in Nat \ {0}

VARIABLES
  request,     \* requests.status, or "none" before the row exists
  steps,       \* the steps of requests.workflow
  repository,  \* whether the request names a repository
  current,     \* requests.current_step, as an index; 0 before the first
  tasks        \* the request's rows of table tasks, in the order of their ids

vars == <<request, steps, repository, current, tasks>>

TaskStatus == {"PENDING", "RUNNING", "WAITING_FOR_HUMAN", "COMPLETED", "FAILED", "CANCELLED"}
TaskRow == [step : Nat, status : TaskStatus, approved : BOOLEAN, deps : SUBSET Nat]

Row(i, D) == [step |-> i, status |-> "PENDING", approved |-> FALSE, deps |-> D]

-----------------------------------------------------------------------------
(***************************************************************************)
(* Steps.                                                                  *)
(***************************************************************************)
TasksOf(tab, i) == {t \in DOMAIN tab : tab[t].step = i}

\* Mutant: one completed task is enough.
MutStepStatus(tab, i) ==
  LET S == {tab[t].status : t \in TasksOf(tab, i)} IN
  CASE S = {}             -> "not_started"
    [] "CANCELLED" \in S  -> "cancelled"
    [] "COMPLETED" \in S  -> "completed"
    [] OTHER              -> "in_progress"

\* stepStatus; advance does not tell in_progress from waiting_for_human.
StepStatus(tab, i) ==
  LET S == {tab[t].status : t \in TasksOf(tab, i)} IN
  CASE S = {}             -> "not_started"
    [] "CANCELLED" \in S  -> "cancelled"
    [] S = {"COMPLETED"}  -> "completed"
    [] OTHER              -> "in_progress"

\* The step advance stops at, or one past the last: the first not completed.
IsFirstOpen(i, tab) ==
  /\ \A j \in 1..(i - 1) : StepStatus(tab, j) = "completed"
  /\ i \in DOMAIN steps => StepStatus(tab, i) # "completed"

StartsWithCode(wf) ==
  \E i \in DOMAIN wf : wf[i].kind = "code" /\ \A j \in 1..(i - 1) : wf[j].kind # "plan"

\* startStep: the rows it may insert for step i after n existing ones.  A
\* revise step has a task per document its change request affects, each after the
\* one before, and fails if no earlier step wrote one; a code step that no plan
\* feeds needs the request's repository or it fails.
StepTasks(wf, repo, i, n) ==
  CASE wf[i].kind \in {"document", "plan"} -> {<<Row(i, {})>>}
    [] wf[i].kind = "revise" ->
         IF \E j \in 1..(i - 1) : wf[j].kind = "document"
         THEN {[k \in 1..m |-> Row(i, {n + k - 1} \ {n})] : m \in 1..MaxTargets}
         ELSE {}
    [] wf[i].kind = "code" -> IF repo THEN {<<Row(i, {})>>} ELSE {}

\* One pass of ParsePlan over the items not ordered yet; D[k] are the items k
\* depends on, anywhere in the list.
Pass(D, ordered) ==
  FoldLeft(LAMBDA acc, k : IF k \notin ToSet(acc) /\ D[k] \subseteq ToSet(acc)
                           THEN Append(acc, k) ELSE acc,
           ordered, [k \in DOMAIN D |-> k])

\* Mutant: the items stay in the order they were written in.
MutOrdered(D) == [k \in DOMAIN D |-> k]

\* The items in ParsePlan's order.  Every pass makes progress or is the last;
\* what is left over is on a cycle, and the plan is refused.
Ordered(D) == FoldLeft(LAMBDA acc, d : Pass(D, acc), <<>>, D)

Plans == {D \in UNION {[1..m -> SUBSET (1..m)] : m \in 1..MaxItems} : Len(Ordered(D)) = Len(D)}

\* createPlanTasks: a row per item, after n existing ones.
PlanTasks(i, n) ==
  {LET o == Ordered(D)
   IN  [k \in DOMAIN D |-> Row(i, {n + p : p \in {q \in DOMAIN D : o[q] \in D[o[k]]}})] : D \in Plans}

-----------------------------------------------------------------------------
(***************************************************************************)
(* finishRequest and advance, on the table the handler has written so far. *)
(***************************************************************************)
Closed == {"COMPLETED", "CANCELLED"}

\* Mutant: a failed task is passed over, as it has no transition to CANCELLED.
MutCancelOpen(tab) ==
  [t \in DOMAIN tab |-> IF tab[t].status \in Closed \cup {"FAILED"} THEN tab[t]
                        ELSE [tab[t] EXCEPT !.status = "CANCELLED"]]

CancelOpen(tab) ==
  [t \in DOMAIN tab |-> IF tab[t].status \in Closed THEN tab[t]
                        ELSE [tab[t] EXCEPT !.status = "CANCELLED"]]

Advance(tab) ==
  /\ UNCHANGED <<steps, repository>>
  /\ IF request # "active" THEN tasks' = tab /\ UNCHANGED <<request, current>>
     ELSE \E i \in 1..(Len(steps) + 1) : IsFirstOpen(i, tab) /\
       \/ /\ i \notin DOMAIN steps
          /\ request' = "completed"
          /\ tasks' = tab /\ UNCHANGED current
       \/ /\ i \in DOMAIN steps /\ StepStatus(tab, i) = "cancelled"
          /\ request' = "cancelled"
          /\ tasks' = CancelOpen(tab) /\ UNCHANGED current
       \/ /\ i \in DOMAIN steps /\ StepStatus(tab, i) = "not_started"
          /\ \E new \in StepTasks(steps, repository, i, Len(tab)) : tasks' = tab \o new
          /\ current' = i /\ UNCHANGED request
       \/ /\ i \in DOMAIN steps /\ StepStatus(tab, i) = "in_progress"
          /\ tasks' = tab
          /\ current' = i /\ UNCHANGED request

SetStatus(t, st) == [tasks EXCEPT ![t].status = st]
KindOf(t) == steps[tasks[t].step].kind
Gated(t)  == steps[tasks[t].step].gate

\* The task's row becomes `to' and nothing else changes.
Moves(t, from, to) ==
  /\ tasks[t].status = from
  /\ tasks' = SetStatus(t, to)
  /\ UNCHANGED <<request, steps, repository, current>>

-----------------------------------------------------------------------------
FlowTypeOK ==
  /\ request \in {"none", "active", "completed", "cancelled"}
  /\ steps \in Workflow \cup {<<>>}
  /\ repository \in BOOLEAN
  /\ current \in 0..Len(steps)
  /\ tasks \in Seq(TaskRow)

Init ==
  /\ request = "none" /\ steps = <<>> /\ repository = FALSE
  /\ current = 0 /\ tasks = <<>>

\* Mutant: the row does not name its workflow.
MutCreateRequest(wf, repo) ==
  /\ request = "none"
  /\ StartsWithCode(wf) => repo
  /\ request' = "active" /\ steps' = <<>> /\ repository' = repo
  /\ tasks' \in StepTasks(wf, repo, 1, 0)
  /\ current' = 1

\* createRequest, with the first advance.
CreateRequest(wf, repo) ==
  /\ request = "none"
  /\ StartsWithCode(wf) => repo
  /\ request' = "active" /\ steps' = wf /\ repository' = repo
  /\ tasks' \in StepTasks(wf, repo, 1, 0)
  /\ current' = 1

-----------------------------------------------------------------------------
(***************************************************************************)
(* The worker protocol, in brief, and the owner's retry.                   *)
(***************************************************************************)
Take(t) ==
  /\ \A d \in tasks[t].deps : tasks[d].status = "COMPLETED"
  /\ Moves(t, "PENDING", "RUNNING")

\* Requeued, put back after a transient error, or sent back by the AI review.
Release(t) == Moves(t, "RUNNING", "PENDING")

Fail(t) == Moves(t, "RUNNING", "FAILED")

\* Mutant: a completed task can be retried.
MutRetryTask(t) ==
  Moves(t, "FAILED", "PENDING") \/ Moves(t, "COMPLETED", "PENDING")

RetryTask(t) == Moves(t, "FAILED", "PENDING")

\* authorize of the merge gate.
AskMerge(t) ==
  /\ KindOf(t) = "code" /\ ~tasks[t].approved
  /\ Moves(t, "RUNNING", "WAITING_FOR_HUMAN")

\* workerTransition to COMPLETED, from the merge stage.
CompleteCode(t) ==
  /\ KindOf(t) = "code" /\ tasks[t].approved
  /\ tasks[t].status = "RUNNING"
  /\ Advance(SetStatus(t, "COMPLETED"))

-----------------------------------------------------------------------------
(***************************************************************************)
(* Documents: taskOutput and the decisions about them.                     *)
(***************************************************************************)

\* taskOutput, valid files, behind a gate.
SubmitOutput(t) ==
  /\ KindOf(t) # "code" /\ Gated(t)
  /\ Moves(t, "RUNNING", "WAITING_FOR_HUMAN")

\* Mutant: the request is not advanced.
MutAcceptPlan(t) ==
  /\ KindOf(t) = "plan" /\ ~Gated(t)
  /\ tasks[t].status = "RUNNING"
  /\ \E new \in PlanTasks(tasks[t].step + 1, Len(tasks)) :
       tasks' = SetStatus(t, "COMPLETED") \o new
  /\ UNCHANGED <<request, steps, repository, current>>

\* taskOutput, a valid plan without a gate: accepted at once.
AcceptPlan(t) ==
  /\ KindOf(t) = "plan" /\ ~Gated(t)
  /\ tasks[t].status = "RUNNING"
  /\ \E new \in PlanTasks(tasks[t].step + 1, Len(tasks)) :
       Advance(SetStatus(t, "COMPLETED") \o new)

Decided(t, st, yes) == [tasks EXCEPT ![t].status = st, ![t].approved = yes]

\* decideDocuments, approve; a plan's tasks are created before advance looks.
ApproveDocument(t) ==
  /\ KindOf(t) # "code"
  /\ tasks[t].status = "WAITING_FOR_HUMAN"
  /\ IF KindOf(t) = "plan"
     THEN \E new \in PlanTasks(tasks[t].step + 1, Len(tasks)) :
            Advance(Decided(t, "COMPLETED", TRUE) \o new)
     ELSE Advance(Decided(t, "COMPLETED", TRUE))

\* decideDocuments, request changes: back to the agent, and advance.
ReworkDocument(t) ==
  /\ KindOf(t) # "code"
  /\ tasks[t].status = "WAITING_FOR_HUMAN"
  /\ Advance(SetStatus(t, "PENDING"))

\* decide, for the merge gate of a code task.
ApproveMerge(t) ==
  /\ KindOf(t) = "code"
  /\ tasks[t].status = "WAITING_FOR_HUMAN"
  /\ tasks' = Decided(t, "PENDING", TRUE)
  /\ UNCHANGED <<request, steps, repository, current>>

ReworkCode(t) ==
  /\ KindOf(t) = "code"
  /\ Moves(t, "WAITING_FOR_HUMAN", "PENDING")

\* decide or decideDocuments, reject: either way the request is advanced.
Reject(t) ==
  /\ tasks[t].status = "WAITING_FOR_HUMAN"
  /\ Advance(SetStatus(t, "CANCELLED"))

\* cancelTask: a failed task has no transition to CANCELLED.
CancelTask(t) ==
  /\ tasks[t].status \notin Closed \cup {"FAILED"}
  /\ Advance(SetStatus(t, "CANCELLED"))

CancelRequest ==
  /\ request = "active"
  /\ request' = "cancelled"
  /\ tasks' = CancelOpen(tasks)
  /\ UNCHANGED <<steps, repository, current>>

-----------------------------------------------------------------------------
TaskNext(t) ==
  \/ Take(t) \/ Release(t) \/ Fail(t) \/ RetryTask(t)
  \/ AskMerge(t) \/ CompleteCode(t) \/ SubmitOutput(t) \/ AcceptPlan(t)
  \/ ApproveDocument(t) \/ ReworkDocument(t) \/ ApproveMerge(t) \/ ReworkCode(t)
  \/ Reject(t) \/ CancelTask(t)

Next ==
  \/ \E wf \in Workflow, repo \in BOOLEAN : CreateRequest(wf, repo)
  \/ \E t \in DOMAIN tasks : TaskNext(t)
  \/ CancelRequest

Spec == Init /\ [][Next]_vars

-----------------------------------------------------------------------------
(***************************************************************************)
(* Properties.                                                             *)
(***************************************************************************)

\* "When all of a step's tasks are completed the next step starts"
\* (requests.go:20): a task exists only once every earlier step is completed,
\* and a human approved each task of the steps that have a gate.  The code
\* tasks of a plan, which startStep does not create, are no exception.
StepsInOrder ==
  \A t \in DOMAIN tasks : \A i \in 1..(tasks[t].step - 1) :
    /\ StepStatus(tasks, i) = "completed"
    /\ steps[i].gate => \A u \in TasksOf(tasks, i) : tasks[u].approved

\* The request and its tasks end together: completed when every step is, and
\* never left active with a cancelled task, or closed with one that a worker
\* could still claim or a human still decide.
RequestClosed ==
  CASE request = "none"      -> tasks = <<>>
    [] request = "active"    -> \A t \in DOMAIN tasks : tasks[t].status # "CANCELLED"
    [] request = "completed" -> \A i \in DOMAIN steps : StepStatus(tasks, i) = "completed"
    [] request = "cancelled" -> \A t \in DOMAIN tasks : tasks[t].status \in Closed

\* The tasks of an active request never all wait for one another: one of them is
\* with a worker, waits for a human, has failed (the owner may retry it), or can be
\* claimed, whatever plan, revision chain or cancellation came before.  It does not
\* say that ending that task succeeds: the next step may fail to start (startStep).
ActiveNotStuck ==
  request = "active" =>
    \E t \in DOMAIN tasks :
      \/ tasks[t].status \in {"RUNNING", "WAITING_FOR_HUMAN", "FAILED"}
      \/ /\ tasks[t].status = "PENDING"
         /\ \A d \in tasks[t].deps : tasks[d].status = "COMPLETED"

\* current_step is the first step that is not completed: the owner and the
\* notifier read it, and an accepted plan must move it too.
CurrentIsFirstOpen ==
  request = "active" => current \in DOMAIN steps /\ IsFirstOpen(current, tasks)

\* Steps complete one at a time and stay completed.
Done(tab) == {i \in DOMAIN steps : StepStatus(tab, i) = "completed"}

\* Whatever a handler does, it finishes at most one step and undoes none.
StepsOneByOne ==
  [][steps # <<>> =>
       \/ Done(tasks') = Done(tasks)
       \/ \E i \in DOMAIN steps :
            IsFirstOpen(i, tasks) /\ Done(tasks') = Done(tasks) \cup {i}]_vars
=============================================================================

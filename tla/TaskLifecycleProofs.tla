------------------------ MODULE TaskLifecycleProofs ------------------------
(***************************************************************************)
(* Theorems about TaskLifecycle, for every set of tasks, workers, commits  *)
(* and gates and every bound, and that it implements HumanGate.            *)
(***************************************************************************)
EXTENDS TaskLifecycle, TLAPS

-----------------------------------------------------------------------------
(***************************************************************************)
(* The operators on approval rows.                                         *)
(***************************************************************************)

\* The same rows, but for their statuses.
SameSubjects(new, rows) ==
  /\ new \in Seq(ApprovalRow) /\ DOMAIN new = DOMAIN rows
  /\ \A i \in DOMAIN rows : /\ new[i].task = rows[i].task
                            /\ new[i].gate = rows[i].gate
                            /\ new[i].version = rows[i].version

WithStatus(r, d) == [r EXCEPT !.status = d]

\* A row with another status is a row with nothing else changed.
LEMMA StatusSet ==
  ASSUME NEW r \in ApprovalRow, NEW d \in ApprovalStatus
  PROVE  /\ WithStatus(r, d) \in ApprovalRow
         /\ WithStatus(r, d).task = r.task
         /\ WithStatus(r, d).gate = r.gate
         /\ WithStatus(r, d).version = r.version
         /\ WithStatus(r, d).status = d
BY DEF ApprovalRow, WithStatus

\* Deciding one row leaves the others, and everything but its status, alone.
LEMMA DecidedRows ==
  ASSUME approvals \in Seq(ApprovalRow), NEW i \in DOMAIN approvals, NEW d \in ApprovalStatus
  PROVE  /\ SameSubjects(Decided(i, d), approvals)
         /\ Decided(i, d)[i].status = d
         /\ \A j \in DOMAIN approvals \ {i} : Decided(i, d)[j] = approvals[j]
<1>1. /\ DOMAIN approvals = 1..Len(approvals) /\ Len(approvals) \in Nat
      /\ \A j \in DOMAIN approvals : approvals[j] \in ApprovalRow
  OBVIOUS
<1>2. /\ DOMAIN Decided(i, d) = DOMAIN approvals
      /\ Decided(i, d)[i] = WithStatus(approvals[i], d)
      /\ \A j \in DOMAIN approvals \ {i} : Decided(i, d)[j] = approvals[j]
  BY <1>1 DEF Decided, WithStatus
<1>3. Decided(i, d) = [j \in DOMAIN approvals |-> Decided(i, d)[j]]
  BY <1>2 DEF Decided
<1>4. \A j \in 1..Len(approvals) : Decided(i, d)[j] \in ApprovalRow
  BY <1>1, <1>2, StatusSet
<1>5. Decided(i, d) \in Seq(ApprovalRow)
  BY <1>1, <1>3, <1>4
<1>6. \A j \in DOMAIN approvals : /\ Decided(i, d)[j].task = approvals[j].task
                                 /\ Decided(i, d)[j].gate = approvals[j].gate
                                 /\ Decided(i, d)[j].version = approvals[j].version
  <2>1. approvals[i] \in ApprovalRow
    BY <1>1
  <2> QED BY <1>2, <2>1, StatusSet
<1>7. Decided(i, d)[i].status = d
  BY <1>1, <1>2, StatusSet
<1> QED BY <1>2, <1>5, <1>6, <1>7 DEF SameSubjects

\* Closing gates keeps every row's subject; only open rows of S change.
LEMMA ClosedRows ==
  ASSUME NEW S, NEW rows \in Seq(ApprovalRow)
  PROVE  /\ SameSubjects(GatesClosed(S, rows), rows)
         /\ \A i \in DOMAIN rows :
              IF rows[i].task \in S /\ rows[i].status = "PENDING_APPROVAL"
              THEN GatesClosed(S, rows)[i].status = "REJECTED"
              ELSE GatesClosed(S, rows)[i] = rows[i]
<1>1. DOMAIN rows = 1..Len(rows) /\ Len(rows) \in Nat
  OBVIOUS
<1>2. \A i \in DOMAIN rows : rows[i] \in ApprovalRow
  OBVIOUS
<1>3. \A i \in DOMAIN rows :
        GatesClosed(S, rows)[i] =
          IF rows[i].task \in S /\ rows[i].status = "PENDING_APPROVAL"
          THEN WithStatus(rows[i], "REJECTED") ELSE rows[i]
  BY DEF GatesClosed, WithStatus
<1>4. \A i \in DOMAIN rows : GatesClosed(S, rows)[i] \in ApprovalRow
  BY <1>2, <1>3, StatusSet DEF ApprovalStatus
<1>5. DOMAIN GatesClosed(S, rows) = DOMAIN rows /\ GatesClosed(S, rows) \in Seq(ApprovalRow)
  BY <1>1, <1>4 DEF GatesClosed
<1>6. \A i \in DOMAIN rows : /\ GatesClosed(S, rows)[i].task = rows[i].task
                            /\ GatesClosed(S, rows)[i].gate = rows[i].gate
                            /\ GatesClosed(S, rows)[i].version = rows[i].version
  BY <1>2, <1>3, StatusSet DEF ApprovalStatus
<1>7. \A i \in DOMAIN rows :
        IF rows[i].task \in S /\ rows[i].status = "PENDING_APPROVAL"
        THEN GatesClosed(S, rows)[i].status = "REJECTED"
        ELSE GatesClosed(S, rows)[i] = rows[i]
  BY <1>2, <1>3, StatusSet DEF ApprovalStatus
<1> QED BY <1>5, <1>6, <1>7 DEF SameSubjects

\* A new row is added after the others.
LEMMA AppendedRow ==
  ASSUME NEW rows \in Seq(ApprovalRow), NEW r \in ApprovalRow
  PROVE  /\ Append(rows, r) \in Seq(ApprovalRow)
         /\ DOMAIN Append(rows, r) = DOMAIN rows \cup {Len(rows) + 1}
         /\ Len(rows) + 1 \notin DOMAIN rows
         /\ Append(rows, r)[Len(rows) + 1] = r
         /\ \A i \in DOMAIN rows : Append(rows, r)[i] = rows[i]
OBVIOUS

-----------------------------------------------------------------------------
(***************************************************************************)
(* Types.                                                                  *)
(***************************************************************************)

\* The types hold initially.
LEMMA TypeInit == Init => TypeOK
BY BoundAssumption DEF Init, TypeOK

\* Every action keeps every variable in its type.
LEMMA TypeStep == TypeOK /\ [Next]_vars => TypeOK'
<1> SUFFICES ASSUME TypeOK, [Next]_vars PROVE TypeOK'
  OBVIOUS
<1> USE DEF TypeOK
<1>1. ASSUME NEW t \in Task, NEW D \in SUBSET Task, CreateTask(t, D) PROVE TypeOK'
  BY <1>1 DEF CreateTask, workerVars, TaskStatus
<1>2. CASE CreatePlanTasks
  BY <1>2, TaskAssumption DEF CreatePlanTasks, workerVars, TaskStatus
<1>3. ASSUME NEW t \in Task, CancelTask(t) PROVE TypeOK'
  BY <1>3, ClosedRows DEF SameSubjects, CancelTask, CancelAll, CancelledRequest, workerVars, workVars, TaskStatus
<1>4. CASE CancelRequest
  BY <1>4, ClosedRows DEF SameSubjects, CancelRequest, CancelAll, workerVars, workVars, TaskStatus
<1>5. ASSUME NEW t \in Task, RetryTask(t) PROVE TypeOK'
  BY <1>5 DEF RetryTask, Move, workerVars, TaskStatus
<1>6. ASSUME NEW i \in DOMAIN approvals, Decide(i) PROVE TypeOK'
  <2>1. approvals[i].task \in Task
    <3>1. approvals[i] \in ApprovalRow
      OBVIOUS
    <3> QED BY <3>1 DEF ApprovalRow
  <2>2. CASE Approve(i)
    BY <2>1, <2>2, DecidedRows DEF SameSubjects, Approve, Move, workerVars, TaskStatus, ApprovalStatus
  <2>3. CASE RequestChanges(i)
    BY <2>1, <2>3, DecidedRows DEF SameSubjects, RequestChanges, Move, workerVars, TaskStatus, ApprovalStatus
  <2>4. CASE Reject(i)
    <3>1. Decided(i, "REJECTED") \in Seq(ApprovalRow)
      BY DecidedRows DEF SameSubjects, ApprovalStatus
    <3>2. approvals' \in Seq(ApprovalRow)
      BY <2>4, <3>1, ClosedRows DEF SameSubjects, Reject
    <3> QED
      BY <2>1, <2>4, <3>2 DEF Reject, CancelAll, CancelledRequest, workerVars, workVars, TaskStatus
  <2> QED BY <1>6, <2>2, <2>3, <2>4 DEF Decide
<1>7. ASSUME NEW w \in Worker, CreateWorker(w) \/ Heartbeat(w) PROVE TypeOK'
  BY <1>7 DEF CreateWorker, Heartbeat, workVars
<1>8. ASSUME NEW w \in Worker, RegisterWorker(w) PROVE TypeOK'
  BY <1>8 DEF RegisterWorker, RequeueTasksOf, Requeued, workVars, TaskStatus
<1>9. ASSUME NEW W \in SUBSET Worker, ReapOnce(W) PROVE TypeOK'
  BY <1>9 DEF ReapOnce, RequeueTasksOf, Requeued, workVars, TaskStatus
<1>10. ASSUME NEW w \in Worker, NEW t \in Task, Claim(w, t) PROVE TypeOK'
  BY <1>10 DEF Claim, workerVars, TaskStatus, InFlight
<1>11. ASSUME NEW w \in Worker, NEW t \in Task, NEW to \in WorkerTargets, Transition(w, t, to)
       PROVE TypeOK'
  BY <1>11 DEF Transition, Move, WorkerTargets, workerVars, workVars, TaskStatus, InFlight
<1>12. ASSUME NEW w \in Worker, NEW t \in Task, NEW sha \in Commit, Complete(w, t, sha)
       PROVE TypeOK'
  BY <1>12 DEF Complete, Move, AdvancedRequest, workerVars, TaskStatus
<1>13. ASSUME NEW w \in Worker, NEW t \in Task, NEW c \in GatedCall, NEW v \in Commit,
              Authorize(w, t, c[1], c[2], v)
       PROVE TypeOK'
  <2>1. c[1] \in Gate /\ c[2] \in {"implement", "merge"}
    BY CallAssumption
  <2> DEFINE row == [task |-> t, gate |-> c[1], version |-> v, status |-> "PENDING_APPROVAL"]
  <2>2. row \in ApprovalRow
    BY <2>1 DEF ApprovalRow, ApprovalStatus
  <2>3. approvals' = Append(approvals, row)
    BY <1>13 DEF Authorize
  <2>4. approvals' \in Seq(ApprovalRow)
    BY <2>2, <2>3, AppendedRow
  <2> QED
    BY <1>13, <2>1, <2>4 DEF Authorize, Move, workerVars, workVars, TaskStatus
<1>14. ASSUME NEW w \in Worker, NEW t \in Task, Review(w, t) PROVE TypeOK'
  BY <1>14, BoundAssumption DEF Review, Move, workerVars, TaskStatus
<1>15. CASE UNCHANGED vars
  BY <1>15 DEF vars
<1> QED
  BY <1>1, <1>2, <1>3, <1>4, <1>5, <1>6, <1>7, <1>8, <1>9, <1>10, <1>11, <1>12, <1>13,
     <1>14, <1>15 DEF Next, OwnerNext, WorkerNext

\* Type correctness of the control plane.
THEOREM TypeCorrect == Spec => []TypeOK
<1>1. Init => TypeOK
  BY TypeInit
<1>2. TypeOK /\ [Next]_vars => TypeOK'
  BY TypeStep
<1> QED BY <1>1, <1>2, PTL DEF Spec

-----------------------------------------------------------------------------
(***************************************************************************)
(* The task, its holder, its dependencies and its request.                 *)
(***************************************************************************)

\* The plan's tasks do not exist before their request reaches its code step.
PlanUnborn == request = "none" => \A t \in PlanTask : status[t] = "NONE"

StatusInv == HolderIffInFlight /\ StartedAfterDeps /\ PlanUnborn /\ RequestAgrees

\* The status facts hold initially.
LEMMA StatusInit == Init => StatusInv
BY NoneAssumption, TaskAssumption DEF Init, StatusInv, HolderIffInFlight, StartedAfterDeps, PlanUnborn,
                      RequestAgrees, InFlight

\* The row of a request names a task.
LEMMA RowTask ==
  ASSUME TypeOK, NEW i \in DOMAIN approvals
  PROVE  approvals[i] \in ApprovalRow /\ approvals[i].task \in Task
<1>1. approvals[i] \in ApprovalRow
  BY DEF TypeOK
<1> QED BY <1>1 DEF ApprovalRow

\* Every step keeps the status facts.
LEMMA StatusStep == TypeOK /\ StatusInv /\ [Next]_vars => StatusInv'
<1> SUFFICES ASSUME TypeOK, StatusInv, [Next]_vars PROVE StatusInv'
  OBVIOUS
<1> USE NoneAssumption, TaskAssumption
    DEF TypeOK, StatusInv, HolderIffInFlight, StartedAfterDeps, PlanUnborn, RequestAgrees,
        InFlight, TaskStatus, Transitions, CanTransition, Open
<1>1. ASSUME NEW t \in Task, NEW D \in SUBSET Task, CreateTask(t, D) PROVE StatusInv'
  BY <1>1 DEF CreateTask, Created, workerVars
<1>2. CASE CreatePlanTasks
  BY <1>2 DEF CreatePlanTasks, workerVars
<1>3. ASSUME NEW t \in Task, CancelTask(t) PROVE StatusInv'
  BY <1>3 DEF CancelTask, CancelAll, CancelledWith, CancelledRequest, workerVars, workVars
<1>4. CASE CancelRequest
  BY <1>4 DEF CancelRequest, CancelAll, workerVars, workVars
<1>5. ASSUME NEW t \in Task, NEW to \in {"PENDING", "WAITING_FOR_HUMAN"},
             Move(t, to), UNCHANGED <<deps, request>>
      PROVE StatusInv'
  BY <1>5 DEF Move
<1>6. ASSUME NEW i \in DOMAIN approvals, Approve(i) \/ RequestChanges(i) PROVE StatusInv'
  <2>1. approvals[i].task \in Task
    BY RowTask
  <2>2. Move(approvals[i].task, "PENDING") /\ UNCHANGED <<deps, request>>
    BY <1>6 DEF Approve, RequestChanges
  <2> QED BY <1>5, <2>1, <2>2
<1>7. ASSUME NEW i \in DOMAIN approvals, Reject(i) PROVE StatusInv'
  <2>1. approvals[i].task \in Task
    BY RowTask
  <2> QED BY <1>7, <2>1 DEF Reject, CancelAll, CancelledWith, CancelledRequest, workerVars, workVars
<1>8. ASSUME NEW w \in Worker, CreateWorker(w) \/ Heartbeat(w) PROVE StatusInv'
  BY <1>8 DEF CreateWorker, Heartbeat, workVars
<1>9. ASSUME NEW W \in SUBSET Worker, RequeueTasksOf(W), UNCHANGED <<deps, request>> PROVE StatusInv'
  BY <1>9 DEF RequeueTasksOf, Requeued
<1>10. ASSUME NEW w \in Worker, NEW t \in Task, Claim(w, t) PROVE StatusInv'
  BY <1>10 DEF Claim, Claimable, workerVars
<1>11. ASSUME NEW w \in Worker, NEW t \in Task, NEW to \in WorkerTargets, Transition(w, t, to) PROVE StatusInv'
  BY <1>11 DEF Transition, Owns, Move, WorkerTargets, workerVars, workVars
<1>12. ASSUME NEW w \in Worker, NEW t \in Task, NEW sha \in Commit, Complete(w, t, sha) PROVE StatusInv'
  BY <1>12 DEF Complete, Owns, Move, AdvancedRequest, workerVars
<1>13. ASSUME NEW w \in Worker, NEW t \in Task, NEW c \in GatedCall, NEW v \in Commit,
              Authorize(w, t, c[1], c[2], v) PROVE StatusInv'
  <2>1. Owns(w, t) /\ Move(t, "WAITING_FOR_HUMAN") /\ UNCHANGED <<deps, request>>
    BY <1>13, Zenon DEF Authorize, workVars
  <2> QED BY <1>5, <2>1
<1>14. ASSUME NEW w \in Worker, NEW t \in Task, Review(w, t) PROVE StatusInv'
  BY <1>14 DEF Review, Owns, Move, workerVars
<1>15. CASE UNCHANGED vars
  BY <1>15 DEF vars
<1>16. ASSUME NEW t \in Task, RetryTask(t) PROVE StatusInv'
  <2>1. Move(t, "PENDING") /\ UNCHANGED <<deps, request>>
    BY <1>16 DEF RetryTask
  <2> QED BY <1>5, <2>1
<1>17. ASSUME NEW w \in Worker, RegisterWorker(w) PROVE StatusInv'
  <2>1. {w} \in SUBSET Worker /\ RequeueTasksOf({w}) /\ UNCHANGED <<deps, request>>
    BY <1>17 DEF RegisterWorker, workVars
  <2> QED BY <1>9, <2>1
<1>18. ASSUME NEW W \in SUBSET Worker, ReapOnce(W) PROVE StatusInv'
  <2>1. RequeueTasksOf(W) /\ UNCHANGED <<deps, request>>
    BY <1>18 DEF ReapOnce, workVars
  <2> QED BY <1>9, <2>1
<1> HIDE DEF TypeOK, StatusInv
<1> QED
  BY <1>1, <1>2, <1>3, <1>4, <1>6, <1>7, <1>8, <1>10, <1>11, <1>12, <1>13, <1>14, <1>15,
     <1>16, <1>17, <1>18 DEF Next, OwnerNext, WorkerNext, Decide

-----------------------------------------------------------------------------
(***************************************************************************)
(* The gates.                                                              *)
(***************************************************************************)

\* A task that waits to enter the merge stage waits at the merge gate.
WaitsAtMergeGate ==
  \A t \in Task : stage[t] = "merge" /\ status[t] = "WAITING_FOR_HUMAN" =>
    \A i \in OpenGatesOf(t) : approvals[i].gate = MergeGate

GateInv == WaitingIffOpenGate /\ OneLiveGate /\ MergeStageApproved /\ WaitsAtMergeGate

\* The gate facts hold initially.
LEMMA GateInit == Init => GateInv
BY DEF Init, GateInv, WaitingIffOpenGate, OneLiveGate, MergeStageApproved, WaitsAtMergeGate,
       OpenGatesOf

\* What every step but Authorize does to the gates: it ends the waits of the
\* tasks in C and closes their requests, approving those of A; a task of C whose
\* request is not approved goes back to the implement stage or is cancelled.
EndsWaits(C, A) ==
  /\ DOMAIN approvals' = DOMAIN approvals
  /\ \A i \in DOMAIN approvals :
       /\ approvals'[i].task = approvals[i].task
       /\ approvals'[i].gate = approvals[i].gate
       /\ IF approvals[i].task \in C /\ approvals[i].status = "PENDING_APPROVAL"
          THEN approvals'[i].status \in
                 IF i \in A THEN {"APPROVED"} ELSE {"REJECTED", "CHANGES_REQUESTED"}
          ELSE approvals'[i].status = approvals[i].status
  /\ \A t \in Task :
       /\ status'[t] = "WAITING_FOR_HUMAN" <=> status[t] = "WAITING_FOR_HUMAN" /\ t \notin C
       /\ status[t] = "CANCELLED" => status'[t] = "CANCELLED"
       /\ stage'[t] \in {stage[t], "implement"}
       /\ t \in C => \/ stage'[t] = "implement"
                     \/ status'[t] = "CANCELLED"
                     \/ OpenGatesOf(t) \subseteq A

\* A step that ends waits as EndsWaits says keeps the gate facts.
LEMMA EndsWaitsStep ==
  ASSUME TypeOK, GateInv, NEW C, NEW A, EndsWaits(C, A)
  PROVE  GateInv'
<1> USE DEF GateInv
<1>1. \A t \in Task : OpenGatesOf(t)' = IF t \in C THEN {} ELSE OpenGatesOf(t)
  BY DEF EndsWaits, OpenGatesOf
<1>2. \A t \in Task : Approved(t, MergeGate) \subseteq Approved(t, MergeGate)'
  BY DEF EndsWaits, Approved, ApprovalIds, MergeGate
<1>3. WaitingIffOpenGate'
  BY <1>1 DEF WaitingIffOpenGate, EndsWaits
<1>4. OneLiveGate'
  BY DEF OneLiveGate, EndsWaits
<1>5. MergeStageApproved'
  <2> SUFFICES ASSUME NEW t \in Task, stage'[t] = "merge",
                      status'[t] \notin {"WAITING_FOR_HUMAN", "CANCELLED"}
               PROVE  Approved(t, MergeGate)' # {}
    BY DEF MergeStageApproved
  <2>1. stage[t] = "merge" /\ status[t] # "CANCELLED"
    BY DEF EndsWaits
  <2>2. CASE status[t] # "WAITING_FOR_HUMAN"
    BY <1>2, <2>1, <2>2 DEF MergeStageApproved
  <2>3. CASE status[t] = "WAITING_FOR_HUMAN"
    <3>1. t \in C /\ OpenGatesOf(t) \subseteq A
      BY <2>3 DEF EndsWaits
    <3>2. PICK i \in OpenGatesOf(t) : approvals[i].gate = MergeGate
      BY <2>1, <2>3 DEF WaitingIffOpenGate, WaitsAtMergeGate
    <3>3. i \in Approved(t, MergeGate)'
      BY <3>1, <3>2 DEF EndsWaits, OpenGatesOf, Approved, ApprovalIds, MergeGate
    <3> QED BY <3>3
  <2> QED BY <2>2, <2>3
<1>6. WaitsAtMergeGate'
  BY <1>1 DEF WaitsAtMergeGate, EndsWaits, OpenGatesOf
<1> QED BY <1>3, <1>4, <1>5, <1>6

\* Opening a gate: the one step that starts a wait.
LEMMA AuthorizeStep ==
  ASSUME TypeOK, GateInv, NEW w \in Worker, NEW t \in Task, NEW gate, NEW st,
         NEW v \in Commit, Authorize(w, t, gate, st, v), st = "merge" => gate = MergeGate
  PROVE  GateInv'
<1> USE DEF GateInv
<1> DEFINE new == Len(approvals) + 1
           row == [task |-> t, gate |-> gate, version |-> v, status |-> "PENDING_APPROVAL"]
<1>1. /\ DOMAIN approvals' = DOMAIN approvals \cup {new} /\ new \notin DOMAIN approvals
      /\ approvals'[new] = row
      /\ \A i \in DOMAIN approvals : approvals'[i] = approvals[i]
  <2>1. approvals \in Seq(ApprovalRow) /\ row \in ApprovalRow /\ approvals' = Append(approvals, row)
    BY DEF TypeOK, Authorize, ApprovalRow, ApprovalStatus
  <2> QED BY <2>1, AppendedRow
<1>2. /\ status[t] \in InFlight /\ status' = [status EXCEPT ![t] = "WAITING_FOR_HUMAN"]
      /\ stage' = [stage EXCEPT ![t] = st]
      /\ Approved(t, gate) = {} /\ ApprovalIds(t, gate, "PENDING_APPROVAL") = {}
  BY DEF Authorize, Owns, Move
<1>3. OpenGatesOf(t) = {}
  BY <1>2 DEF WaitingIffOpenGate, InFlight
<1>4. \A u \in Task : OpenGatesOf(u)' = IF u = t THEN {new} ELSE OpenGatesOf(u)
  BY <1>1, <1>3 DEF OpenGatesOf
<1>5. WaitingIffOpenGate'
  <2>1. \A u \in Task : status'[u] = IF u = t THEN "WAITING_FOR_HUMAN" ELSE status[u]
    BY <1>2 DEF TypeOK
  <2> HIDE DEF new
  <2> QED BY <1>4, <2>1 DEF WaitingIffOpenGate
<1>6. OneLiveGate'
  BY <1>1, <1>2 DEF OneLiveGate, Approved, ApprovalIds
<1>7. \A u \in Task : Approved(u, MergeGate) \subseteq Approved(u, MergeGate)'
  BY <1>1 DEF Approved, ApprovalIds, MergeGate
<1>8. MergeStageApproved'
  BY <1>2, <1>7 DEF MergeStageApproved, TypeOK
<1>9. WaitsAtMergeGate'
  BY <1>1, <1>2, <1>4 DEF WaitsAtMergeGate, TypeOK, OpenGatesOf
<1> QED BY <1>5, <1>6, <1>8, <1>9

\* Every step keeps the gate facts.
LEMMA GateStep == TypeOK /\ StatusInv /\ GateInv /\ [Next]_vars => GateInv'
<1> SUFFICES ASSUME TypeOK, StatusInv, GateInv, [Next]_vars PROVE GateInv'
  OBVIOUS
\* The steps that leave the requests alone.
<1> DEFINE Quiet == /\ UNCHANGED approvals
                    /\ \A t \in Task :
                         /\ status'[t] = "WAITING_FOR_HUMAN" <=> status[t] = "WAITING_FOR_HUMAN"
                         /\ status[t] = "CANCELLED" => status'[t] = "CANCELLED"
                         /\ stage'[t] \in {stage[t], "implement"}
<1>1. ASSUME Quiet PROVE GateInv'
  <2>1. EndsWaits({}, {})
    BY <1>1 DEF EndsWaits
  <2> QED BY <2>1, EndsWaitsStep
<1>2. ASSUME NEW t \in Task, NEW D \in SUBSET Task, CreateTask(t, D) PROVE Quiet
  BY <1>2 DEF CreateTask, Created, TypeOK
<1>3. CASE CreatePlanTasks
  BY <1>1, <1>3, TaskAssumption DEF CreatePlanTasks, StatusInv, PlanUnborn, TypeOK
<1>4. ASSUME NEW S \in SUBSET Task, CancelAll(S), UNCHANGED stage,
             approvals' = GatesClosed(S, approvals)
      PROVE  GateInv'
  <2>1. EndsWaits(S, {})
    BY <1>4, ClosedRows DEF EndsWaits, SameSubjects, TypeOK, CancelAll
  <2> QED BY <2>1, EndsWaitsStep
<1>5. ASSUME NEW t \in Task, CancelTask(t) PROVE GateInv'
  BY <1>4, <1>5, TaskAssumption DEF CancelTask, CancelledWith, Open
<1>6. CASE CancelRequest
  BY <1>4, <1>6, TaskAssumption DEF CancelRequest, Open
\* A task that moves, but neither from nor to a wait.
<1>7. ASSUME NEW t \in Task, NEW to \in WorkerTargets, status[t] # "WAITING_FOR_HUMAN",
             Move(t, to), stage' \in {stage, [stage EXCEPT ![t] = "implement"]},
             UNCHANGED approvals
      PROVE  Quiet
  <2>1. status[t] # "CANCELLED" /\ to # "WAITING_FOR_HUMAN"
    BY <1>7 DEF Move, CanTransition, Transitions, InFlight, WorkerTargets
  <2> QED BY <1>7, <2>1 DEF Move, TypeOK
<1>8. ASSUME NEW t \in Task, RetryTask(t) PROVE Quiet
  BY <1>7, <1>8 DEF RetryTask, WorkerTargets
<1>9. ASSUME NEW i \in DOMAIN approvals, Decide(i) PROVE GateInv'
  <2> DEFINE t == approvals[i].task
  <2>1. t \in Task /\ approvals \in Seq(ApprovalRow)
    BY RowTask DEF TypeOK
  <2>2. approvals[i].status = "PENDING_APPROVAL" /\ i \in OpenGatesOf(t)
    BY <1>9 DEF Decide, OpenGatesOf
  <2>3. status[t] = "WAITING_FOR_HUMAN" /\ OpenGatesOf(t) = {i}
    BY <2>1, <2>2 DEF GateInv, WaitingIffOpenGate
  <2>4. CASE Approve(i)
    <3>1. EndsWaits({t}, {i})
      BY <2>1, <2>2, <2>3, <2>4, DecidedRows
         DEF EndsWaits, SameSubjects, Approve, Move, TypeOK, ApprovalStatus, OpenGatesOf
    <3> QED BY <3>1, EndsWaitsStep
  <2>5. CASE RequestChanges(i)
    <3>1. EndsWaits({t}, {})
      BY <2>1, <2>2, <2>3, <2>5, DecidedRows
         DEF EndsWaits, SameSubjects, RequestChanges, Move, TypeOK, ApprovalStatus, OpenGatesOf
    <3> QED BY <3>1, EndsWaitsStep
  <2>6. CASE Reject(i)
    <3> DEFINE C == CancelledWith(t)
               D == Decided(i, "REJECTED")
    <3>1. /\ SameSubjects(D, approvals) /\ D[i].status = "REJECTED"
          /\ \A j \in DOMAIN approvals \ {i} : D[j] = approvals[j]
      BY <2>1, DecidedRows DEF ApprovalStatus
    <3>2. t \in C /\ CancelAll(C) /\ stage' = stage /\ approvals' = GatesClosed(C \ {t}, D)
      BY <2>6 DEF Reject, CancelledWith
    <3> HIDE DEF C, D
    <3>3. /\ SameSubjects(approvals', D)
          /\ \A j \in DOMAIN D :
               IF D[j].task \in C \ {t} /\ D[j].status = "PENDING_APPROVAL"
               THEN approvals'[j].status = "REJECTED" ELSE approvals'[j] = D[j]
      BY <3>1, <3>2, ClosedRows DEF SameSubjects
    <3>4. \A j \in DOMAIN approvals :
            IF approvals[j].task \in C /\ approvals[j].status = "PENDING_APPROVAL"
            THEN approvals'[j].status = "REJECTED" ELSE approvals'[j].status = approvals[j].status
      <4>1. ASSUME NEW j \in DOMAIN approvals, j # i, approvals[j].task = t
            PROVE  approvals[j].status # "PENDING_APPROVAL"
        BY <2>3, <4>1 DEF OpenGatesOf
      <4>2. approvals'[i].status = "REJECTED"
        BY <3>1, <3>3 DEF SameSubjects
      <4>3. ASSUME NEW j \in DOMAIN approvals, j # i
            PROVE  /\ D[j] = approvals[j] /\ j \in DOMAIN D
                   /\ IF D[j].task \in C \ {t} /\ D[j].status = "PENDING_APPROVAL"
                      THEN approvals'[j].status = "REJECTED" ELSE approvals'[j] = D[j]
        BY <3>1, <3>3, <4>3 DEF SameSubjects
      <4> QED BY <2>2, <3>2, <4>1, <4>2, <4>3
    <3>5. EndsWaits(C, {})
      BY <3>1, <3>2, <3>3, <3>4 DEF EndsWaits, SameSubjects, CancelAll, TypeOK
    <3> QED BY <3>5, EndsWaitsStep
  <2> QED BY <1>9, <2>4, <2>5, <2>6 DEF Decide
<1>10. ASSUME NEW w \in Worker, CreateWorker(w) \/ Heartbeat(w) PROVE Quiet
  BY <1>10 DEF CreateWorker, Heartbeat
<1>11. ASSUME NEW W \in SUBSET Worker, RequeueTasksOf(W), UNCHANGED <<approvals, stage>>
       PROVE  Quiet
  BY <1>11 DEF RequeueTasksOf, Requeued, InFlight, TypeOK
<1>12. ASSUME NEW w \in Worker, RegisterWorker(w) PROVE Quiet
  BY <1>11, <1>12 DEF RegisterWorker
<1>13. ASSUME NEW W \in SUBSET Worker, ReapOnce(W) PROVE Quiet
  BY <1>11, <1>13 DEF ReapOnce
<1>14. ASSUME NEW w \in Worker, NEW t \in Task, Claim(w, t) PROVE Quiet
  BY <1>14 DEF Claim, Claimable, TypeOK
<1>15. ASSUME NEW w \in Worker, NEW t \in Task, NEW to \in WorkerTargets, Transition(w, t, to)
       PROVE  Quiet
  BY <1>7, <1>15 DEF Transition, Owns, InFlight
<1>16. ASSUME NEW w \in Worker, NEW t \in Task, NEW sha \in Commit, Complete(w, t, sha)
       PROVE  Quiet
  BY <1>7, <1>16 DEF Complete, Owns, InFlight, WorkerTargets
<1>17. ASSUME NEW w \in Worker, NEW t \in Task, NEW c \in GatedCall, NEW v \in Commit,
              Authorize(w, t, c[1], c[2], v)
       PROVE  GateInv'
  BY <1>17, AuthorizeStep, CallAssumption
<1>18. ASSUME NEW w \in Worker, NEW t \in Task, Review(w, t) PROVE Quiet
  BY <1>7, <1>18 DEF Review, Owns, InFlight, WorkerTargets
<1>19. CASE UNCHANGED vars
  BY <1>1, <1>19 DEF vars
<1> HIDE DEF Quiet
<1> QED
  BY <1>1, <1>2, <1>3, <1>5, <1>6, <1>8, <1>9, <1>10, <1>12, <1>13, <1>14, <1>15, <1>16,
     <1>17, <1>18, <1>19 DEF Next, OwnerNext, WorkerNext

-----------------------------------------------------------------------------
(***************************************************************************)
(* Decisions.                                                              *)
(***************************************************************************)

KeepsDecisions ==
  \A i \in DOMAIN approvals :
    approvals[i].status # "PENDING_APPROVAL" => approvals'[i] = approvals[i]

\* Only rows that are open are ever written.
LEMMA DecisionStep == TypeOK /\ [Next]_vars => KeepsDecisions
<1> SUFFICES ASSUME TypeOK, [Next]_vars PROVE KeepsDecisions
  OBVIOUS
<1>1. approvals \in Seq(ApprovalRow)
  BY DEF TypeOK
<1>2. ASSUME UNCHANGED approvals PROVE KeepsDecisions
  BY <1>2 DEF KeepsDecisions
<1>3. ASSUME NEW S, approvals' = GatesClosed(S, approvals) PROVE KeepsDecisions
  BY <1>1, <1>3, ClosedRows DEF KeepsDecisions
<1>4. ASSUME NEW i \in DOMAIN approvals, Decide(i) PROVE KeepsDecisions
  <2>1. \A d \in ApprovalStatus :
          /\ Decided(i, d) \in Seq(ApprovalRow) /\ DOMAIN Decided(i, d) = DOMAIN approvals
          /\ \A j \in DOMAIN approvals \ {i} : Decided(i, d)[j] = approvals[j]
    BY <1>1, DecidedRows DEF SameSubjects
  <2>2. approvals[i].status = "PENDING_APPROVAL"
    BY <1>4 DEF Decide
  <2>3. CASE Approve(i) \/ RequestChanges(i)
    <3>1. approvals' = Decided(i, "APPROVED") \/ approvals' = Decided(i, "CHANGES_REQUESTED")
      BY <2>3 DEF Approve, RequestChanges
    <3> QED BY <2>1, <2>2, <3>1 DEF KeepsDecisions, ApprovalStatus
  <2>4. CASE Reject(i)
    <3>1. PICK S : approvals' = GatesClosed(S, Decided(i, "REJECTED"))
      BY <2>4 DEF Reject
    <3> QED BY <2>1, <2>2, <3>1, ClosedRows DEF KeepsDecisions, ApprovalStatus
  <2> QED BY <1>4, <2>3, <2>4 DEF Decide
<1>5. ASSUME NEW w \in Worker, NEW t \in Task, NEW c \in GatedCall, NEW v \in Commit,
             Authorize(w, t, c[1], c[2], v)
      PROVE  KeepsDecisions
  <2>1. PICK r : approvals' = Append(approvals, r)
    BY <1>5 DEF Authorize
  <2> QED BY <1>1, <2>1 DEF KeepsDecisions
<1>6. ASSUME NEW t \in Task, CancelTask(t) PROVE KeepsDecisions
  BY <1>3, <1>6 DEF CancelTask
<1>7. CASE CancelRequest
  BY <1>3, <1>7 DEF CancelRequest
<1> HIDE DEF KeepsDecisions
<1> QED
  BY <1>2, <1>4, <1>5, <1>6, <1>7
     DEF Next, OwnerNext, WorkerNext, vars, CreateTask, CreatePlanTasks, RetryTask, CreateWorker,
         RegisterWorker, Heartbeat, ReapOnce, Claim, Transition, Complete, Review

-----------------------------------------------------------------------------
(***************************************************************************)
(* Theorems.                                                               *)
(***************************************************************************)

\* The inductive invariant: types; tasks, holders and dependencies; gates.
IInv == TypeOK /\ StatusInv /\ GateInv

\* IInv holds initially and every step keeps it, whatever the constants.
THEOREM Invariant == Spec => []IInv
<1>1. Init => IInv
  BY TypeInit, StatusInit, GateInit DEF IInv
<1>2. IInv /\ [Next]_vars => IInv'
  BY TypeStep, StatusStep, GateStep DEF IInv
<1> QED BY <1>1, <1>2, PTL DEF Spec

\* A task waits for a human exactly while one request of it is open.
THEOREM WaitingCorrect == Spec => []WaitingIffOpenGate
<1>1. IInv => WaitingIffOpenGate
  BY DEF IInv, GateInv
<1> QED BY <1>1, Invariant, PTL

\* A task and gate have at most one request that is open or approved.
THEOREM OneLiveGateCorrect == Spec => []OneLiveGate
<1>1. IInv => OneLiveGate
  BY DEF IInv, GateInv
<1> QED BY <1>1, Invariant, PTL

\* Nothing is claimed, run or completed in the merge stage without an approval.
THEOREM MergeApproved == Spec => []MergeStageApproved
<1>1. IInv => MergeStageApproved
  BY DEF IInv, GateInv
<1> QED BY <1>1, Invariant, PTL

\* A task is started only after all its dependencies completed.
THEOREM DependenciesFirst == Spec => []StartedAfterDeps
<1>1. IInv => StartedAfterDeps
  BY DEF IInv, StatusInv
<1> QED BY <1>1, Invariant, PTL

\* A task has a holder exactly while it is in flight.
THEOREM HolderCorrect == Spec => []HolderIffInFlight
<1>1. IInv => HolderIffInFlight
  BY DEF IInv, StatusInv
<1> QED BY <1>1, Invariant, PTL

\* A request and its code tasks agree.
THEOREM RequestCorrect == Spec => []RequestAgrees
<1>1. IInv => RequestAgrees
  BY DEF IInv, StatusInv
<1> QED BY <1>1, Invariant, PTL

\* No step revises a decision.
THEOREM DecisionsFinal == Spec => DecisionsAreFinal
<1>1. TypeOK /\ [Next]_vars => [KeepsDecisions]_vars
  BY DecisionStep
<1> QED BY <1>1, TypeCorrect, PTL DEF Spec, DecisionsAreFinal, KeepsDecisions

-----------------------------------------------------------------------------
(***************************************************************************)
(* TaskLifecycle implements HumanGate: every step of the control plane is  *)
(* a step of the abstract merge gate or leaves it unchanged.               *)
(***************************************************************************)

Asked(t)  == ApprovalIds(t, MergeGate, "PENDING_APPROVAL")
Passed(t) == Approved(t, MergeGate)

\* What CHOOSE takes from a set of one element.
LEMMA OnlyChoice ==
  ASSUME NEW S \in SUBSET Int, NEW i \in S, \A j, k \in S : j = k
  PROVE  /\ (CHOOSE k \in S : TRUE) = i
         /\ (CHOOSE k \in S : \A j \in S : j <= k) = i
<1>1. \E k \in S : \A j \in S : j <= k
  OBVIOUS
<1> QED BY <1>1

\* Under OneLiveGate the CHOOSEs of the refinement mapping pick the one row
\* there is, before and after a step.
LEMMA SubjectIs ==
  ASSUME TypeOK, OneLiveGate, NEW t \in Task
  PROVE  /\ \A i \in Passed(t) : ApprovedVersion(t, MergeGate) = approvals[i].version
         /\ \A i \in Asked(t) :
              approvals[CHOOSE j \in Asked(t) : TRUE].version = approvals[i].version
<1>1. Passed(t) \subseteq Int /\ Asked(t) \subseteq Int
  BY DEF TypeOK, Passed, Asked, Approved, ApprovalIds
<1>2. /\ \A i, j \in Passed(t) : i = j
      /\ \A i, j \in Asked(t) : i = j
  BY DEF OneLiveGate, Passed, Asked, Approved, ApprovalIds
<1> QED BY <1>1, <1>2, OnlyChoice DEF ApprovedVersion, Passed

\* After a step, the one live request of a task has the version the code reads.
LEMMA SubjectIsNext ==
  ASSUME TypeOK', OneLiveGate', NEW t \in Task
  PROVE  /\ \A i \in Passed(t)' : ApprovedVersion(t, MergeGate)' = approvals'[i].version
         /\ \A i \in Asked(t)' :
              approvals'[CHOOSE j \in Asked(t)' : TRUE].version = approvals'[i].version
<1>1. Passed(t)' \subseteq Int /\ Asked(t)' \subseteq Int
  BY DEF TypeOK, Passed, Asked, Approved, ApprovalIds
<1>2. /\ \A i, j \in Passed(t)' : i = j
      /\ \A i, j \in Asked(t)' : i = j
  BY DEF OneLiveGate, Passed, Asked, Approved, ApprovalIds
<1> QED BY <1>1, <1>2, OnlyChoice DEF ApprovedVersion, Passed

-----------------------------------------------------------------------------
(***************************************************************************)
(* Completed tasks went through the merge stage.                           *)
(***************************************************************************)

CompletedInMerge == \A t \in Task : status[t] = "COMPLETED" => stage[t] = "merge"

\* A completed task stays in the merge stage.
LEMMA CompletedStep == TypeOK /\ StatusInv /\ CompletedInMerge /\ [Next]_vars => CompletedInMerge'
<1> SUFFICES ASSUME TypeOK, StatusInv, CompletedInMerge, [Next]_vars PROVE CompletedInMerge'
  OBVIOUS
<1> USE DEF CompletedInMerge, TypeOK
<1>1. ASSUME UNCHANGED stage, \A t \in Task : status'[t] = "COMPLETED" => status[t] = "COMPLETED"
      PROVE  CompletedInMerge'
  BY <1>1
<1>2. ASSUME NEW t \in Task, NEW to \in TaskStatus, to # "COMPLETED", Move(t, to),
             \A u \in Task \ {t} : stage'[u] = stage[u]
      PROVE  CompletedInMerge'
  BY <1>2 DEF Move
<1>3. ASSUME NEW t \in Task, NEW D \in SUBSET Task, CreateTask(t, D) PROVE CompletedInMerge'
  BY <1>1, <1>3 DEF CreateTask
<1>4. CASE CreatePlanTasks
  BY <1>1, <1>4 DEF CreatePlanTasks
<1>5. ASSUME NEW S, CancelAll(S), UNCHANGED stage PROVE CompletedInMerge'
  BY <1>1, <1>5 DEF CancelAll
<1>6. ASSUME NEW t \in Task, CancelTask(t) PROVE CompletedInMerge'
  BY <1>5, <1>6 DEF CancelTask
<1>7. CASE CancelRequest
  BY <1>5, <1>7 DEF CancelRequest
<1>8. ASSUME NEW t \in Task, RetryTask(t) PROVE CompletedInMerge'
  BY <1>2, <1>8 DEF RetryTask, TaskStatus
<1>9. ASSUME NEW i \in DOMAIN approvals, Decide(i) PROVE CompletedInMerge'
  <2>1. approvals[i].task \in Task
    BY RowTask
  <2>2. CASE Approve(i) \/ RequestChanges(i)
    <3>1. /\ Move(approvals[i].task, "PENDING")
          /\ \A u \in Task \ {approvals[i].task} : stage'[u] = stage[u]
      BY <2>1, <2>2 DEF Approve, RequestChanges
    <3> QED BY <1>2, <2>1, <3>1 DEF TaskStatus
  <2>3. CASE Reject(i)
    BY <1>5, <2>3 DEF Reject
  <2> QED BY <1>9, <2>2, <2>3 DEF Decide
<1>10. ASSUME NEW w \in Worker, CreateWorker(w) \/ Heartbeat(w) PROVE CompletedInMerge'
  BY <1>1, <1>10 DEF CreateWorker, Heartbeat
<1>11. ASSUME NEW W \in SUBSET Worker, RequeueTasksOf(W), UNCHANGED stage PROVE CompletedInMerge'
  BY <1>1, <1>11 DEF RequeueTasksOf, Requeued
<1>12. ASSUME NEW w \in Worker, RegisterWorker(w) PROVE CompletedInMerge'
  BY <1>11, <1>12 DEF RegisterWorker
<1>13. ASSUME NEW W \in SUBSET Worker, ReapOnce(W) PROVE CompletedInMerge'
  BY <1>11, <1>13 DEF ReapOnce
<1>14. ASSUME NEW w \in Worker, NEW t \in Task, Claim(w, t) PROVE CompletedInMerge'
  BY <1>1, <1>14 DEF Claim
<1>15. ASSUME NEW w \in Worker, NEW t \in Task, NEW to \in WorkerTargets, Transition(w, t, to)
       PROVE  CompletedInMerge'
  BY <1>2, <1>15 DEF Transition, WorkerTargets, TaskStatus, InFlight
<1>16. ASSUME NEW w \in Worker, NEW t \in Task, NEW sha \in Commit, Complete(w, t, sha)
       PROVE  CompletedInMerge'
  BY <1>16 DEF Complete, Move
<1>17. ASSUME NEW w \in Worker, NEW t \in Task, NEW c \in GatedCall, NEW v \in Commit,
              Authorize(w, t, c[1], c[2], v)
       PROVE  CompletedInMerge'
  <2>1. Move(t, "WAITING_FOR_HUMAN") /\ \A u \in Task \ {t} : stage'[u] = stage[u]
    BY <1>17 DEF Authorize
  <2> QED BY <1>2, <2>1 DEF TaskStatus
<1>18. ASSUME NEW w \in Worker, NEW t \in Task, Review(w, t) PROVE CompletedInMerge'
  BY <1>2, <1>18 DEF Review, TaskStatus
<1>19. CASE UNCHANGED vars
  BY <1>1, <1>19 DEF vars
<1> HIDE DEF CompletedInMerge, TypeOK
<1> QED
  BY <1>3, <1>4, <1>6, <1>7, <1>8, <1>9, <1>10, <1>12, <1>13, <1>14, <1>15, <1>16, <1>17,
     <1>18, <1>19 DEF Next, OwnerNext, WorkerNext

-----------------------------------------------------------------------------
(***************************************************************************)
(* The abstract view of a task.                                            *)
(***************************************************************************)

RefInv == IInv /\ CompletedInMerge

\* The rows of t's merge gate are what they were.
SameGate(t) ==
  /\ Passed(t)' = Passed(t) /\ Asked(t)' = Asked(t)
  /\ \A i \in Passed(t) \cup Asked(t) : approvals'[i].version = approvals[i].version

SameView(t) == PhaseOf(t)' = PhaseOf(t) /\ SubjectOf(t)' = SubjectOf(t)

\* A completed task has passed its merge gate.
LEMMA CompletedPassed == RefInv => \A t \in Task : status[t] = "COMPLETED" => Passed(t) # {}
BY DEF RefInv, CompletedInMerge, IInv, GateInv, MergeStageApproved, Passed

\* A task whose requests stay, and that neither completes nor is cancelled,
\* looks the same to HumanGate.
LEMMA SameGateSameView ==
  ASSUME RefInv, RefInv', NEW t \in Task, SameGate(t),
         status'[t] = "COMPLETED" <=> status[t] = "COMPLETED",
         status'[t] = "CANCELLED" <=> status[t] = "CANCELLED"
  PROVE  SameView(t)
<1>1. TypeOK /\ OneLiveGate /\ TypeOK' /\ OneLiveGate'
  BY DEF RefInv, IInv, GateInv
<1>2. PhaseOf(t)' = PhaseOf(t)
  BY DEF PhaseOf, SameGate, Passed, Asked
<1>3. PhaseOf(t) \in {"approved", "merged"} => Passed(t) # {}
  BY CompletedPassed DEF PhaseOf, Passed
<1>4. PhaseOf(t) = "asked" => Asked(t) # {}
  BY DEF PhaseOf, Asked
<1>5. CASE PhaseOf(t) \in {"approved", "merged"}
  <2>1. PICK i \in Passed(t) : TRUE
    BY <1>3, <1>5
  <2>2. ApprovedVersion(t, MergeGate)' = ApprovedVersion(t, MergeGate)
    BY <1>1, <2>1, SubjectIs, SubjectIsNext DEF SameGate
  <2> QED BY <1>2, <1>5, <2>2 DEF SameView, SubjectOf
<1>6. CASE PhaseOf(t) = "asked"
  <2>1. PICK i \in Asked(t) : TRUE
    BY <1>4, <1>6
  <2>2. approvals'[CHOOSE j \in Asked(t)' : TRUE].version
          = approvals[CHOOSE j \in Asked(t) : TRUE].version
    BY <1>1, <2>1, SubjectIs, SubjectIsNext DEF SameGate
  <2> QED BY <1>2, <1>6, <2>2 DEF SameView, SubjectOf, Asked
<1>7. CASE PhaseOf(t) \notin {"approved", "merged", "asked"}
  BY <1>2, <1>7 DEF SameView, SubjectOf
<1> QED BY <1>5, <1>6, <1>7

\* One task's view takes one of the abstract steps, the others' stay.
LEMMA AbstractMove ==
  ASSUME NEW t \in Task, \A u \in Task \ {t} : SameView(u),
         \/ PhaseOf(t) = "working" /\ PhaseOf(t)' = "asked" /\ SubjectOf(t)' \in Commit
         \/ PhaseOf(t) = "asked" /\ PhaseOf(t)' = "working" /\ SubjectOf(t)' = NoCommit
         \/ PhaseOf(t) = "asked" /\ PhaseOf(t)' = "approved" /\ SubjectOf(t)' = SubjectOf(t)
         \/ PhaseOf(t) = "approved" /\ PhaseOf(t)' = "merged" /\ SubjectOf(t)' = SubjectOf(t)
         \/ SameView(t)
  PROVE  [Gates!Next]_(Gates!vars)
<1> DEFINE P == [u \in Task |-> PhaseOf(u)]
           S == [u \in Task |-> SubjectOf(u)]
<1>1. P' = [P EXCEPT ![t] = PhaseOf(t)'] /\ S' = [S EXCEPT ![t] = SubjectOf(t)']
  BY DEF SameView
<1>2. P[t] = PhaseOf(t) /\ S[t] = SubjectOf(t)
  OBVIOUS
<1>3. SameView(t) => P' = P /\ S' = S
  BY DEF SameView
<1> HIDE DEF P, S
<1> USE DEF Gates!Next, Gates!vars
<1>4. CASE PhaseOf(t) = "working" /\ PhaseOf(t)' = "asked" /\ SubjectOf(t)' \in Commit
  <2>1. Gates!Ask(t, SubjectOf(t)')
    BY <1>1, <1>2, <1>4 DEF Gates!Ask, P, S
  <2> QED BY <1>4, <2>1
<1>5. CASE PhaseOf(t) = "asked" /\ PhaseOf(t)' = "working" /\ SubjectOf(t)' = NoCommit
  <2>1. Gates!SendBack(t)
    BY <1>1, <1>2, <1>5 DEF Gates!SendBack, P, S
  <2> QED BY <2>1
<1>6. CASE PhaseOf(t) = "asked" /\ PhaseOf(t)' = "approved" /\ SubjectOf(t)' = SubjectOf(t)
  <2>1. Gates!Approve(t)
    BY <1>1, <1>2, <1>6 DEF Gates!Approve, P, S
  <2> QED BY <2>1
<1>7. CASE PhaseOf(t) = "approved" /\ PhaseOf(t)' = "merged" /\ SubjectOf(t)' = SubjectOf(t)
  <2>1. Gates!Merge(t)
    BY <1>1, <1>2, <1>7 DEF Gates!Merge, P, S
  <2> QED BY <2>1
<1>8. CASE SameView(t)
  BY <1>3, <1>8 DEF P, S
<1> QED BY <1>4, <1>5, <1>6, <1>7, <1>8

\* Several tasks are dropped at once.
LEMMA AbstractDrop ==
  ASSUME NEW D \in SUBSET Task, \A u \in Task \ D : SameView(u),
         \A u \in D : /\ PhaseOf(u) \notin {"merged", "dropped"}
                      /\ PhaseOf(u)' = "dropped" /\ SubjectOf(u)' = NoCommit
  PROVE  [Gates!Next]_(Gates!vars)
<1>1. Gates!Drop(D)
  BY DEF Gates!Drop, SameView
<1> QED BY <1>1 DEF Gates!Next

\* Nothing changes for any task.
LEMMA AbstractStutter ==
  ASSUME \A u \in Task : SameView(u)
  PROVE  [Gates!Next]_(Gates!vars)
BY DEF Gates!vars, SameView

-----------------------------------------------------------------------------
(***************************************************************************)
(* Every step refines.                                                     *)
(***************************************************************************)

\* Dropping S: cancelled tasks lose their gate, the others keep theirs.
LEMMA CancelRefines ==
  ASSUME RefInv, RefInv', NEW S \in SUBSET Task, CancelAll(S),
         \A t \in S : status[t] \notin {"COMPLETED", "CANCELLED"},
         \A t \in Task \ S : SameGate(t)
  PROVE  [Gates!Next]_(Gates!vars)
<1>1. \A t \in Task : status'[t] = IF t \in S THEN "CANCELLED" ELSE status[t]
  BY DEF CancelAll
<1>2. \A t \in Task \ S : SameView(t)
  BY <1>1, SameGateSameView
<1>3. ASSUME NEW t \in S
      PROVE  /\ PhaseOf(t) \notin {"merged", "dropped"}
             /\ PhaseOf(t)' = "dropped" /\ SubjectOf(t)' = NoCommit
  BY <1>1, <1>3 DEF PhaseOf, SubjectOf
<1> QED BY <1>2, <1>3, AbstractDrop

\* Closing the requests of some tasks leaves those of the others.
LEMMA ClosedKeepsOthers ==
  ASSUME NEW S, NEW rows \in Seq(ApprovalRow), approvals' = GatesClosed(S, rows), TypeOK,
         SameSubjects(rows, approvals), NEW t \in Task, t \notin S,
         \A i \in DOMAIN approvals : approvals[i].task = t => rows[i] = approvals[i]
  PROVE  SameGate(t)
<1>1. /\ SameSubjects(approvals', rows)
      /\ \A i \in DOMAIN rows : rows[i].task = t => approvals'[i] = rows[i]
  BY ClosedRows
<1>2. /\ DOMAIN approvals' = DOMAIN approvals
      /\ \A i \in DOMAIN approvals : approvals'[i].task = approvals[i].task
      /\ \A i \in DOMAIN approvals : approvals[i].task = t => approvals'[i] = approvals[i]
  BY <1>1 DEF SameSubjects
<1> QED BY <1>2 DEF SameGate, Passed, Asked, Approved, ApprovalIds, MergeGate

\* A decision that lets the task go on.
LEMMA DecideRefines ==
  ASSUME RefInv, RefInv', NEW i \in DOMAIN approvals, approvals[i].status = "PENDING_APPROVAL",
         NEW d \in {"APPROVED", "CHANGES_REQUESTED"}, approvals' = Decided(i, d),
         Move(approvals[i].task, "PENDING")
  PROVE  [Gates!Next]_(Gates!vars)
<1>1. TypeOK /\ OneLiveGate /\ TypeOK' /\ OneLiveGate'
  BY DEF RefInv, IInv, GateInv
<1>2. approvals \in Seq(ApprovalRow)
  BY <1>1 DEF TypeOK
<1> PICK t \in Task : t = approvals[i].task
  BY <1>1, RowTask
<1>3. /\ SameSubjects(approvals', approvals)
      /\ approvals'[i].status = d
      /\ \A j \in DOMAIN approvals \ {i} : approvals'[j] = approvals[j]
  BY <1>2, DecidedRows DEF ApprovalStatus
<1>4. /\ status'[t] = "PENDING" /\ status[t] \notin {"COMPLETED", "CANCELLED"}
      /\ \A u \in Task \ {t} : status'[u] = status[u]
  BY <1>1 DEF Move, TypeOK, CanTransition, Transitions, InFlight
<1>5. ASSUME NEW u \in Task, u # t \/ approvals[i].gate # MergeGate PROVE SameView(u)
  <2>1. SameGate(u)
    BY <1>3, <1>5 DEF SameSubjects, SameGate, Passed, Asked, Approved, ApprovalIds
  <2> QED BY <1>4, <2>1, SameGateSameView
<1>6. CASE approvals[i].gate # MergeGate
  BY <1>5, <1>6, AbstractMove
<1>7. CASE approvals[i].gate = MergeGate
  <2>1. i \in Asked(t) /\ Passed(t) = {}
    BY <1>1, <1>7 DEF Asked, Passed, Approved, ApprovalIds, OneLiveGate
  <2>2. PhaseOf(t) = "asked" /\ SubjectOf(t) = approvals[i].version
    <3>1. PhaseOf(t) = "asked"
      BY <1>4, <2>1 DEF PhaseOf, Passed, Asked
    <3> QED BY <1>1, <2>1, <3>1, SubjectIs DEF SubjectOf, Asked
  <2>3. CASE d = "APPROVED"
    <3>1. i \in Passed(t)'
      BY <1>3, <1>7, <2>3 DEF SameSubjects, Passed, Approved, ApprovalIds
    <3>2. PhaseOf(t)' = "approved"
      BY <1>4, <3>1 DEF PhaseOf, Passed
    <3>3. SubjectOf(t)' = approvals'[i].version
      BY <1>1, <3>1, <3>2, SubjectIsNext DEF SubjectOf
    <3>4. SubjectOf(t)' = SubjectOf(t)
      BY <1>3, <2>2, <3>3 DEF SameSubjects
    <3> QED BY <1>5, <2>2, <3>2, <3>4, AbstractMove
  <2>4. CASE d = "CHANGES_REQUESTED"
    <3>1. Asked(t) = {i}
      BY <1>1, <2>1 DEF OneLiveGate, Asked, ApprovalIds
    <3>2. Passed(t)' = {} /\ Asked(t)' = {}
      BY <1>3, <2>1, <2>4, <3>1 DEF SameSubjects, Passed, Asked, Approved, ApprovalIds
    <3>3. PhaseOf(t)' = "working" /\ SubjectOf(t)' = NoCommit
      BY <1>4, <3>2 DEF PhaseOf, SubjectOf, Passed, Asked
    <3> QED BY <1>5, <2>2, <3>3, AbstractMove
  <2> QED BY <2>3, <2>4
<1> QED BY <1>6, <1>7

\* Opening a gate asks about a version, if it is the merge gate.
LEMMA AuthorizeRefines ==
  ASSUME RefInv, RefInv', NEW w \in Worker, NEW t \in Task, NEW gate \in Gate,
         NEW st, NEW v \in Commit, Authorize(w, t, gate, st, v)
  PROVE  [Gates!Next]_(Gates!vars)
<1> DEFINE new == Len(approvals) + 1
           row == [task |-> t, gate |-> gate, version |-> v, status |-> "PENDING_APPROVAL"]
<1>1. TypeOK /\ TypeOK' /\ OneLiveGate'
  BY DEF RefInv, IInv, GateInv
<1>2. /\ DOMAIN approvals' = DOMAIN approvals \cup {new} /\ new \notin DOMAIN approvals
      /\ approvals'[new] = row
      /\ \A i \in DOMAIN approvals : approvals'[i] = approvals[i]
  <2>1. approvals \in Seq(ApprovalRow) /\ row \in ApprovalRow /\ approvals' = Append(approvals, row)
    BY <1>1 DEF TypeOK, Authorize, ApprovalRow, ApprovalStatus
  <2> QED BY <2>1, AppendedRow
<1>3. /\ status[t] \in InFlight /\ status'[t] = "WAITING_FOR_HUMAN"
      /\ \A u \in Task \ {t} : status'[u] = status[u]
      /\ Approved(t, gate) = {} /\ ApprovalIds(t, gate, "PENDING_APPROVAL") = {}
  BY <1>1 DEF Authorize, Owns, Move, TypeOK
<1> HIDE DEF new
<1>4. ASSUME NEW u \in Task, u # t \/ gate # MergeGate PROVE SameView(u)
  <2>1. SameGate(u)
    BY <1>2, <1>4 DEF SameGate, Passed, Asked, Approved, ApprovalIds
  <2> QED BY <1>3, <2>1, SameGateSameView DEF InFlight
<1>5. CASE gate # MergeGate
  BY <1>4, <1>5, AbstractMove
<1>6. CASE gate = MergeGate
  <2>1. Passed(t) = {} /\ Asked(t) = {}
    BY <1>3, <1>6 DEF Passed, Asked
  <2>2. PhaseOf(t) = "working"
    BY <1>3, <2>1 DEF PhaseOf, Passed, Asked, InFlight
  <2>3. Passed(t)' = {} /\ new \in Asked(t)'
    BY <1>2, <1>6, <2>1 DEF Passed, Asked, Approved, ApprovalIds
  <2>4. PhaseOf(t)' = "asked"
    BY <1>3, <2>3 DEF PhaseOf, Passed, Asked
  <2>5. SubjectOf(t)' = v
    BY <1>1, <1>2, <2>3, <2>4, SubjectIsNext DEF SubjectOf, Asked
  <2> QED BY <1>4, <2>2, <2>4, <2>5, AbstractMove
<1> QED BY <1>5, <1>6

\* Every step is a step of HumanGate or a stutter.
LEMMA RefineStep == RefInv /\ RefInv' /\ [Next]_vars => [Gates!Next]_(Gates!vars)
<1> SUFFICES ASSUME RefInv, RefInv', [Next]_vars PROVE [Gates!Next]_(Gates!vars)
  OBVIOUS
<1>1. /\ TypeOK /\ StatusInv /\ GateInv
      /\ approvals \in Seq(ApprovalRow)
  BY DEF RefInv, IInv, TypeOK
\* Steps that change neither the requests nor who is completed or cancelled.
<1> DEFINE Quiet == /\ UNCHANGED approvals
                    /\ \A t \in Task :
                         /\ status'[t] = "COMPLETED" <=> status[t] = "COMPLETED"
                         /\ status'[t] = "CANCELLED" <=> status[t] = "CANCELLED"
<1>2. ASSUME Quiet PROVE [Gates!Next]_(Gates!vars)
  <2>1. \A t \in Task : SameGate(t)
    BY <1>2 DEF SameGate, Passed, Asked, Approved, ApprovalIds, MergeGate
  <2> QED BY <1>2, <2>1, SameGateSameView, AbstractStutter
<1>3. ASSUME NEW t \in Task, NEW D \in SUBSET Task, CreateTask(t, D) PROVE Quiet
  BY <1>1, <1>3 DEF CreateTask, Created, TypeOK
<1>4. CASE CreatePlanTasks
  <2>1. Quiet
    BY <1>1, <1>4, TaskAssumption DEF CreatePlanTasks, StatusInv, PlanUnborn, TypeOK
  <2> QED BY <1>2, <2>1
<1>5. ASSUME NEW S \in SUBSET Task, CancelAll(S), approvals' = GatesClosed(S, approvals),
             \A t \in S : status[t] \notin {"COMPLETED", "CANCELLED"}
      PROVE  [Gates!Next]_(Gates!vars)
  <2>1. SameSubjects(approvals, approvals)
    BY <1>1 DEF SameSubjects
  <2>2. \A t \in Task \ S : SameGate(t)
    BY <1>1, <1>5, <2>1, ClosedKeepsOthers
  <2> QED BY <1>5, <2>2, CancelRefines
<1>6. ASSUME NEW t \in Task, CanTransition(status[t], "CANCELLED")
      PROVE  /\ CancelledWith(t) \in SUBSET Task
             /\ \A u \in CancelledWith(t) : status[u] \notin {"COMPLETED", "CANCELLED"}
  BY <1>6, TaskAssumption DEF CancelledWith, Open, CanTransition, Transitions, InFlight
<1>7. ASSUME NEW t \in Task, CancelTask(t) PROVE [Gates!Next]_(Gates!vars)
  BY <1>5, <1>6, <1>7 DEF CancelTask
<1>8. CASE CancelRequest
  BY <1>5, <1>8, TaskAssumption DEF CancelRequest, Open
<1>9. ASSUME NEW t \in Task, NEW to \in TaskStatus \ {"COMPLETED", "CANCELLED"}, Move(t, to),
             UNCHANGED approvals
      PROVE  Quiet
  BY <1>1, <1>9 DEF Move, CanTransition, Transitions, InFlight, TypeOK
<1>10. ASSUME NEW t \in Task, RetryTask(t) PROVE Quiet
  BY <1>9, <1>10 DEF RetryTask, TaskStatus
<1>11. ASSUME NEW i \in DOMAIN approvals, Decide(i) PROVE [Gates!Next]_(Gates!vars)
  <2>1. approvals[i].status = "PENDING_APPROVAL"
    BY <1>11 DEF Decide
  <2>2. CASE Approve(i) \/ RequestChanges(i)
    BY <2>1, <2>2, DecideRefines DEF Approve, RequestChanges
  <2>3. CASE Reject(i)
    <3> PICK t \in Task : t = approvals[i].task
      BY <1>1, RowTask
    <3>1. /\ CanTransition(status[t], "CANCELLED") /\ CancelAll(CancelledWith(t))
          /\ approvals' = GatesClosed(CancelledWith(t) \ {t}, Decided(i, "REJECTED"))
      BY <2>3 DEF Reject
    <3>2. /\ SameSubjects(Decided(i, "REJECTED"), approvals)
          /\ \A j \in DOMAIN approvals \ {i} : Decided(i, "REJECTED")[j] = approvals[j]
      BY <1>1, DecidedRows DEF ApprovalStatus
    <3>3. ASSUME NEW u \in Task \ CancelledWith(t) PROVE SameGate(u)
      <4>1. u # t
        BY <3>3 DEF CancelledWith
      <4>2. \A j \in DOMAIN approvals : approvals[j].task = u => Decided(i, "REJECTED")[j] = approvals[j]
        BY <3>2, <4>1
      <4>3. Decided(i, "REJECTED") \in Seq(ApprovalRow)
        BY <3>2 DEF SameSubjects
      <4> QED BY <1>1, <3>1, <3>2, <3>3, <4>2, <4>3, ClosedKeepsOthers
    <3> QED BY <1>6, <3>1, <3>3, CancelRefines
  <2> QED BY <1>11, <2>2, <2>3 DEF Decide
<1>12. ASSUME NEW w \in Worker, CreateWorker(w) \/ Heartbeat(w) PROVE Quiet
  BY <1>12 DEF CreateWorker, Heartbeat
<1>13. ASSUME NEW W \in SUBSET Worker, RequeueTasksOf(W), UNCHANGED approvals PROVE Quiet
  BY <1>1, <1>13 DEF RequeueTasksOf, Requeued, InFlight, TypeOK
<1>14. ASSUME NEW w \in Worker, RegisterWorker(w) PROVE Quiet
  BY <1>13, <1>14 DEF RegisterWorker
<1>15. ASSUME NEW W \in SUBSET Worker, ReapOnce(W) PROVE Quiet
  BY <1>13, <1>15 DEF ReapOnce
<1>16. ASSUME NEW w \in Worker, NEW t \in Task, Claim(w, t) PROVE Quiet
  BY <1>1, <1>16 DEF Claim, Claimable, TypeOK
<1>17. ASSUME NEW w \in Worker, NEW t \in Task, NEW to \in WorkerTargets, Transition(w, t, to)
       PROVE  Quiet
  BY <1>9, <1>17 DEF Transition, WorkerTargets, TaskStatus, InFlight
<1>18. ASSUME NEW w \in Worker, NEW t \in Task, NEW sha \in Commit, Complete(w, t, sha)
       PROVE  [Gates!Next]_(Gates!vars)
  <2>1. /\ status[t] \in InFlight /\ stage[t] = "merge" /\ UNCHANGED approvals
        /\ status'[t] = "COMPLETED" /\ \A u \in Task \ {t} : status'[u] = status[u]
    BY <1>1, <1>18 DEF Complete, Owns, Move, TypeOK
  <2>2. Passed(t) # {}
    BY <1>1, <2>1 DEF GateInv, MergeStageApproved, Passed, InFlight
  <2>3. PhaseOf(t) = "approved" /\ PhaseOf(t)' = "merged"
    BY <2>1, <2>2 DEF PhaseOf, Passed, InFlight
  <2>4. SubjectOf(t)' = SubjectOf(t)
    BY <2>1, <2>3 DEF SubjectOf, ApprovedVersion, Approved, ApprovalIds
  <2>5. \A u \in Task \ {t} : SameGate(u)
    BY <2>1 DEF SameGate, Passed, Asked, Approved, ApprovalIds, MergeGate
  <2>6. \A u \in Task \ {t} : SameView(u)
    BY <2>1, <2>5, SameGateSameView
  <2> QED BY <2>3, <2>4, <2>6, AbstractMove
<1>19. ASSUME NEW w \in Worker, NEW t \in Task, NEW c \in GatedCall, NEW v \in Commit,
              Authorize(w, t, c[1], c[2], v)
       PROVE  [Gates!Next]_(Gates!vars)
  BY <1>19, AuthorizeRefines, CallAssumption
<1>20. ASSUME NEW w \in Worker, NEW t \in Task, Review(w, t) PROVE Quiet
  BY <1>9, <1>20 DEF Review, TaskStatus
<1>21. CASE UNCHANGED vars
  BY <1>2, <1>21 DEF vars
<1> HIDE DEF Quiet
<1> QED
  BY <1>2, <1>3, <1>4, <1>7, <1>8, <1>10, <1>11, <1>12, <1>14, <1>15, <1>16, <1>17, <1>18,
     <1>19, <1>20, <1>21 DEF Next, OwnerNext, WorkerNext

\* The initial states map to initial states.
LEMMA RefineInit == Init => Gates!Init
BY DEF Init, Gates!Init, PhaseOf, SubjectOf, Approved, ApprovalIds

\* The control plane's gates do what HumanGate promises, for every instance.
THEOREM Refinement == Spec => ImplementsHumanGate
<1>1. Init => RefInv
  BY TypeInit, StatusInit, GateInit DEF RefInv, IInv, CompletedInMerge, Init
<1>2. RefInv /\ [Next]_vars => RefInv'
  BY TypeStep, StatusStep, GateStep, CompletedStep DEF RefInv, IInv
<1>3. RefInv /\ RefInv' /\ [Next]_vars => [Gates!Next]_(Gates!vars)
  BY RefineStep
<1> QED BY <1>1, <1>2, <1>3, RefineInit, PTL DEF Spec, ImplementsHumanGate, Gates!Spec
=============================================================================

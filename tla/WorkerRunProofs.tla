---------------------------- MODULE WorkerRunProofs ----------------------------
(***************************************************************************)
(* Theorems about WorkerRun, for every set of tasks, workers and commits,  *)
(* every set of faults and every bound: the composed system implements     *)
(* TaskLifecycle, so that its theorems hold here too, and what reaches the *)
(* remote is what the humans approved.                                     *)
(***************************************************************************)
EXTENDS WorkerRun, TaskLifecycleProofs

-----------------------------------------------------------------------------
(***************************************************************************)
(* The inductive invariant.                                                *)
(***************************************************************************)

\* An open or approved request: the ones that decide what is merged.
Live(i) == approvals[i].status \in {"PENDING_APPROVAL", "APPROVED"}

Developing   == {"develop", "commit"}
Pushed       == {"review", "verdict", "askMerge"}
Implementing == Developing \cup {"push"} \cup Pushed
Merging      == {"askApproved", "merging", "mergePush", "report"}

RunTypeOK ==
  /\ pc \in [Worker -> Busy \cup {"down", "idle"}]
  /\ job \in [Worker -> Task \cup {NoTask}]
  /\ tip \in [Worker -> Seq(Commit)]
  /\ seen \in [Worker -> Nat]
  /\ sha \in [Worker -> Commit \cup {NoCommit}]
  /\ cancelReply \in [Worker -> Task \cup {NoTask}]
  /\ branch \in [Task -> Seq(Commit)]
  /\ main \in Seq(Commit)
  /\ author \in [Commit -> Task \cup {NoTask}]

\* A worker is busy with a task that exists, or has none; a running process is
\* registered.
BusyInv ==
  \A w \in Worker :
    /\ pc[w] \in Busy => job[w] \in Task /\ status[job[w]] # "NONE"
    /\ pc[w] \notin Busy => job[w] = NoTask
    /\ pc[w] # "down" => wstatus[w] # "none"

\* The stage of a task, what has been asked for it, and where its holder stands.
StageInv ==
  /\ \A i \in DOMAIN approvals :
       /\ approvals[i].gate = MergeGate
       /\ Live(i) => stage[approvals[i].task] = "merge"
  /\ \A w \in Worker :
       pc[w] \in Busy /\ Owns(w, job[w]) =>
         /\ pc[w] \in Implementing => stage[job[w]] = "implement"
         /\ pc[w] \in Merging => stage[job[w]] = "merge"

\* Every commit on a branch was made for the branch's task.
AuthorInv ==
  /\ \A t \in Task : \A k \in DOMAIN branch[t] : author[branch[t][k]] = t
  /\ \A w \in Worker : \A k \in DOMAIN tip[w] : job[w] \in Task /\ author[tip[w][k]] = job[w]

\* The local branch against the remote one.  After its push the holder's branch
\* is the remote one, whatever others still push.
TipInv ==
  \A w \in Worker :
    /\ pc[w] \in Developing => Len(tip[w]) <= Len(branch[job[w]])
    /\ pc[w] = "push" => Len(tip[w]) <= Len(branch[job[w]]) + 1
    /\ pc[w] \in Pushed \cup {"push"} => tip[w] # <<>>
    /\ pc[w] \in Pushed /\ Owns(w, job[w]) => branch[job[w]] = tip[w]

\* A push that is still under way is no longer than what the task's holder has,
\* or, once the gate is open, than what was pushed: it is refused or changes nothing.
StaleInv ==
  \A u \in Worker : pc[u] = "push" =>
    /\ \A w \in Worker \ {u} :
         pc[w] \in Busy /\ job[w] = job[u] /\ Owns(w, job[w]) =>
           /\ pc[w] \in Developing => Len(tip[u]) <= Len(tip[w]) + 1
           /\ pc[w] \in Pushed \cup {"push"} => Len(tip[u]) <= Len(tip[w])
    /\ \A i \in DOMAIN approvals :
         Live(i) /\ approvals[i].task = job[u] => Len(tip[u]) <= Len(branch[job[u]])

\* A human approved commit c for task t.
ApprovedFor(t, c) ==
  \E i \in DOMAIN approvals :
    /\ approvals[i].status = "APPROVED" /\ approvals[i].gate = MergeGate
    /\ approvals[i].version = c /\ approvals[i].task = t

\* What the merging worker holds, and that the default branch has no commit twice.
MergeInv ==
  /\ \A j, k \in DOMAIN main : main[j] = main[k] => j = k
  /\ \A w \in Worker :
       /\ seen[w] <= Len(main)
       /\ pc[w] \in {"merging", "mergePush"} =>
            sha[w] \in Commit /\ author[sha[w]] = job[w] /\ ApprovedFor(job[w], sha[w])
       /\ pc[w] = "report" =>
            sha[w] \in Commit /\ \E k \in DOMAIN main : author[main[k]] = job[w]

RemoteInv == AskedIsPushed /\ MainOnlyApproved /\ CompletedIsMerged /\ CheckoutHasDeps

RunInv ==
  /\ IInv /\ RunTypeOK /\ BusyInv /\ StageInv /\ AuthorInv
  /\ TipInv /\ StaleInv /\ MergeInv /\ RemoteInv

-----------------------------------------------------------------------------
(***************************************************************************)
(* What the steps do, summed up.                                           *)
(***************************************************************************)

\* What every call does at the server, but the two that open a gate and complete
\* a task: no new request, no new approval, nobody who is busy gains a task, and
\* a task that goes back to the implement stage leaves its worker and its gate.
Background ==
  /\ DOMAIN approvals' = DOMAIN approvals
  /\ \A i \in DOMAIN approvals :
       /\ approvals'[i].task = approvals[i].task
       /\ approvals'[i].gate = approvals[i].gate
       /\ approvals'[i].version = approvals[i].version
       /\ approvals[i].status = "APPROVED" => approvals'[i].status = "APPROVED"
       /\ approvals'[i].status \in {"PENDING_APPROVAL", "APPROVED"} => Live(i)
  /\ \A t \in Task :
       /\ status[t] # "NONE" => status'[t] # "NONE" /\ deps'[t] = deps[t]
       /\ status'[t] = "COMPLETED" => status[t] = "COMPLETED"
       /\ \/ stage'[t] = stage[t]
          \/ /\ status'[t] \notin InFlight
             /\ \A i \in DOMAIN approvals :
                  approvals[i].task = t =>
                    approvals'[i].status \notin {"PENDING_APPROVAL", "APPROVED"}
  /\ \A w \in Worker :
       /\ wstatus[w] # "none" => wstatus'[w] # "none"
       /\ pc[w] \in Busy => \A t \in Task :
            holder'[t] = w /\ status'[t] \in InFlight => Owns(w, t)

\* A step that leaves the control plane alone is in the background.
LEMMA UnchangedBackground ==
  ASSUME UNCHANGED vars PROVE Background
BY DEF vars, Background, Live, Owns

\* The owner's operations.
LEMMA OwnerBackground ==
  ASSUME IInv, StageInv, OwnerNext PROVE Background
<1> USE DEF IInv
<1>1. approvals \in Seq(ApprovalRow)
  BY DEF TypeOK
<1>2. ASSUME NEW S, CancelAll(S), approvals' = GatesClosed(S, approvals),
             UNCHANGED <<workerVars, stage, workVars>>, S \subseteq {t \in Task : status[t] # "NONE"}
      PROVE  Background
  <2>1. /\ SameSubjects(approvals', approvals)
        /\ \A i \in DOMAIN approvals :
           \/ approvals'[i] = approvals[i]
           \/ approvals[i].status = "PENDING_APPROVAL" /\ approvals'[i].status = "REJECTED"
    BY <1>1, <1>2, ClosedRows
  <2> QED BY <1>2, <2>1, NoneAssumption
          DEF SameSubjects, Background, Live, CancelAll, workerVars, workVars, InFlight, Owns
<1>3. ASSUME NEW t \in Task, NEW D \in SUBSET Task, CreateTask(t, D) PROVE Background
  BY <1>3 DEF CreateTask, Created, workerVars, Background, Live, Owns, TypeOK, InFlight
<1>4. CASE CreatePlanTasks
  BY <1>4, TaskAssumption DEF CreatePlanTasks, workerVars, Background, Live, Owns, TypeOK, InFlight,
     StatusInv, PlanUnborn
<1>5. ASSUME NEW t \in Task, CancelTask(t) PROVE Background
  <2>1. CancelledWith(t) \subseteq {u \in Task : status[u] # "NONE"}
    BY <1>5, TaskAssumption DEF CancelTask, CancelledWith, Open, CanTransition, Transitions, InFlight
  <2> QED BY <1>2, <1>5, <2>1 DEF CancelTask
<1>6. CASE CancelRequest
  <2>1. Open \cap PlanTask \subseteq {u \in Task : status[u] # "NONE"}
    BY TaskAssumption DEF Open
  <2> QED BY <1>2, <1>6, <2>1 DEF CancelRequest, workVars
<1>7. ASSUME NEW t \in Task, RetryTask(t) PROVE Background
  BY <1>7, NoneAssumption DEF RetryTask, Move, workerVars, Background, Live, Owns, TypeOK, InFlight
<1>8. ASSUME NEW i \in DOMAIN approvals, Decide(i) PROVE Background
  <2> DEFINE t == approvals[i].task
  <2>1. t \in Task /\ approvals[i].status = "PENDING_APPROVAL" /\ i \in OpenGatesOf(t)
    BY <1>8, RowTask DEF Decide, OpenGatesOf
  <2>2. status[t] = "WAITING_FOR_HUMAN" /\ OpenGatesOf(t) = {i}
    BY <2>1 DEF GateInv, WaitingIffOpenGate
  <2>3. \A d \in ApprovalStatus :
          /\ SameSubjects(Decided(i, d), approvals) /\ Decided(i, d)[i].status = d
          /\ \A j \in DOMAIN approvals \ {i} : Decided(i, d)[j] = approvals[j]
    BY <1>1, DecidedRows
  <2>4. CASE Approve(i)
    BY <2>1, <2>2, <2>3, <2>4, NoneAssumption
       DEF Approve, Move, SameSubjects, Background, Live, Owns, TypeOK, InFlight, workerVars, ApprovalStatus
  <2>5. CASE RequestChanges(i)
    <3>1. \A j \in DOMAIN approvals : approvals[j].task = t /\ Live(j) => j = i
      BY <2>1 DEF GateInv, OneLiveGate, Live, StageInv
    <3>2. /\ approvals' = Decided(i, "CHANGES_REQUESTED")
          /\ status' = [status EXCEPT ![t] = "PENDING"]
          /\ holder' = [holder EXCEPT ![t] = NoWorker]
          /\ stage' = [stage EXCEPT ![t] = "implement"]
          /\ UNCHANGED <<deps, wstatus>>
      BY <2>5 DEF RequestChanges, Move, workerVars, InFlight
    <3>3. /\ SameSubjects(approvals', approvals)
          /\ approvals'[i].status = "CHANGES_REQUESTED"
          /\ \A j \in DOMAIN approvals \ {i} : approvals'[j] = approvals[j]
      BY <2>3, <3>2 DEF ApprovalStatus
    <3>4. /\ DOMAIN approvals' = DOMAIN approvals
          /\ \A j \in DOMAIN approvals :
               /\ approvals'[j].task = approvals[j].task
               /\ approvals'[j].gate = approvals[j].gate
               /\ approvals'[j].version = approvals[j].version
               /\ approvals[j].status = "APPROVED" => approvals'[j].status = "APPROVED"
               /\ approvals'[j].status \in {"PENDING_APPROVAL", "APPROVED"} => Live(j)
      BY <2>1, <3>3 DEF SameSubjects, Live
    <3>5. \A j \in DOMAIN approvals : approvals[j].task = t =>
             approvals'[j].status \notin {"PENDING_APPROVAL", "APPROVED"}
      BY <3>1, <3>3, <3>4
    <3>6. \A u \in Task :
            /\ status[u] # "NONE" => status'[u] # "NONE" /\ deps'[u] = deps[u]
            /\ status'[u] = "COMPLETED" => status[u] = "COMPLETED"
            /\ u # t => stage'[u] = stage[u]
      BY <2>1, <3>2 DEF TypeOK
    <3>7. status'[t] \notin InFlight
      BY <2>1, <3>2 DEF TypeOK, InFlight
    <3>8. \A w \in Worker :
            /\ wstatus[w] # "none" => wstatus'[w] # "none"
            /\ pc[w] \in Busy => \A u \in Task :
                 holder'[u] = w /\ status'[u] \in InFlight => Owns(w, u)
      BY <2>1, <3>2, <3>7, NoneAssumption DEF TypeOK, Owns
    <3> QED BY <3>4, <3>5, <3>6, <3>7, <3>8 DEF Background
  <2>6. CASE Reject(i)
    <3> DEFINE C == CancelledWith(t)
               D == Decided(i, "REJECTED")
    <3>1. /\ SameSubjects(D, approvals) /\ D[i].status = "REJECTED"
          /\ \A j \in DOMAIN approvals \ {i} : D[j] = approvals[j]
      BY <2>3 DEF ApprovalStatus
    <3>2. /\ CancelAll(C) /\ approvals' = GatesClosed(C \ {t}, D)
          /\ UNCHANGED <<workerVars, stage, workVars>>
      BY <2>6 DEF Reject
    <3>3. C \subseteq {u \in Task : status[u] # "NONE"}
      BY <2>1, <2>2, TaskAssumption DEF CancelledWith, Open
    <3> HIDE DEF C, D
    <3>4. /\ SameSubjects(approvals', D)
          /\ \A j \in DOMAIN D :
               \/ approvals'[j] = D[j]
               \/ D[j].status = "PENDING_APPROVAL" /\ approvals'[j].status = "REJECTED"
      BY <3>1, <3>2, ClosedRows DEF SameSubjects
    <3>5. \A j \in DOMAIN approvals :
            \/ approvals'[j] = approvals[j]
            \/ approvals[j].status = "PENDING_APPROVAL" /\ approvals'[j].status = "REJECTED"
      BY <2>1, <3>1, <3>4 DEF SameSubjects
    <3>6. SameSubjects(approvals', approvals)
      BY <3>1, <3>4 DEF SameSubjects
    <3> QED BY <3>2, <3>3, <3>5, <3>6, NoneAssumption
          DEF SameSubjects, Background, Live, CancelAll, workerVars, workVars, InFlight, Owns
  <2> QED BY <1>8, <2>4, <2>5, <2>6 DEF Decide
<1> QED BY <1>3, <1>4, <1>5, <1>6, <1>7, <1>8, OwnerNext DEF OwnerNext

\* The calls of the workers and the reaper's.
LEMMA WorkerBackground ==
  ASSUME IInv, NEW w \in Worker,
         \/ RegisterWorker(w)
         \/ ReapOnce({w})
         \/ pc[w] \notin Busy /\ \E t \in Task : Claim(w, t)
         \/ \E t \in Task, to \in WorkerTargets \ {"COMPLETED"} : Transition(w, t, to)
         \/ \E t \in Task : stage[t] = "implement" /\ Review(w, t)
  PROVE  Background
<1> USE NoneAssumption DEF IInv, TypeOK, Background, Live, Owns, InFlight
<1>1. CASE RegisterWorker(w)
  BY <1>1 DEF RegisterWorker, RequeueTasksOf, Requeued, workVars
<1>2. CASE ReapOnce({w})
  BY <1>2 DEF ReapOnce, RequeueTasksOf, Requeued, workVars
<1>3. ASSUME pc[w] \notin Busy, NEW t \in Task, Claim(w, t) PROVE Background
  BY <1>3 DEF Claim, Claimable, workerVars
<1>4. ASSUME NEW t \in Task, NEW to \in WorkerTargets \ {"COMPLETED"}, Transition(w, t, to)
      PROVE  Background
  BY <1>4 DEF Transition, Move, WorkerTargets, workerVars, workVars
<1>5. ASSUME NEW t \in Task, stage[t] = "implement", Review(w, t) PROVE Background
  BY <1>5 DEF Review, Move, workerVars
<1> QED BY <1>1, <1>2, <1>3, <1>4, <1>5

\* A new commit has no author yet.
LEMMA NewCommitFresh ==
  ASSUME Fresh # {} PROVE NewCommit \in Commit /\ author[NewCommit] = NoTask
BY DEF Fresh, NewCommit

\* There is one approved version of a task, and a human approved it.
LEMMA VersionApproved ==
  ASSUME IInv, NEW t \in Task, Approved(t, MergeGate) # {}
  PROVE  /\ ApprovedVersion(t, MergeGate) \in Commit \cup {NoCommit}
         /\ ApprovedFor(t, ApprovedVersion(t, MergeGate))
<1>1. PICK i \in Approved(t, MergeGate) : TRUE
  OBVIOUS
<1>2. i \in DOMAIN approvals /\ approvals[i] \in ApprovalRow
  BY <1>1, RowTask DEF IInv, Approved, ApprovalIds
<1>3. Approved(t, MergeGate) = {i}
  BY <1>1 DEF IInv, GateInv, OneLiveGate, Approved, ApprovalIds
<1>4. i \in Nat
  BY <1>2 DEF IInv, TypeOK
<1>5. ApprovedVersion(t, MergeGate) = approvals[i].version
  BY <1>3, <1>4 DEF ApprovedVersion
<1> QED BY <1>1, <1>2, <1>5 DEF ApprovalRow, ApprovedFor, Approved, ApprovalIds

\* The holder that is to merge finds the approval: the merge gate is never opened
\* from the merge stage, without a commit.
LEMMA ApprovalFound ==
  ASSUME IInv, BusyInv, StageInv, NEW w \in Worker, pc[w] = "askApproved", Owns(w, job[w])
  PROVE  Approved(job[w], MergeGate) # {}
<1>1. job[w] \in Task /\ stage[job[w]] = "merge" /\ status[job[w]] \in InFlight
  BY DEF BusyInv, Busy, StageInv, Merging, Owns
<1> QED BY <1>1 DEF IInv, GateInv, MergeStageApproved, InFlight

\* What ToSet makes of a sequence.
LEMMA ToSetIn ==
  ASSUME NEW S, NEW s \in Seq(S), NEW e \in S
  PROVE  /\ e \in ToSet(s) <=> \E k \in DOMAIN s : s[k] = e
         /\ ToSet(s) \subseteq S
BY DEF ToSet

\* The last element of a sequence that is not empty.
LEMMA LastIn ==
  ASSUME NEW S, NEW s \in Seq(S), s # <<>>
  PROVE  Last(s) \in S /\ Last(s) = s[Len(s)] /\ Len(s) \in DOMAIN s
BY DEF Last

\* Appending, one element at a time.
LEMMA Appended ==
  ASSUME NEW S, NEW s \in Seq(S), NEW e \in S
  PROVE  /\ Append(s, e) \in Seq(S) /\ Append(s, e) # <<>>
         /\ Len(Append(s, e)) = Len(s) + 1 /\ Last(Append(s, e)) = e
         /\ DOMAIN Append(s, e) = DOMAIN s \cup {Len(s) + 1}
         /\ Len(s) + 1 \notin DOMAIN s /\ Append(s, e)[Len(s) + 1] = e
         /\ \A k \in DOMAIN s : Append(s, e)[k] = s[k]
BY DEF Last

\* A prefix is no longer, and a prefix of the same length is the sequence.
LEMMA PrefixLength ==
  ASSUME NEW S, NEW s \in Seq(S), NEW t \in Seq(S), IsPrefix(s, t)
  PROVE  /\ Len(s) <= Len(t)
         /\ \A k \in DOMAIN s : k \in DOMAIN t /\ t[k] = s[k]
         /\ Len(t) <= Len(s) => s = t
BY DEF IsPrefix

\* Push of the default branch: nothing is lost, and the approved commit is in.
LEMMA MainGrows ==
  ASSUME RunTypeOK, NEW w \in Worker, sha[w] \in Commit, PushMain(w)
  PROVE  /\ main' \in Seq(Commit) /\ main' # <<>>
         /\ Len(main) <= Len(main')
         /\ \A k \in DOMAIN main : k \in DOMAIN main' /\ main'[k] = main[k]
         /\ \E k \in DOMAIN main' : main'[k] = sha[w]
         /\ \/ main' = main
            \/ /\ DOMAIN main' = DOMAIN main \cup {Len(main) + 1}
               /\ main'[Len(main) + 1] = sha[w]
               /\ \A k \in DOMAIN main : main[k] # sha[w]
<1>1. main \in Seq(Commit)
  BY DEF RunTypeOK
<1>2. CASE sha[w] \in ToSet(main)
  <2>1. main' = main
    BY <1>2 DEF PushMain
  <2>2. PICK k \in DOMAIN main : main[k] = sha[w]
    BY <1>1, <1>2, ToSetIn
  <2> QED BY <1>1, <2>1, <2>2
<1>3. CASE sha[w] \notin ToSet(main)
  <2>1. main' = Append(main, sha[w])
    BY <1>3 DEF PushMain
  <2>2. \A k \in DOMAIN main : main[k] # sha[w]
    BY <1>1, <1>3, ToSetIn
  <2>3. Len(main) <= Len(main')
    BY <1>1, <2>1
  <2> QED BY <1>1, <2>1, <2>2, <2>3, Appended
<1> QED BY <1>2, <1>3

-----------------------------------------------------------------------------
(***************************************************************************)
(* Types, and the steps as steps of TaskLifecycle.                         *)
(***************************************************************************)

\* The types hold initially.
LEMMA RunTypeInit == RunInit => RunTypeOK
BY DEF RunInit, RunTypeOK

\* A worker that is reset keeps its types.
LEMMA ResetTypes ==
  ASSUME RunTypeOK, NEW w \in Worker, NEW l \in {"down", "idle"}, Reset(w, l),
         cancelReply' \in [Worker -> Task \cup {NoTask}], UNCHANGED remoteVars
  PROVE  RunTypeOK'
<1>1. <<>> \in Seq(Commit)
  OBVIOUS
<1>2. tip' \in [Worker -> Seq(Commit)]
  BY <1>1 DEF RunTypeOK, Reset
<1> QED BY <1>2 DEF RunTypeOK, Reset, Goto, remoteVars

\* Every step keeps the worker's and the remote's variables in their types.
LEMMA RunTypeStep ==
  ASSUME RunInv, [RunNext]_allVars PROVE RunTypeOK'
<1> USE DEF RunTypeOK, Kept, Goto, localVars, remoteVars
<1>0. RunTypeOK /\ BusyInv /\ TipInv /\ MergeInv /\ IInv
  BY DEF RunInv
<1>1. CASE Owner \/ UNCHANGED allVars
  BY <1>0, <1>1 DEF Owner, allVars
<1>2. ASSUME NEW w \in Worker,
             Start(w) \/ StepFails(w) \/ CancelArrives(w) \/ LoseClaim(w) \/ Reap(w)
      PROVE  RunTypeOK'
  BY <1>0, <1>2 DEF Start, StepFails, CancelArrives, LoseClaim, Reap, Busy
<1>3. ASSUME NEW w \in Worker, Beat(w) PROVE RunTypeOK'
  BY <1>0, <1>3 DEF Beat, BusyInv
<1>4. ASSUME NEW w \in Worker, ClaimTask(w) PROVE RunTypeOK'
  BY <1>0, <1>4 DEF ClaimTask, Busy
<1>5. ASSUME NEW w \in Worker, Run(w) PROVE RunTypeOK'
  <2>1. job[w] \in Task
    BY <1>0, <1>5 DEF Run, BusyInv, Busy
  <2>2. branch[job[w]] \in Seq(Commit) /\ Len(main) \in Nat
    BY <1>0, <2>1
  <2> QED BY <1>0, <1>5, <2>2 DEF Run, SetStatus, Busy
<1>6. ASSUME NEW w \in Worker, Develop(w) \/ StartReview(w) \/ MergeLocally(w) PROVE RunTypeOK'
  BY <1>0, <1>6 DEF Develop, StartReview, MergeLocally, SetStatus, Busy
<1>7. ASSUME NEW w \in Worker, CommitWork(w) PROVE RunTypeOK'
  <2>1. job[w] \in Task /\ NewCommit \in Commit
    BY <1>0, <1>7, NewCommitFresh DEF CommitWork, BusyInv, Busy
  <2>2. Append(tip[w], NewCommit) \in Seq(Commit)
    BY <1>0, <2>1, Appended
  <2> QED BY <1>0, <1>7, <2>1, <2>2 DEF CommitWork, Busy
<1>8. ASSUME NEW w \in Worker, pc[w] = "push", PushBranch(w) PROVE branch' \in [Task -> Seq(Commit)]
  BY <1>0, <1>8 DEF PushBranch
<1>9. ASSUME NEW w \in Worker, Push(w) PROVE RunTypeOK'
  BY <1>0, <1>8, <1>9 DEF Push, PushBranch, Busy
<1>10. ASSUME NEW w \in Worker,
              ReviewRejects(w) \/ Park(w) \/ Report(w) \/ ReportFailure(w) \/ LoseFailure(w) \/ Crash(w)
       PROVE  RunTypeOK'
  <2>1. PICK l \in {"down", "idle"} : Reset(w, l)
    BY <1>10 DEF ReviewRejects, Park, Report, ReportFailure, LoseFailure, Crash, Ended
  <2>2. cancelReply' \in [Worker -> Task \cup {NoTask}] /\ UNCHANGED remoteVars
    BY <1>0, <1>10 DEF ReviewRejects, Park, Report, ReportFailure, LoseFailure, Crash, SendBack,
       AskMerge, ReportMerged
  <2> QED BY <1>0, <2>1, <2>2, ResetTypes
<1>11. ASSUME NEW w \in Worker, ReviewPasses(w) PROVE RunTypeOK'
  BY <1>0, <1>11 DEF ReviewPasses, Busy
<1>12. ASSUME NEW w \in Worker, GetApproved(w) PROVE RunTypeOK'
  <2>1. job[w] \in Task
    BY <1>0, <1>12 DEF GetApproved, BusyInv, Busy
  <2>2. CASE Approved(job[w], MergeGate) # {}
    <3>1. ApprovedVersion(job[w], MergeGate) \in Commit \cup {NoCommit}
      BY <1>0, <2>1, <2>2, VersionApproved
    <3> QED BY <1>0, <1>12, <2>2, <3>1 DEF GetApproved, Busy
  <2>3. CASE Approved(job[w], MergeGate) = {}
    <3>1. Reset(w, "idle") /\ cancelReply' = cancelReply /\ UNCHANGED remoteVars
      BY <1>12, <2>3 DEF GetApproved, Ended
    <3> QED BY <1>0, <3>1, ResetTypes
  <2> QED BY <2>2, <2>3
<1>13. ASSUME NEW w \in Worker, pc[w] = "mergePush", PushMain(w)
       PROVE  main' \in Seq(Commit) /\ main' # <<>>
  BY <1>0, <1>13, MainGrows DEF MergeInv
<1>14. ASSUME NEW w \in Worker, MergePush(w) PROVE RunTypeOK'
  <2>1. main' \in Seq(Commit) /\ Last(main') \in Commit
    BY <1>13, <1>14, LastIn DEF MergePush
  <2> QED BY <1>0, <1>14, <2>1 DEF MergePush, PushMain, Busy
<1>15. ASSUME NEW w \in Worker, LoseReply(w) PROVE RunTypeOK'
  <2>1. branch' \in [Task -> Seq(Commit)] /\ main' \in Seq(Commit) /\ author' = author
    BY <1>0, <1>8, <1>13, <1>15
       DEF LoseReply, SetStatus, PushBranch, PushMain, SendBack, AskMerge, ReportMerged
  <2> QED BY <1>0, <1>15, <2>1 DEF LoseReply, Busy
<1> QED
  BY <1>1, <1>2, <1>3, <1>4, <1>5, <1>6, <1>7, <1>9, <1>10, <1>11, <1>12, <1>14, <1>15
     DEF RunNext, Advance

\* Every step of the composed system is a step of the control plane, or none.
LEMMA NextStep ==
  ASSUME RunInv, [RunNext]_allVars PROVE [Next]_vars
<1>0. RunTypeOK /\ BusyInv /\ StageInv /\ TipInv /\ MergeInv /\ IInv
  BY DEF RunInv
<1>1. ASSUME NEW w \in Worker, WorkerNext(w) PROVE Next
  BY <1>1 DEF Next
<1>2. ASSUME NEW w \in Worker, pc[w] \in Busy PROVE job[w] \in Task
  BY <1>0, <1>2 DEF BusyInv
<1>3. ASSUME NEW w \in Worker, NEW l \in Busy, pc[w] = l,
             NEW to \in {"RUNNING", "TESTING", "REVIEWING", "FAILED"}, Transition(w, job[w], to)
      PROVE  Next
  <2>1. job[w] \in Task /\ to \in WorkerTargets
    BY <1>2, <1>3 DEF WorkerTargets
  <2> QED BY <1>1, <1>3, <2>1 DEF WorkerNext
<1>4. ASSUME NEW w \in Worker, pc[w] = "askMerge", AskMerge(w) PROVE Next
  <2>1. job[w] \in Task /\ Last(tip[w]) \in Commit
    <3>1. tip[w] \in Seq(Commit) /\ tip[w] # <<>>
      BY <1>0, <1>4 DEF RunTypeOK, TipInv, Pushed
    <3> QED BY <1>2, <1>4, <3>1, LastIn DEF Busy
  <2>2. Authorize(w, job[w], MergeGate, "merge", Last(tip[w])) /\ MergeGate \in Gate
    BY <1>4 DEF AskMerge, Authorize
  <2> DEFINE c == <<MergeGate, "merge">>
  <2>3. c \in GatedCall /\ c[1] = MergeGate /\ c[2] = "merge"
    BY <2>2, RunCallAssumption
  <2> HIDE DEF c
  <2>4. Authorize(w, job[w], c[1], c[2], Last(tip[w]))
    BY <2>2, <2>3
  <2> QED BY <1>1, <2>1, <2>3, <2>4 DEF WorkerNext
<1>5. ASSUME NEW w \in Worker, pc[w] = "report", ReportMerged(w) PROVE Next
  <2>1. job[w] \in Task /\ sha[w] \in Commit
    BY <1>0, <1>2, <1>5 DEF MergeInv, Busy
  <2> QED BY <1>1, <1>5, <2>1 DEF WorkerNext, ReportMerged
<1>6. ASSUME NEW w \in Worker, pc[w] = "verdict", SendBack(w) PROVE Next
  <2>1. job[w] \in Task
    BY <1>2, <1>6 DEF Busy
  <2> QED BY <1>1, <1>6, <2>1 DEF WorkerNext, SendBack
<1>7. ASSUME NEW w \in Worker, Start(w) \/ ClaimTask(w) \/ LoseClaim(w) PROVE Next
  BY <1>1, <1>7 DEF Start, ClaimTask, LoseClaim, WorkerNext
<1>8. ASSUME NEW w \in Worker, Reap(w) PROVE Next
  BY <1>8 DEF Reap, Next
<1>9. ASSUME NEW w \in Worker, Beat(w) PROVE [Next]_vars
  <2>1. CASE wstatus[w] = "offline"
    BY <1>1, <1>9, <2>1 DEF Beat, WorkerNext, Heartbeat
  <2>2. CASE wstatus[w] # "offline"
    <3>1. wstatus[w] = "online" /\ wstatus \in [Worker -> {"none", "online", "offline"}]
      BY <1>0, <1>9, <2>2 DEF IInv, TypeOK, BusyInv, Beat
    <3> QED BY <1>9, <3>1 DEF Beat, vars, workVars
  <2> QED BY <2>1, <2>2
<1>10. ASSUME NEW w \in Worker, GetApproved(w) PROVE UNCHANGED vars
  <2>1. CASE Approved(job[w], MergeGate) # {}
    BY <1>10, <2>1 DEF GetApproved
  <2>2. CASE Approved(job[w], MergeGate) = {}
    BY <1>0, <1>10, <2>2, ApprovalFound DEF GetApproved, Authorize
  <2> QED BY <2>1, <2>2
<1>11. ASSUME NEW w \in Worker, LoseReply(w) PROVE [Next]_vars
  <2>1. \/ pc[w] = "claimed" /\ Transition(w, job[w], "RUNNING")
        \/ pc[w] = "develop" /\ Transition(w, job[w], "TESTING")
        \/ pc[w] = "merging" /\ Transition(w, job[w], "TESTING")
        \/ pc[w] = "review" /\ Transition(w, job[w], "REVIEWING")
        \/ PushBranch(w) \/ PushMain(w)
        \/ pc[w] = "verdict" /\ SendBack(w)
        \/ pc[w] = "askMerge" /\ AskMerge(w)
        \/ pc[w] = "report" /\ ReportMerged(w)
    BY <1>11 DEF LoseReply, SetStatus
  <2> QED BY <1>3, <1>4, <1>5, <1>6, <2>1 DEF Busy, PushBranch, PushMain
<1>12. ASSUME NEW w \in Worker, Run(w) \/ Develop(w) \/ StartReview(w) \/ MergeLocally(w)
                                  \/ ReportFailure(w)
       PROVE  [Next]_vars
  <2>1. \/ pc[w] = "claimed" /\ Transition(w, job[w], "RUNNING")
        \/ pc[w] = "develop" /\ Transition(w, job[w], "TESTING")
        \/ pc[w] = "merging" /\ Transition(w, job[w], "TESTING")
        \/ pc[w] = "review" /\ Transition(w, job[w], "REVIEWING")
        \/ pc[w] = "failing" /\ Transition(w, job[w], "FAILED")
        \/ UNCHANGED vars
    BY <1>12 DEF Run, Develop, StartReview, MergeLocally, ReportFailure, SetStatus
  <2> QED BY <1>3, <2>1 DEF Busy
<1>13. ASSUME NEW w \in Worker, CommitWork(w) \/ Push(w) \/ ReviewPasses(w) \/ MergePush(w)
                                  \/ StepFails(w) \/ CancelArrives(w) \/ LoseFailure(w) \/ Crash(w)
       PROVE  UNCHANGED vars
  BY <1>13 DEF CommitWork, Push, ReviewPasses, MergePush, StepFails, CancelArrives, LoseFailure, Crash,
     PushBranch, PushMain
<1>14. ASSUME NEW w \in Worker, ReviewRejects(w) \/ Park(w) \/ Report(w) PROVE Next
  BY <1>4, <1>5, <1>6, <1>14 DEF ReviewRejects, Park, Report
<1>15. CASE Owner
  BY <1>15 DEF Owner, Next
<1>16. CASE UNCHANGED allVars
  BY <1>16 DEF allVars
<1> HIDE DEF Next
<1> QED
  BY <1>7, <1>8, <1>9, <1>10, <1>11, <1>12, <1>13, <1>14, <1>15, <1>16 DEF RunNext, Advance

-----------------------------------------------------------------------------
(***************************************************************************)
(* The shapes of a step: what it does to the worker that takes it.         *)
(***************************************************************************)

\* A worker's process that does not move, or moves away from its task.
Kept4(u) == job'[u] = job[u] /\ tip'[u] = tip[u] /\ seen'[u] = seen[u] /\ sha'[u] = sha[u]
Rests(u) == pc'[u] = pc[u] /\ Kept4(u)
Fails(u) == pc[u] \in Busy /\ pc'[u] = "failing" /\ Kept4(u)
Starts(u) == pc[u] = "down" /\ pc'[u] = "idle" /\ wstatus'[u] # "none" /\ Kept4(u)
Ends(u) ==
  /\ pc[u] # "down" /\ pc'[u] \in {"idle", "down"}
  /\ job'[u] = NoTask /\ tip'[u] = <<>> /\ seen'[u] = 0 /\ sha'[u] = NoCommit
Retreats(u) == Rests(u) \/ Fails(u) \/ Starts(u) \/ Ends(u)

\* The moves along its run that write nothing at the remote.
Claims(w) ==
  /\ pc[w] = "idle" /\ pc'[w] = "claimed"
  /\ job'[w] \in Task /\ status'[job'[w]] # "NONE"
  /\ tip'[w] = tip[w] /\ seen'[w] = seen[w] /\ sha'[w] = sha[w]
Runs(w) ==
  /\ pc[w] = "claimed" /\ Owns(w, job[w])
  /\ pc'[w] = IF stage[job[w]] = "merge" THEN "askApproved" ELSE "develop"
  /\ tip'[w] = branch[job[w]] /\ seen'[w] = Len(main)
  /\ job'[w] = job[w] /\ sha'[w] = sha[w]
Proceeds(w) ==
  /\ <<pc[w], pc'[w]>> \in {<<"develop", "commit">>, <<"review", "verdict">>,
                            <<"verdict", "askMerge">>, <<"merging", "mergePush">>}
  /\ Kept4(w)
Finds(w) ==
  /\ pc[w] = "askApproved" /\ pc'[w] = "merging" /\ ApprovedFor(job[w], sha'[w])
  /\ job'[w] = job[w] /\ tip'[w] = tip[w] /\ seen'[w] = seen[w]

Alone(w) == \A u \in Worker \ {w} : Rests(u)

Shape ==
  \/ Background /\ UNCHANGED remoteVars /\ \A u \in Worker : Retreats(u)
  \/ \E w \in Worker :
       \/ /\ Background /\ UNCHANGED remoteVars /\ Alone(w)
          /\ Claims(w) \/ Runs(w) \/ Proceeds(w) \/ Finds(w)
       \/ CommitWork(w) /\ Alone(w)
       \/ /\ pc[w] = "push" /\ PushBranch(w) /\ Alone(w)
          /\ Fails(w) \/ (pc'[w] \in {"review", "askMerge"} /\ Kept4(w))
       \/ /\ pc[w] = "mergePush" /\ PushMain(w) /\ Alone(w)
          /\ \/ Fails(w)
             \/ /\ pc'[w] = "report" /\ sha'[w] = Last(main')
                /\ job'[w] = job[w] /\ tip'[w] = tip[w] /\ seen'[w] = seen[w]
       \/ pc[w] = "askMerge" /\ AskMerge(w) /\ \A u \in Worker : Retreats(u)
       \/ pc[w] = "report" /\ ReportMerged(w) /\ \A u \in Worker : Retreats(u)

\* Every step has one of the shapes the parts below are proved from.
LEMMA ShapeStep ==
  ASSUME RunInv, [RunNext]_allVars PROVE Shape
<1>0. RunTypeOK /\ BusyInv /\ StageInv /\ IInv
  BY DEF RunInv
<1> USE DEF RunTypeOK, Kept4, Rests, Fails, Starts, Ends, Retreats, Kept, Goto
<1> DEFINE Quiet == Background /\ UNCHANGED remoteVars /\ \A u \in Worker : Retreats(u)
           Moves(w) == /\ Background /\ UNCHANGED remoteVars /\ Alone(w)
                       /\ Claims(w) \/ Runs(w) \/ Proceeds(w) \/ Finds(w)
<1>1. CASE Owner
  BY <1>0, <1>1, OwnerBackground DEF Owner, localVars, Shape
<1>2. CASE UNCHANGED allVars
  BY <1>2, UnchangedBackground DEF allVars, localVars, Shape
<1>3. ASSUME NEW w \in Worker, UNCHANGED <<vars, remoteVars>>,
             \/ StepFails(w) \/ LoseFailure(w) \/ Crash(w) \/ CancelArrives(w)
      PROVE  Quiet
  BY <1>0, <1>3, UnchangedBackground
     DEF StepFails, LoseFailure, Crash, CancelArrives, Reset, Ended, Busy, Working
<1>4. ASSUME NEW w \in Worker, Start(w) PROVE Quiet
  <2>1. Background
    BY <1>0, <1>4, WorkerBackground DEF Start
  <2>2. wstatus'[w] = "online"
    BY <1>0, <1>4 DEF Start, RegisterWorker, IInv, TypeOK
  <2> QED BY <1>0, <1>4, <2>1, <2>2 DEF Start
<1>5. ASSUME NEW w \in Worker, Reap(w) PROVE Quiet
  <2>1. Background
    BY <1>0, <1>5, WorkerBackground DEF Reap
  <2> QED BY <1>0, <1>5, <2>1 DEF Reap, localVars
<1>6. ASSUME NEW w \in Worker, LoseClaim(w) PROVE Quiet
  <2>1. Background
    BY <1>0, <1>6, WorkerBackground DEF LoseClaim, Busy
  <2> QED BY <1>0, <1>6, <2>1 DEF LoseClaim, localVars
<1>7. ASSUME NEW w \in Worker, Beat(w) PROVE Quiet
  <2>1. Background
    BY <1>0, <1>7 DEF Beat, Background, Live, Owns, workVars, IInv, TypeOK
  <2> QED BY <1>0, <1>7, <2>1 DEF Beat
\* A status report, as it arrives at the server.
<1>8. ASSUME NEW w \in Worker, pc[w] \in Busy,
             NEW to \in {"RUNNING", "TESTING", "REVIEWING", "FAILED"}, Transition(w, job[w], to)
      PROVE  Background
  <2>1. job[w] \in Task /\ to \in WorkerTargets \ {"COMPLETED"}
    BY <1>0, <1>8 DEF BusyInv, WorkerTargets
  <2> QED BY <1>0, <1>8, <2>1, WorkerBackground
<1>9. ASSUME NEW w \in Worker, pc[w] = "verdict", SendBack(w) PROVE Background
  <2>1. job[w] \in Task /\ stage[job[w]] = "implement" /\ Review(w, job[w])
    BY <1>0, <1>9 DEF BusyInv, Busy, StageInv, Implementing, Pushed, SendBack, Review
  <2> QED BY <1>0, <2>1, WorkerBackground
<1>10. ASSUME NEW w \in Worker, ReportFailure(w) PROVE Quiet
  <2>1. Background
    BY <1>8, <1>10, UnchangedBackground DEF ReportFailure, Busy
  <2> QED BY <1>0, <1>10, <2>1 DEF ReportFailure, Reset, Ended
<1>11. ASSUME NEW w \in Worker, ReviewRejects(w) PROVE Quiet
  <2>1. Background
    BY <1>9, <1>11 DEF ReviewRejects
  <2> QED BY <1>0, <1>11, <2>1 DEF ReviewRejects, SendBack, Reset, Ended
<1>12. ASSUME NEW w \in Worker, ClaimTask(w) PROVE Moves(w)
  <2>1. PICK t \in Task : Claim(w, t) /\ job' = [job EXCEPT ![w] = t]
    BY <1>12 DEF ClaimTask
  <2>2. Background
    BY <1>0, <1>12, <2>1, WorkerBackground DEF ClaimTask, Busy
  <2>3. status'[t] # "NONE"
    BY <1>0, <2>1 DEF Claim, IInv, TypeOK
  <2>4. Claims(w)
    BY <1>0, <1>12, <2>1, <2>3 DEF ClaimTask, Claims
  <2> QED BY <1>0, <1>12, <2>1, <2>2, <2>4 DEF ClaimTask, Alone
<1>13. ASSUME NEW w \in Worker, Run(w) PROVE Moves(w)
  <2>1. Background /\ Owns(w, job[w])
    BY <1>8, <1>13 DEF Run, SetStatus, Busy, Transition
  <2> QED BY <1>0, <1>13, <2>1 DEF Run, Runs, SetStatus, Alone
<1>14. ASSUME NEW w \in Worker, Develop(w) \/ MergeLocally(w) PROVE Moves(w)
  <2>1. Background
    BY <1>8, <1>14 DEF Develop, MergeLocally, SetStatus, Busy
  <2> QED BY <1>0, <1>14, <2>1 DEF Develop, MergeLocally, SetStatus, Proceeds, Alone
<1>15. ASSUME NEW w \in Worker, StartReview(w) \/ ReviewPasses(w) PROVE Moves(w)
  <2>1. Background
    BY <1>8, <1>15, UnchangedBackground DEF StartReview, ReviewPasses, SetStatus, Busy
  <2> QED BY <1>0, <1>15, <2>1 DEF StartReview, ReviewPasses, SetStatus, Proceeds, Alone
<1>16. ASSUME NEW w \in Worker, GetApproved(w) PROVE Moves(w)
  <2>1. job[w] \in Task
    BY <1>0, <1>16 DEF GetApproved, BusyInv, Busy
  <2>2. Approved(job[w], MergeGate) # {}
    BY <1>0, <1>16, ApprovalFound DEF GetApproved, Authorize
  <2>3. ApprovedFor(job[w], ApprovedVersion(job[w], MergeGate)) /\ Background
    BY <1>0, <1>16, <2>1, <2>2, VersionApproved, UnchangedBackground DEF GetApproved
  <2> QED BY <1>0, <1>16, <2>2, <2>3 DEF GetApproved, Finds, Alone
<1>17. ASSUME NEW w \in Worker, CommitWork(w) PROVE Shape
  BY <1>0, <1>17 DEF CommitWork, Alone, Shape
<1>18. ASSUME NEW w \in Worker, Push(w) PROVE Shape
  BY <1>0, <1>18 DEF Push, Alone, Shape
<1>19. ASSUME NEW w \in Worker, MergePush(w) PROVE Shape
  <2>1. /\ pc[w] = "mergePush" /\ PushMain(w) /\ Alone(w)
        /\ pc'[w] = "report" /\ sha'[w] = Last(main')
        /\ job'[w] = job[w] /\ tip'[w] = tip[w] /\ seen'[w] = seen[w]
    BY <1>0, <1>19 DEF MergePush, Alone
  <2> QED BY <2>1 DEF Shape
<1>20. ASSUME NEW w \in Worker, Park(w) PROVE Shape
  BY <1>0, <1>20 DEF Park, Reset, Ended, Shape
<1>21. ASSUME NEW w \in Worker, Report(w) PROVE Shape
  BY <1>0, <1>21 DEF Report, Reset, Ended, Shape
<1>22. ASSUME NEW w \in Worker, LoseReply(w) PROVE Shape
  <2>1. Alone(w) /\ (pc[w] \in Busy => Fails(w)) /\ (\A u \in Worker : pc[w] \in Busy => Retreats(u))
    BY <1>0, <1>22 DEF LoseReply, Alone, Busy
  <2>2. CASE PushBranch(w) /\ pc[w] = "push"
    BY <2>1, <2>2 DEF Shape, Busy
  <2>3. CASE PushMain(w) /\ pc[w] = "mergePush"
    BY <2>1, <2>3 DEF Shape, Busy
  <2>4. CASE AskMerge(w) /\ pc[w] = "askMerge"
    BY <2>1, <2>4 DEF Shape, Busy
  <2>5. CASE ReportMerged(w) /\ pc[w] = "report"
    BY <2>1, <2>5 DEF Shape, Busy
  <2>6. CASE SendBack(w) /\ pc[w] = "verdict"
    BY <1>9, <2>1, <2>6 DEF Shape, SendBack, Busy
  <2>7. CASE \/ pc[w] \in {"claimed"} /\ SetStatus(w, "RUNNING")
             \/ pc[w] \in {"develop", "merging"} /\ SetStatus(w, "TESTING")
             \/ pc[w] = "review" /\ SetStatus(w, "REVIEWING")
    BY <1>8, <2>1, <2>7 DEF Shape, SetStatus, Busy
  <2> QED BY <1>22, <2>2, <2>3, <2>4, <2>5, <2>6, <2>7 DEF LoseReply
<1>23. ASSUME Quiet PROVE Shape
  BY <1>23 DEF Shape
<1>24. ASSUME NEW w \in Worker, Moves(w) PROVE Shape
  BY <1>24 DEF Shape
<1>25. ASSUME NEW w \in Worker, StepFails(w) \/ LoseFailure(w) \/ Crash(w) \/ CancelArrives(w)
       PROVE  UNCHANGED <<vars, remoteVars>>
  BY <1>25 DEF StepFails, LoseFailure, Crash, CancelArrives
<1> HIDE DEF Quiet, Moves
<1> QED
  BY <1>1, <1>2, <1>3, <1>4, <1>5, <1>6, <1>7, <1>10, <1>11, <1>12, <1>13, <1>14, <1>15, <1>16,
     <1>17, <1>18, <1>19, <1>20, <1>21, <1>22, <1>23, <1>24, <1>25 DEF RunNext, Advance

\* What a push of main leaves alone at the server; the same for the branch.
LEMMA PushesKeep ==
  ASSUME NEW w \in Worker, PushMain(w) \/ PushBranch(w) \/ CommitWork(w)
  PROVE  UNCHANGED vars /\ Background
BY UnchangedBackground DEF PushMain, PushBranch, CommitWork

-----------------------------------------------------------------------------
(***************************************************************************)
(* Each part of the invariant is kept.                                     *)
(***************************************************************************)

\* Every step keeps the facts about who is busy with what.
LEMMA BusyStep ==
  ASSUME RunInv, Shape, RunTypeOK' PROVE BusyInv'
<1>0. RunTypeOK /\ BusyInv /\ IInv
  BY DEF RunInv
<1> USE DEF Kept4, Rests, Fails, Starts, Ends, Retreats, RunTypeOK, BusyInv
<1>1. ASSUME \A t \in Task : status[t] # "NONE" => status'[t] # "NONE",
             \A u \in Worker : wstatus[u] # "none" => wstatus'[u] # "none",
             \A u \in Worker : Retreats(u)
      PROVE  BusyInv'
  <2> SUFFICES ASSUME NEW u \in Worker
               PROVE  /\ pc'[u] \in Busy => job'[u] \in Task /\ status'[job'[u]] # "NONE"
                      /\ pc'[u] \notin Busy => job'[u] = NoTask
                      /\ pc'[u] # "down" => wstatus'[u] # "none"
    OBVIOUS
  <2>1. CASE Ends(u)
    BY <1>0, <1>1, <2>1 DEF Busy
  <2>2. CASE Fails(u)
    BY <1>0, <1>1, <2>2 DEF Busy
  <2>3. CASE Starts(u)
    BY <1>0, <1>1, <2>3 DEF Busy
  <2>4. CASE Rests(u)
    BY <1>0, <1>1, <2>4
  <2> QED BY <1>1, <2>1, <2>2, <2>3, <2>4
<1>2. ASSUME Background, \A u \in Worker : Retreats(u) PROVE BusyInv'
  <2>1. /\ \A t \in Task : status[t] # "NONE" => status'[t] # "NONE"
        /\ \A u \in Worker : wstatus[u] # "none" => wstatus'[u] # "none"
    BY <1>2 DEF Background
  <2> QED BY <1>1, <1>2, <2>1
<1>3. ASSUME NEW w \in Worker, Background, Alone(w),
             \/ Claims(w) \/ Runs(w) \/ Proceeds(w) \/ Finds(w) \/ Fails(w)
             \/ pc[w] \in Busy /\ pc'[w] \in Busy /\ job'[w] = job[w]
      PROVE  BusyInv'
  BY <1>0, <1>3 DEF Background, Alone, Claims, Runs, Proceeds, Finds, Busy
<1>4. ASSUME NEW w \in Worker, AskMerge(w) \/ ReportMerged(w)
      PROVE  /\ UNCHANGED wstatus
             /\ \A t \in Task : status[t] # "NONE" => status'[t] # "NONE"
  BY <1>0, <1>4 DEF IInv, TypeOK, AskMerge, ReportMerged, Authorize, Complete, Move, workerVars
<1>5. ASSUME NEW w \in Worker, CommitWork(w), Alone(w) PROVE BusyInv'
  <2>1. pc[w] \in Busy /\ pc'[w] \in Busy /\ job'[w] = job[w]
    BY <1>0, <1>5 DEF CommitWork, Busy, Goto
  <2> QED BY <1>3, <1>5, <2>1, PushesKeep
<1>6. ASSUME NEW w \in Worker, pc[w] \in {"push", "mergePush"}, PushBranch(w) \/ PushMain(w), Alone(w),
             Fails(w) \/ (pc'[w] \in {"review", "askMerge", "report"} /\ job'[w] = job[w])
      PROVE  BusyInv'
  <2>1. Background
    BY <1>6, PushesKeep
  <2> QED BY <1>3, <1>6, <2>1 DEF Busy
<1> QED BY <1>1, <1>2, <1>3, <1>4, <1>5, <1>6 DEF Shape

\* Every step keeps a holder where its stage allows.
LEMMA StageStep ==
  ASSUME RunInv, Shape, IInv' PROVE StageInv'
<1>0. RunTypeOK /\ BusyInv /\ StageInv /\ TipInv /\ IInv
  BY DEF RunInv
<1> USE DEF Kept4, Rests, Fails, Starts, Ends, Retreats, BusyInv, StageInv, Live
<1>1. ASSUME Background PROVE \A i \in DOMAIN approvals' :
                                 /\ approvals'[i].gate = MergeGate
                                 /\ Live(i)' => stage'[approvals'[i].task] = "merge"
  <2>1. \A i \in DOMAIN approvals : approvals[i].task \in Task
    BY <1>0, RowTask DEF IInv
  <2> QED BY <1>0, <1>1, <2>1 DEF Background, MergeGate
\* The holder of a task keeps its stage.
<1>2. ASSUME Background, NEW u \in Worker, pc[u] \in Busy, holder'[job[u]] = u,
             status'[job[u]] \in InFlight
      PROVE  Owns(u, job[u]) /\ stage'[job[u]] = stage[job[u]] /\ job[u] \in Task
  BY <1>0, <1>2 DEF Background
<1>3. ASSUME Background, NEW u \in Worker, Retreats(u), pc'[u] \in Busy, Owns(u, job[u])'
      PROVE  /\ pc'[u] \in Implementing => stage'[job'[u]] = "implement"
             /\ pc'[u] \in Merging => stage'[job'[u]] = "merge"
  BY <1>0, <1>2, <1>3 DEF Owns, Busy, Implementing, Developing, Pushed, Merging
<1>4. ASSUME Background, \A u \in Worker : Retreats(u) PROVE StageInv'
  BY <1>1, <1>3, <1>4
<1>5. ASSUME NEW w \in Worker, Background, Alone(w),
             \/ Claims(w) \/ Runs(w) \/ Proceeds(w) \/ Finds(w) \/ Fails(w)
             \/ /\ <<pc[w], pc'[w]>> \in {<<"commit", "push">>, <<"push", "review">>,
                                          <<"push", "askMerge">>, <<"mergePush", "report">>}
                /\ job'[w] = job[w]
      PROVE  StageInv'
  <2>1. ASSUME pc'[w] \in Busy, Owns(w, job[w])', ~ Claims(w)
        PROVE  /\ pc'[w] \in Implementing => stage'[job'[w]] = "implement"
               /\ pc'[w] \in Merging => stage'[job'[w]] = "merge"
    <3>1. pc[w] \in Busy /\ job'[w] = job[w]
      BY <1>5, <2>1 DEF Runs, Proceeds, Finds, Busy
    <3>2. stage'[job[w]] = stage[job[w]] /\ Owns(w, job[w]) /\ stage[job[w]] \in {"implement", "merge"}
      BY <1>0, <1>2, <1>5, <2>1, <3>1 DEF Owns, IInv, TypeOK
    <3> QED BY <1>0, <1>5, <3>1, <3>2, <2>1
            DEF Runs, Proceeds, Finds, Implementing, Developing, Pushed, Merging
  <2>2. Claims(w) => pc'[w] \notin Implementing \cup Merging
    BY DEF Claims, Implementing, Developing, Pushed, Merging
  <2>3. ASSUME NEW u \in Worker, u # w PROVE Retreats(u)
    BY <1>5, <2>3 DEF Alone
  <2> QED BY <1>1, <1>3, <1>5, <2>1, <2>2, <2>3
<1>6. ASSUME NEW w \in Worker, CommitWork(w), Alone(w) PROVE StageInv'
  <2>1. <<pc[w], pc'[w]>> = <<"commit", "push">> /\ job'[w] = job[w]
    BY <1>0, <1>6 DEF CommitWork, Goto, RunTypeOK
  <2> QED BY <1>5, <1>6, <2>1, PushesKeep
<1>7. ASSUME NEW w \in Worker, pc[w] = "askMerge", AskMerge(w), \A u \in Worker : Retreats(u)
      PROVE  StageInv'
  <2> DEFINE t == job[w]
             v == Last(tip[w])
             new == Len(approvals) + 1
             row == [task |-> t, gate |-> MergeGate, version |-> v, status |-> "PENDING_APPROVAL"]
  <2>1. t \in Task /\ v \in Commit /\ approvals \in Seq(ApprovalRow)
    <3>1. tip[w] \in Seq(Commit) /\ tip[w] # <<>>
      BY <1>0, <1>7 DEF RunTypeOK, TipInv, Pushed
    <3> QED BY <1>0, <1>7, <3>1, LastIn DEF IInv, TypeOK, Busy
  <2>2. /\ approvals' = Append(approvals, row) /\ MergeGate \in Gate /\ Owns(w, t)
        /\ status' = [status EXCEPT ![t] = "WAITING_FOR_HUMAN"]
        /\ holder' = [holder EXCEPT ![t] = NoWorker]
        /\ stage' = [stage EXCEPT ![t] = "merge"]
    BY <1>7 DEF AskMerge, Authorize, Move, InFlight
  <2>3. row \in ApprovalRow
    BY <2>1, <2>2 DEF ApprovalRow, ApprovalStatus
  <2>4. /\ DOMAIN approvals' = DOMAIN approvals \cup {new} /\ new \notin DOMAIN approvals
        /\ approvals'[new] = row /\ \A i \in DOMAIN approvals : approvals'[i] = approvals[i]
    BY <2>1, <2>2, <2>3, AppendedRow
  <2>5. \A i \in DOMAIN approvals : approvals[i].task \in Task
    BY <1>0, RowTask DEF IInv
  <2>6. \A i \in DOMAIN approvals' :
          /\ approvals'[i].gate = MergeGate
          /\ Live(i)' => stage'[approvals'[i].task] = "merge"
    <3> HIDE DEF new
    <3> QED BY <1>0, <2>1, <2>2, <2>4, <2>5 DEF MergeGate, IInv, TypeOK
  <2>7. \A u \in Worker : pc'[u] \in Busy /\ Owns(u, job[u])' =>
          /\ pc'[u] \in Implementing => stage'[job'[u]] = "implement"
          /\ pc'[u] \in Merging => stage'[job'[u]] = "merge"
    <3> SUFFICES ASSUME NEW u \in Worker, pc'[u] \in Busy, Owns(u, job[u])'
                 PROVE  /\ pc'[u] \in Implementing => stage'[job'[u]] = "implement"
                        /\ pc'[u] \in Merging => stage'[job'[u]] = "merge"
      OBVIOUS
    <3>1. pc[u] \in Busy /\ job'[u] = job[u] /\ job[u] \in Task
      BY <1>0, <1>7 DEF Busy
    <3>2. job[u] # t /\ Owns(u, job[u]) /\ stage'[job[u]] = stage[job[u]]
      BY <1>0, <2>1, <2>2, <3>1, NoneAssumption DEF Owns, IInv, TypeOK
    <3> QED BY <1>0, <1>7, <3>1, <3>2 DEF Implementing, Developing, Pushed, Merging
  <2> QED BY <2>6, <2>7
<1>8. ASSUME NEW w \in Worker, pc[w] = "report", ReportMerged(w), \A u \in Worker : Retreats(u)
      PROVE  StageInv'
  <2>1. /\ approvals' = approvals /\ stage' = stage
        /\ status' = [status EXCEPT ![job[w]] = "COMPLETED"]
        /\ holder' = [holder EXCEPT ![job[w]] = NoWorker]
    BY <1>8 DEF ReportMerged, Complete, Move, InFlight
  <2>2. \A u \in Worker : pc[u] \in Busy /\ holder'[job[u]] = u /\ status'[job[u]] \in InFlight
                          => Owns(u, job[u])
    BY <1>0, <2>1, NoneAssumption DEF Owns, IInv, TypeOK, InFlight
  <2> QED BY <1>0, <1>8, <2>1, <2>2 DEF Owns, Busy, Implementing, Developing, Pushed, Merging
<1>9. ASSUME NEW w \in Worker, pc[w] \in {"push", "mergePush"}, PushBranch(w) \/ PushMain(w), Alone(w),
             \/ Fails(w)
             \/ pc[w] = "push" /\ pc'[w] \in {"review", "askMerge"} /\ job'[w] = job[w]
             \/ pc[w] = "mergePush" /\ pc'[w] = "report" /\ job'[w] = job[w]
      PROVE  StageInv'
  <2>1. Background
    BY <1>9, PushesKeep
  <2> QED BY <1>5, <1>9, <2>1
<1> HIDE DEF StageInv
<1> QED BY <1>4, <1>5, <1>6, <1>7, <1>8, <1>9 DEF Shape

\* The calls that write neither branches nor commits.
LEMMA NoPush ==
  ASSUME NEW w \in Worker, PushMain(w) \/ AskMerge(w) \/ ReportMerged(w)
  PROVE  branch' = branch /\ author' = author
BY DEF PushMain, AskMerge, ReportMerged, remoteVars

\* Every step keeps each commit with its author.
LEMMA AuthorStep ==
  ASSUME RunInv, Shape, RunTypeOK' PROVE AuthorInv'
<1>0. RunTypeOK /\ BusyInv /\ AuthorInv
  BY DEF RunInv
<1> USE DEF Kept4, Rests, Fails, Starts, Ends, Retreats, RunTypeOK, AuthorInv
<1>1. ASSUME branch' = branch, author' = author,
             \A u \in Worker : \/ tip'[u] = tip[u] /\ job'[u] = job[u]
                               \/ tip'[u] = <<>>
                               \/ /\ tip'[u] = branch[job[u]] /\ job'[u] = job[u] /\ job[u] \in Task
      PROVE  AuthorInv'
  BY <1>0, <1>1
<1>2. ASSUME branch' = branch, author' = author, \A u \in Worker : Retreats(u) PROVE AuthorInv'
  BY <1>1, <1>2
<1>3. ASSUME NEW w \in Worker, UNCHANGED remoteVars, Alone(w),
             Claims(w) \/ Runs(w) \/ Proceeds(w) \/ Finds(w)
      PROVE  AuthorInv'
  <2>1. Claims(w) => tip'[w] = <<>>
    <3>1. ASSUME Claims(w) PROVE tip[w] = <<>>
      <4>1. job[w] = NoTask
        BY <1>0, <3>1 DEF Claims, BusyInv, Busy
      <4> QED BY <1>0, <4>1, RunNoneAssumption
    <3> QED BY <3>1 DEF Claims
  <2>2. Runs(w) => job[w] \in Task
    BY <1>0 DEF Runs, BusyInv, Busy
  <2> QED BY <1>1, <1>3, <2>1, <2>2 DEF Alone, Runs, Proceeds, Finds, remoteVars
<1>4. ASSUME NEW w \in Worker, CommitWork(w), Alone(w) PROVE AuthorInv'
  <2>1. /\ job[w] \in Task /\ NewCommit \in Commit /\ author[NewCommit] = NoTask
        /\ author' = [author EXCEPT ![NewCommit] = job[w]]
        /\ tip' = [tip EXCEPT ![w] = Append(@, NewCommit)] /\ job' = job /\ branch' = branch
    BY <1>0, <1>4, NewCommitFresh DEF CommitWork, BusyInv, Busy
  <2>2. \A c \in Commit : author[c] \in Task => author'[c] = author[c]
    BY <1>0, <2>1, RunNoneAssumption
  <2>3. \A t \in Task : \A k \in DOMAIN branch[t] : author'[branch[t][k]] = t
    BY <1>0, <2>2
  <2>4. \A u \in Worker : \A k \in DOMAIN tip[u] : job[u] \in Task /\ author'[tip[u][k]] = job[u]
    BY <1>0, <2>2
  <2>5. \A u \in Worker \ {w} : tip'[u] = tip[u]
    BY <1>0, <2>1
  <2>6. \A k \in DOMAIN tip'[w] : author'[tip'[w][k]] = job[w]
    <3>1. tip[w] \in Seq(Commit) /\ tip'[w] = Append(tip[w], NewCommit)
      BY <1>0, <2>1
    <3>2. author'[NewCommit] = job[w]
      BY <1>0, <2>1
    <3> QED BY <2>1, <2>4, <3>1, <3>2, Appended
  <2> QED BY <2>1, <2>3, <2>4, <2>5, <2>6
<1>5. ASSUME NEW w \in Worker, pc[w] = "push", PushBranch(w),
             \A u \in Worker : tip'[u] = tip[u] /\ job'[u] = job[u]
      PROVE  AuthorInv'
  <2>1. job[w] \in Task /\ branch' = [branch EXCEPT ![job[w]] = tip[w]] /\ author' = author
    BY <1>0, <1>5 DEF PushBranch, BusyInv, Busy
  <2> QED BY <1>0, <1>5, <2>1
<1> HIDE DEF AuthorInv
<1> QED
  <2>1. ASSUME NEW w \in Worker, PushMain(w), Alone(w), tip'[w] = tip[w], job'[w] = job[w]
        PROVE  AuthorInv'
    BY <1>1, <2>1, NoPush DEF Alone
  <2> QED BY <1>2, <1>3, <1>4, <1>5, <2>1, NoPush DEF Shape, remoteVars, Alone

\* Every step keeps the local branch of a holder in agreement with the remote
\* one.
LEMMA TipStep ==
  ASSUME RunInv, Shape, RunTypeOK', IInv' PROVE TipInv'
<1>0. RunTypeOK /\ BusyInv /\ StageInv /\ TipInv /\ StaleInv /\ IInv
  BY DEF RunInv
<1> USE DEF Kept4, Rests, Fails, Starts, Ends, Retreats, RunTypeOK, TipInv
<1> DEFINE TipOf(u) ==
      /\ pc[u] \in Developing => Len(tip[u]) <= Len(branch[job[u]])
      /\ pc[u] = "push" => Len(tip[u]) <= Len(branch[job[u]]) + 1
      /\ pc[u] \in Pushed \cup {"push"} => tip[u] # <<>>
      /\ pc[u] \in Pushed /\ Owns(u, job[u]) => branch[job[u]] = tip[u]
\* A worker that keeps its place, while the branches stay.
<1>1. ASSUME NEW u \in Worker, branch' = branch, Retreats(u),
             pc[u] \in Pushed /\ Owns(u, job[u])' => Owns(u, job[u])
      PROVE  TipOf(u)'
  BY <1>0, <1>1 DEF Developing, Pushed, Owns
<1>2. ASSUME Background, NEW u \in Worker, pc[u] \in Busy, holder'[job[u]] = u,
             status'[job[u]] \in InFlight
      PROVE  Owns(u, job[u])
  BY <1>0, <1>2 DEF Background, BusyInv
<1>3. ASSUME Background, UNCHANGED remoteVars, \A u \in Worker : Retreats(u) PROVE TipInv'
  <2>1. ASSUME NEW u \in Worker PROVE TipOf(u)'
    <3>1. pc[u] \in Pushed /\ Owns(u, job[u])' => pc'[u] \notin Pushed \/ Owns(u, job[u])
      BY <1>0, <1>2, <1>3 DEF Owns, Pushed, Busy
    <3>2. CASE pc'[u] \notin Pushed
      BY <1>0, <1>3, <3>2 DEF Developing, Pushed, remoteVars
    <3>3. CASE pc'[u] \in Pushed
      BY <1>1, <1>3, <3>1, <3>3 DEF remoteVars
    <3> QED BY <3>2, <3>3
  <2> QED BY <2>1
<1>4. ASSUME NEW w \in Worker, Background, UNCHANGED remoteVars, Alone(w),
             Claims(w) \/ Runs(w) \/ Proceeds(w) \/ Finds(w)
      PROVE  TipInv'
  <2>1. ASSUME NEW u \in Worker \ {w} PROVE TipOf(u)'
    <3>1. pc[u] \in Pushed /\ Owns(u, job[u])' => Owns(u, job[u])
      BY <1>0, <1>2, <1>4, <2>1 DEF Owns, Pushed, Busy, Alone
    <3> QED BY <1>1, <1>4, <2>1, <3>1 DEF Alone, remoteVars
  <2>2. TipOf(w)'
    <3>1. CASE Claims(w) \/ Finds(w)
      BY <3>1 DEF Claims, Finds, Developing, Pushed
    <3>2. CASE Runs(w)
      BY <1>0, <1>4, <3>2 DEF Runs, Developing, Pushed, remoteVars, BusyInv, Busy
    <3>3. CASE Proceeds(w)
      <4>1. pc[w] \in Busy /\ job'[w] = job[w] /\ tip'[w] = tip[w]
        BY <3>3 DEF Proceeds, Busy
      <4>2. Owns(w, job[w])' => Owns(w, job[w])
        BY <1>2, <1>4, <4>1 DEF Owns
      <4> QED BY <1>0, <1>4, <3>3, <4>1, <4>2 DEF Proceeds, Developing, Pushed, remoteVars
    <3> QED BY <1>4, <3>1, <3>2, <3>3
  <2> QED BY <2>1, <2>2
<1>5. ASSUME NEW w \in Worker, CommitWork(w), Alone(w) PROVE TipInv'
  <2>1. /\ tip' = [tip EXCEPT ![w] = Append(@, NewCommit)] /\ job' = job /\ branch' = branch
        /\ pc[w] = "commit" /\ pc' = [pc EXCEPT ![w] = "push"] /\ UNCHANGED vars
        /\ NewCommit \in Commit
    BY <1>5, NewCommitFresh DEF CommitWork, Goto
  <2>2. ASSUME NEW u \in Worker \ {w} PROVE TipOf(u)'
    BY <1>0, <2>1, <2>2 DEF Owns, vars
  <2>3. TipOf(w)'
    <3>1. /\ Len(tip'[w]) = Len(tip[w]) + 1 /\ tip'[w] # <<>>
          /\ Len(tip[w]) <= Len(branch[job[w]]) /\ branch[job[w]] \in Seq(Commit)
      <4>1. tip[w] \in Seq(Commit) /\ tip'[w] = Append(tip[w], NewCommit)
        BY <1>0, <2>1
      <4> QED BY <1>0, <2>1, <4>1, Appended DEF Developing, BusyInv, Busy
    <3>2. pc'[w] = "push" /\ tip[w] \in Seq(Commit)
      BY <1>0, <2>1
    <3> QED BY <2>1, <3>1, <3>2 DEF Developing, Pushed
  <2> QED BY <2>2, <2>3
<1>6. ASSUME NEW w \in Worker, pc[w] = "push", PushBranch(w), Alone(w),
             Fails(w) \/ (pc'[w] \in {"review", "askMerge"} /\ Kept4(w))
      PROVE  TipInv'
  <2> DEFINE t == job[w]
  <2>1. /\ t \in Task /\ branch' = [branch EXCEPT ![t] = tip[w]] /\ IsPrefix(branch[t], tip[w])
        /\ UNCHANGED vars
    BY <1>0, <1>6 DEF PushBranch, BusyInv, Busy
  <2>2. /\ Len(branch[t]) <= Len(tip[w])
        /\ Len(tip[w]) <= Len(branch[t]) => branch[t] = tip[w]
    BY <1>0, <2>1, PrefixLength
  <2>3. ASSUME NEW u \in Worker \ {w}, job[u] = t PROVE TipOf(u)'
    <3>1. pc'[u] = pc[u] /\ Kept4(u) /\ branch'[job[u]] = tip[w]
      BY <1>0, <1>6, <2>1, <2>3 DEF Alone
    <3>2. CASE pc[u] \in Pushed /\ Owns(u, t)
      <4>1. Len(tip[w]) <= Len(tip[u]) /\ branch[t] = tip[u]
        BY <1>0, <1>6, <2>3, <3>2 DEF StaleInv, Pushed, Busy
      <4> QED BY <1>0, <2>1, <2>2, <2>3, <3>1, <3>2, <4>1 DEF Developing, Pushed
    <3>3. CASE ~ (pc[u] \in Pushed /\ Owns(u, t))
      <4>1. ~ (pc'[u] \in Pushed /\ Owns(u, job[u])')
        BY <2>1, <2>3, <3>1, <3>3 DEF Owns, vars
      <4>2. tip[u] \in Seq(Commit) /\ tip[w] \in Seq(Commit) /\ branch[t] \in Seq(Commit)
        BY <1>0, <2>1
      <4> QED BY <1>0, <2>2, <2>3, <3>1, <4>1, <4>2 DEF Developing, Pushed
    <3> QED BY <3>2, <3>3
  <2>4. ASSUME NEW u \in Worker \ {w}, job[u] # t PROVE TipOf(u)'
    <3>1. pc'[u] = pc[u] /\ Kept4(u) /\ (job[u] \in Task => branch'[job[u]] = branch[job[u]])
      BY <1>0, <1>6, <2>1, <2>4 DEF Alone
    <3>2. pc[u] \in Busy => job[u] \in Task
      BY <1>0 DEF BusyInv
    <3> QED BY <1>0, <2>1, <3>1, <3>2 DEF Developing, Pushed, Busy, Owns, vars
  <2>5. TipOf(w)'
    BY <1>0, <1>6, <2>1 DEF Developing, Pushed
  <2> QED BY <2>3, <2>4, <2>5
\* The remaining calls leave the branches alone and give nobody a task.
<1>7. ASSUME NEW w \in Worker, branch' = branch,
             \A u \in Worker : Retreats(u) \/ pc'[u] = "report",
             \A u \in Worker : pc[u] \in Pushed /\ pc'[u] \in Pushed /\ Owns(u, job[u])' => Owns(u, job[u])
      PROVE  TipInv'
  <2>1. ASSUME NEW u \in Worker PROVE TipOf(u)'
    <3>1. CASE pc'[u] \notin Pushed
      BY <1>0, <1>7, <3>1 DEF Developing, Pushed
    <3>2. CASE pc'[u] \in Pushed
      BY <1>1, <1>7, <3>2 DEF Pushed
    <3> QED BY <3>1, <3>2
  <2> QED BY <2>1
<1>8. ASSUME NEW w \in Worker, pc[w] = "mergePush", PushMain(w), Alone(w),
             Fails(w) \/ pc'[w] = "report"
      PROVE  TipInv'
  <2>1. branch' = branch /\ UNCHANGED vars
    BY <1>8, NoPush, PushesKeep
  <2>2. \A u \in Worker : Retreats(u) \/ pc'[u] = "report"
    BY <1>8 DEF Alone
  <2>3. \A u \in Worker : pc'[u] \in Pushed => job'[u] = job[u]
    BY <1>8 DEF Alone, Pushed
  <2> QED BY <1>7, <2>1, <2>2, <2>3 DEF Owns, vars
<1>9. ASSUME NEW w \in Worker, pc[w] \in Busy, AskMerge(w) \/ ReportMerged(w),
             \A u \in Worker : Retreats(u)
      PROVE  TipInv'
  <2>1. PICK s : status' = [status EXCEPT ![job[w]] = s] /\ s \notin InFlight
    BY <1>9 DEF AskMerge, ReportMerged, Authorize, Complete, Move, InFlight
  <2>2. holder' = [holder EXCEPT ![job[w]] = NoWorker]
    BY <1>9 DEF AskMerge, ReportMerged, Authorize, Complete, Move, InFlight
  <2>3. branch' = branch
    BY <1>9, NoPush
  <2>4. ASSUME NEW u \in Worker, pc[u] \in Pushed, pc'[u] \in Pushed, Owns(u, job[u])'
        PROVE  Owns(u, job[u])
    <3>1. job'[u] = job[u] /\ job[u] \in Task
      BY <1>0, <1>9, <2>4 DEF Pushed, BusyInv, Busy
    <3> QED BY <1>0, <2>1, <2>2, <2>4, <3>1, NoneAssumption DEF Owns, IInv, TypeOK
  <2> QED BY <1>7, <1>9, <2>3, <2>4
<1> HIDE DEF TipInv
<1> QED BY <1>3, <1>4, <1>5, <1>6, <1>8, <1>9 DEF Shape, Busy

\* Opening a gate, at the server: one new request, and its task is nobody's.
LEMMA AskStep ==
  ASSUME RunInv, NEW w \in Worker, pc[w] = "askMerge", AskMerge(w)
  PROVE  /\ job[w] \in Task /\ Last(tip[w]) \in Commit /\ Owns(w, job[w])
         /\ DOMAIN approvals' = DOMAIN approvals \cup {Len(approvals) + 1}
         /\ Len(approvals) + 1 \notin DOMAIN approvals
         /\ approvals'[Len(approvals) + 1].task = job[w]
         /\ approvals'[Len(approvals) + 1].gate = MergeGate
         /\ approvals'[Len(approvals) + 1].version = Last(tip[w])
         /\ approvals'[Len(approvals) + 1].status = "PENDING_APPROVAL"
         /\ \A i \in DOMAIN approvals : approvals'[i] = approvals[i]
         /\ status' = [status EXCEPT ![job[w]] = "WAITING_FOR_HUMAN"]
         /\ holder' = [holder EXCEPT ![job[w]] = NoWorker]
         /\ deps' = deps /\ UNCHANGED remoteVars
<1>0. RunTypeOK /\ BusyInv /\ TipInv /\ TypeOK
  BY DEF RunInv, IInv
<1> DEFINE row == [task |-> job[w], gate |-> MergeGate, version |-> Last(tip[w]),
                   status |-> "PENDING_APPROVAL"]
<1>1. job[w] \in Task /\ Last(tip[w]) \in Commit /\ approvals \in Seq(ApprovalRow)
  <2>1. tip[w] \in Seq(Commit) /\ tip[w] # <<>>
    BY <1>0 DEF RunTypeOK, TipInv, Pushed
  <2> QED BY <1>0, <2>1, LastIn DEF BusyInv, Busy, TypeOK
<1>2. /\ approvals' = Append(approvals, row) /\ MergeGate \in Gate /\ Owns(w, job[w])
      /\ status' = [status EXCEPT ![job[w]] = "WAITING_FOR_HUMAN"]
      /\ holder' = [holder EXCEPT ![job[w]] = NoWorker]
      /\ deps' = deps /\ UNCHANGED remoteVars
  BY DEF AskMerge, Authorize, Move, InFlight, workVars
<1>3. row \in ApprovalRow
  BY <1>1, <1>2 DEF ApprovalRow, ApprovalStatus
<1>4. /\ row.task = job[w] /\ row.gate = MergeGate /\ row.version = Last(tip[w])
      /\ row.status = "PENDING_APPROVAL"
  OBVIOUS
<1> HIDE DEF row
<1>5. /\ DOMAIN approvals' = DOMAIN approvals \cup {Len(approvals) + 1}
      /\ Len(approvals) + 1 \notin DOMAIN approvals
      /\ approvals'[Len(approvals) + 1] = row
      /\ \A i \in DOMAIN approvals : approvals'[i] = approvals[i]
  BY <1>1, <1>2, <1>3, AppendedRow
<1> QED BY <1>1, <1>2, <1>4, <1>5

\* Completing a task, at the server.
LEMMA ReportStep ==
  ASSUME NEW w \in Worker, ReportMerged(w)
  PROVE  /\ status' = [status EXCEPT ![job[w]] = "COMPLETED"]
         /\ holder' = [holder EXCEPT ![job[w]] = NoWorker]
         /\ approvals' = approvals /\ deps' = deps /\ UNCHANGED remoteVars
BY DEF ReportMerged, Complete, Move, InFlight

\* Nobody who is busy gains the task he works on.
LEMMA NobodyGains ==
  ASSUME RunInv, Shape,
         NEW u \in Worker, pc[u] \in Busy, job'[u] = job[u], Owns(u, job[u])'
  PROVE  Owns(u, job[u])
<1>0. RunTypeOK /\ BusyInv /\ TypeOK
  BY DEF RunInv, IInv
<1>1. job[u] \in Task /\ holder'[job[u]] = u /\ status'[job[u]] \in InFlight
  BY <1>0 DEF BusyInv, Owns
<1>2. CASE Background
  BY <1>1, <1>2 DEF Background
<1>3. ASSUME NEW w \in Worker, pc[w] \in Busy,
             holder' = [holder EXCEPT ![job[w]] = NoWorker],
             NEW s, s \notin InFlight, status' = [status EXCEPT ![job[w]] = s]
      PROVE  Owns(u, job[u])
  BY <1>0, <1>1, <1>3, NoneAssumption DEF Owns, TypeOK
<1>4. "WAITING_FOR_HUMAN" \notin InFlight /\ "COMPLETED" \notin InFlight
  BY DEF InFlight
<1> QED BY <1>2, <1>3, <1>4, AskStep, ReportStep, PushesKeep DEF Shape, Busy

\* Every step keeps the late push of a former holder harmless.
LEMMA StaleStep ==
  ASSUME RunInv, Shape, RunTypeOK' PROVE StaleInv'
<1>0. RunTypeOK /\ BusyInv /\ StageInv /\ TipInv /\ StaleInv /\ TypeOK
  BY DEF RunInv, IInv
<1> USE DEF Kept4, Rests, Fails, Starts, Ends, Retreats
<1> DEFINE Behind(u, w) ==
      pc[w] \in Busy /\ job[w] = job[u] /\ Owns(w, job[w]) =>
        /\ pc[w] \in Developing => Len(tip[u]) <= Len(tip[w]) + 1
        /\ pc[w] \in Pushed \cup {"push"} => Len(tip[u]) <= Len(tip[w])
      Answered(u) == \A i \in DOMAIN approvals :
        Live(i) /\ approvals[i].task = job[u] => Len(tip[u]) <= Len(branch[job[u]])
<1>1. ASSUME NEW u \in Worker, pc[u] = "push" PROVE Answered(u) /\ \A w \in Worker \ {u} : Behind(u, w)
  BY <1>0, <1>1 DEF StaleInv
\* Everyone who was not committing: nobody else comes to the push.
<1>2. ASSUME NEW u \in Worker, pc[u] = "push", pc'[u] = "push", Rests(u), branch' = branch,
             \A i \in DOMAIN approvals' :
               Live(i)' => \/ i \in DOMAIN approvals /\ approvals'[i].task = approvals[i].task /\ Live(i)
                           \/ approvals'[i].task = job[u] => Len(tip[u]) <= Len(branch[job[u]])
      PROVE  Answered(u)'
  BY <1>1, <1>2
<1>3. ASSUME NEW u \in Worker, NEW w \in Worker \ {u}, pc[u] = "push", Rests(u), Retreats(w)
      PROVE  Behind(u, w)'
  <2> SUFFICES ASSUME pc'[w] \in Developing \cup Pushed \cup {"push"}, job'[w] = job'[u], Owns(w, job[w])'
               PROVE  /\ pc'[w] \in Developing => Len(tip'[u]) <= Len(tip'[w]) + 1
                      /\ pc'[w] \in Pushed \cup {"push"} => Len(tip'[u]) <= Len(tip'[w])
    OBVIOUS
  <2>1. Rests(w) /\ pc[w] \in Busy
    BY <1>3 DEF Busy, Developing, Pushed
  <2>2. Owns(w, job[w])
    BY <2>1, NobodyGains
  <2> QED BY <1>1, <1>3, <2>1, <2>2
<1>4. ASSUME branch' = branch, \A u \in Worker : Retreats(u),
             NEW t, \A i \in DOMAIN approvals' :
               Live(i)' => \/ i \in DOMAIN approvals /\ approvals'[i].task = approvals[i].task /\ Live(i)
                           \/ approvals'[i].task = t,
             \A u \in Worker : pc[u] = "push" /\ job[u] = t => Len(tip[u]) <= Len(branch[t])
      PROVE  StaleInv'
  <2>1. ASSUME NEW u \in Worker, pc'[u] = "push"
        PROVE  Answered(u)' /\ \A w \in Worker \ {u} : Behind(u, w)'
    <3>1. Rests(u) /\ pc[u] = "push"
      BY <1>4, <2>1
    <3>2. Answered(u)'
      BY <1>2, <1>4, <2>1, <3>1
    <3> QED BY <1>3, <1>4, <3>1, <3>2
  <2> QED BY <2>1 DEF StaleInv
<1>5. CASE Background /\ UNCHANGED remoteVars /\ \A u \in Worker : Retreats(u)
  <2>1. \A i \in DOMAIN approvals' :
          Live(i)' => i \in DOMAIN approvals /\ approvals'[i].task = approvals[i].task /\ Live(i)
    BY <1>5 DEF Background, Live
  <2> QED BY <1>0, <1>4, <1>5, <2>1, RunNoneAssumption DEF remoteVars, BusyInv, Busy
<1>6. ASSUME NEW w \in Worker, Background, UNCHANGED remoteVars, Alone(w),
             Claims(w) \/ Runs(w) \/ Proceeds(w) \/ Finds(w)
      PROVE  StaleInv'
  <2>1. \A i \in DOMAIN approvals' :
          Live(i)' => i \in DOMAIN approvals /\ approvals'[i].task = approvals[i].task /\ Live(i)
    BY <1>6 DEF Background, Live
  <2>2. ASSUME NEW u \in Worker, pc'[u] = "push"
        PROVE  Answered(u)' /\ \A v \in Worker \ {u} : Behind(u, v)'
    <3>1. Rests(u) /\ pc[u] = "push" /\ u # w
      BY <1>6, <2>2 DEF Alone, Claims, Runs, Proceeds, Finds
    <3>2. Answered(u)'
      BY <1>2, <1>6, <2>1, <2>2, <3>1 DEF remoteVars
    <3>3. Behind(u, w)'
      <4> SUFFICES ASSUME pc'[w] \in Developing \cup Pushed \cup {"push"}, job'[w] = job'[u], Owns(w, job[w])'
                   PROVE  /\ pc'[w] \in Developing => Len(tip'[u]) <= Len(tip'[w]) + 1
                          /\ pc'[w] \in Pushed \cup {"push"} => Len(tip'[u]) <= Len(tip'[w])
        OBVIOUS
      <4>1. CASE Runs(w)
        <5>1. pc'[w] = "develop" /\ tip'[w] = branch[job[u]] /\ tip'[u] = tip[u]
          BY <3>1, <4>1 DEF Runs, Developing, Pushed
        <5>2. Len(tip[u]) <= Len(branch[job[u]]) + 1
          BY <1>0, <3>1 DEF TipInv
        <5> QED BY <5>1, <5>2 DEF Pushed
      <4>2. CASE Proceeds(w)
        <5>1. pc[w] \in Busy /\ Owns(w, job[w])
          BY <4>2, NobodyGains DEF Proceeds, Busy
        <5> QED BY <1>1, <3>1, <4>2, <5>1 DEF Proceeds, Developing, Pushed
      <4>3. CASE Claims(w) \/ Finds(w)
        BY <4>3 DEF Claims, Finds, Developing, Pushed
      <4> QED BY <1>6, <4>1, <4>2, <4>3
    <3>4. ASSUME NEW v \in Worker \ {u, w} PROVE Behind(u, v)'
      BY <1>3, <1>6, <3>1, <3>4 DEF Alone
    <3> QED BY <3>2, <3>3, <3>4
  <2> QED BY <2>2 DEF StaleInv
<1>7. ASSUME NEW w \in Worker, CommitWork(w), Alone(w) PROVE StaleInv'
  <2>1. /\ pc[w] = "commit" /\ pc'[w] = "push" /\ Owns(w, job[w]) /\ NewCommit \in Commit
        /\ job' = job /\ branch' = branch /\ UNCHANGED vars
        /\ tip' = [tip EXCEPT ![w] = Append(@, NewCommit)]
    BY <1>0, <1>7, NewCommitFresh DEF CommitWork, Goto, RunTypeOK
  <2>2. Len(tip'[w]) = Len(tip[w]) + 1
    <3>1. tip[w] \in Seq(Commit) /\ tip'[w] = Append(tip[w], NewCommit)
      BY <1>0, <2>1 DEF RunTypeOK
    <3> QED BY <2>1, <3>1, Appended
  <2>3. \A i \in DOMAIN approvals' :
          Live(i)' => i \in DOMAIN approvals /\ approvals'[i].task = approvals[i].task /\ Live(i)
    BY <2>1 DEF vars, Live
  <2>4. \A u \in Worker : Owns(u, job[u])' <=> Owns(u, job[u])
    BY <2>1 DEF vars, Owns
  <2>5. ASSUME NEW u \in Worker, u # w, pc'[u] = "push"
        PROVE  Answered(u)' /\ \A v \in Worker \ {u} : Behind(u, v)'
    <3>1. Rests(u) /\ pc[u] = "push"
      BY <1>7, <2>5 DEF Alone
    <3>2. Answered(u)'
      BY <1>2, <2>1, <2>3, <2>5, <3>1
    <3>3. Behind(u, w)'
      BY <1>1, <2>1, <2>2, <2>4, <2>5, <3>1 DEF Developing, Pushed, Busy
    <3>4. ASSUME NEW v \in Worker \ {u, w} PROVE Behind(u, v)'
      BY <1>3, <1>7, <3>1, <3>4 DEF Alone
    <3> QED BY <3>2, <3>3, <3>4
  <2>6. Answered(w)'
    <3>1. stage[job[w]] = "implement"
      BY <1>0, <2>1 DEF StageInv, Implementing, Developing, Busy
    <3>2. \A i \in DOMAIN approvals : ~ (Live(i) /\ approvals[i].task = job[w])
      BY <1>0, <3>1 DEF StageInv
    <3> QED BY <2>1, <2>3, <3>2 DEF vars
  <2>7. ASSUME NEW v \in Worker \ {w} PROVE Behind(w, v)'
    <3>1. ~ (pc'[v] \in Busy /\ job'[v] = job'[w] /\ Owns(v, job[v])')
      BY <2>1, <2>4 DEF Owns
    <3> QED BY <3>1
  <2> QED BY <2>5, <2>6, <2>7 DEF StaleInv
<1>8. ASSUME NEW w \in Worker, pc[w] = "push", PushBranch(w), Alone(w),
             Fails(w) \/ (pc'[w] \in {"review", "askMerge"} /\ Kept4(w))
      PROVE  StaleInv'
  <2>1. /\ job[w] \in Task /\ branch' = [branch EXCEPT ![job[w]] = tip[w]] /\ UNCHANGED vars
        /\ IsPrefix(branch[job[w]], tip[w])
    BY <1>0, <1>8 DEF PushBranch, BusyInv, Busy
  <2>2. \A t \in Task : Len(branch[t]) <= Len(branch'[t]) /\ Len(branch[t]) \in Nat /\ Len(branch'[t]) \in Nat
    <3>1. Len(branch[job[w]]) <= Len(tip[w])
      BY <1>0, <2>1, PrefixLength DEF RunTypeOK
    <3> QED BY <1>0, <2>1, <3>1 DEF RunTypeOK
  <2>3. ASSUME NEW u \in Worker, pc'[u] = "push"
        PROVE  Answered(u)' /\ \A v \in Worker \ {u} : Behind(u, v)'
    <3>1. Rests(u) /\ pc[u] = "push" /\ u # w
      BY <1>8, <2>3 DEF Alone
    <3>2. Answered(u)'
      <4>1. job[u] \in Task /\ Len(tip[u]) \in Nat
        BY <1>0, <3>1 DEF BusyInv, Busy, RunTypeOK
      <4>2. ASSUME NEW i \in DOMAIN approvals, Live(i), approvals[i].task = job[u]
            PROVE  Len(tip[u]) <= Len(branch'[job[u]])
        BY <1>1, <2>2, <3>1, <4>1, <4>2
      <4> QED BY <2>1, <3>1, <4>2 DEF vars, Live
    <3>3. Behind(u, w)'
      BY <1>1, <1>8, <2>1, <3>1 DEF Developing, Pushed, Busy, Owns, vars
    <3>4. ASSUME NEW v \in Worker \ {u, w} PROVE Behind(u, v)'
      BY <1>3, <1>8, <3>1, <3>4 DEF Alone
    <3> QED BY <3>2, <3>3, <3>4
  <2> QED BY <2>3 DEF StaleInv
<1>9. ASSUME NEW w \in Worker, pc[w] = "mergePush", PushMain(w), Alone(w),
             Fails(w) \/ pc'[w] = "report"
      PROVE  StaleInv'
  <2>1. branch' = branch /\ UNCHANGED vars
    BY <1>9, NoPush, PushesKeep
  <2>2. \A i \in DOMAIN approvals' :
          Live(i)' => i \in DOMAIN approvals /\ approvals'[i].task = approvals[i].task /\ Live(i)
    BY <2>1 DEF vars, Live
  <2>3. ASSUME NEW u \in Worker, pc'[u] = "push"
        PROVE  Answered(u)' /\ \A v \in Worker \ {u} : Behind(u, v)'
    <3>1. Rests(u) /\ pc[u] = "push" /\ u # w
      BY <1>9, <2>3 DEF Alone
    <3>2. Answered(u)'
      BY <1>2, <2>1, <2>2, <2>3, <3>1
    <3>3. Behind(u, w)'
      BY <1>9 DEF Developing, Pushed
    <3>4. ASSUME NEW v \in Worker \ {u, w} PROVE Behind(u, v)'
      BY <1>3, <1>9, <3>1, <3>4 DEF Alone
    <3> QED BY <3>2, <3>3, <3>4
  <2> QED BY <2>3 DEF StaleInv
<1>10. ASSUME NEW w \in Worker, pc[w] = "askMerge", AskMerge(w), \A u \in Worker : Retreats(u)
       PROVE  StaleInv'
  <2>1. \A i \in DOMAIN approvals' :
          Live(i)' => \/ i \in DOMAIN approvals /\ approvals'[i].task = approvals[i].task /\ Live(i)
                      \/ approvals'[i].task = job[w]
    <3> DEFINE new == Len(approvals) + 1
    <3>1. /\ DOMAIN approvals' = DOMAIN approvals \cup {new}
          /\ approvals'[new].task = job[w]
          /\ \A i \in DOMAIN approvals : approvals'[i] = approvals[i]
      BY <1>10, AskStep
    <3> HIDE DEF new
    <3> QED BY <3>1 DEF Live
  <2>2. branch[job[w]] = tip[w] /\ Owns(w, job[w]) /\ branch' = branch
    BY <1>0, <1>10, AskStep DEF TipInv, Pushed, remoteVars
  <2>3. \A u \in Worker : pc[u] = "push" /\ job[u] = job[w] => Len(tip[u]) <= Len(branch[job[w]])
    BY <1>1, <1>10, <2>2 DEF Pushed, Busy
  <2> QED BY <1>4, <1>10, <2>1, <2>2, <2>3
<1>11. ASSUME NEW w \in Worker, pc[w] = "report", ReportMerged(w), \A u \in Worker : Retreats(u)
       PROVE  StaleInv'
  <2>1. \A i \in DOMAIN approvals' :
          Live(i)' => i \in DOMAIN approvals /\ approvals'[i].task = approvals[i].task /\ Live(i)
    BY <1>11, ReportStep DEF Live
  <2>2. branch' = branch
    BY <1>11, NoPush
  <2>3. \A u \in Worker : pc[u] = "push" => job[u] # NoTask
    BY <1>0, RunNoneAssumption DEF BusyInv, Busy
  <2> QED BY <1>4, <1>11, <2>1, <2>2, <2>3
<1> QED BY <1>5, <1>6, <1>7, <1>8, <1>9, <1>10, <1>11 DEF Shape

\* What is never undone: merges, authors, approvals, and what a task depends on.
LEMMA History ==
  ASSUME RunInv, Shape
  PROVE  /\ Len(main) <= Len(main')
         /\ \A k \in DOMAIN main : k \in DOMAIN main' /\ main'[k] = main[k]
         /\ \A c \in Commit : author[c] \in Task => author'[c] = author[c]
         /\ \A i \in DOMAIN approvals :
              /\ i \in DOMAIN approvals' /\ approvals'[i].task = approvals[i].task
              /\ approvals'[i].gate = approvals[i].gate /\ approvals'[i].version = approvals[i].version
              /\ approvals[i].status = "APPROVED" => approvals'[i].status = "APPROVED"
         /\ \A t, c : ApprovedFor(t, c) => ApprovedFor(t, c)'
         /\ \A t \in Task : status[t] # "NONE" => deps'[t] = deps[t]
<1>0. RunTypeOK /\ MergeInv
  BY DEF RunInv
<1> DEFINE Rows == \A i \in DOMAIN approvals :
              /\ i \in DOMAIN approvals' /\ approvals'[i].task = approvals[i].task
              /\ approvals'[i].gate = approvals[i].gate /\ approvals'[i].version = approvals[i].version
              /\ approvals[i].status = "APPROVED" => approvals'[i].status = "APPROVED"
           Deps == \A t \in Task : status[t] # "NONE" => deps'[t] = deps[t]
           Mains == /\ Len(main) <= Len(main')
                    /\ \A k \in DOMAIN main : k \in DOMAIN main' /\ main'[k] = main[k]
           Authors == \A c \in Commit : author[c] \in Task => author'[c] = author[c]
<1>1. ASSUME main' = main PROVE Mains
  BY <1>0, <1>1 DEF RunTypeOK
<1>2. ASSUME Background PROVE Rows /\ Deps
  BY <1>2 DEF Background
<1>3. ASSUME NEW w \in Worker, pc[w] = "askMerge", AskMerge(w) PROVE Rows /\ Deps /\ UNCHANGED remoteVars
  BY <1>3, AskStep
<1>4. ASSUME NEW w \in Worker, pc[w] = "report", ReportMerged(w) PROVE Rows /\ Deps /\ UNCHANGED remoteVars
  BY <1>4, ReportStep
<1>5. ASSUME NEW w \in Worker, pc[w] = "mergePush", PushMain(w) PROVE Mains /\ author' = author
  BY <1>0, <1>5, MainGrows, NoPush DEF MergeInv
<1>6. ASSUME NEW w \in Worker, CommitWork(w) PROVE Authors /\ main' = main
  BY <1>0, <1>6, NewCommitFresh, RunNoneAssumption DEF CommitWork, RunTypeOK
<1>7. ASSUME NEW w \in Worker, PushBranch(w) PROVE main' = main /\ author' = author
  BY <1>7 DEF PushBranch
<1>8. Rows /\ Deps
  BY <1>2, <1>3, <1>4, PushesKeep DEF Shape
<1>9. Mains /\ Authors
  BY <1>1, <1>3, <1>4, <1>5, <1>6, <1>7 DEF Shape, remoteVars
<1>10. \A t, c : ApprovedFor(t, c) => ApprovedFor(t, c)'
  BY <1>8 DEF ApprovedFor
<1> QED BY <1>8, <1>9, <1>10

\* An approved commit is the last of its task's branch, and was made for the task.
LEMMA ApprovedAuthor ==
  ASSUME RunInv, NEW t \in Task, NEW c, ApprovedFor(t, c)
  PROVE  c \in Commit /\ author[c] = t
<1>1. PICK i \in DOMAIN approvals : /\ approvals[i].status = "APPROVED"
                                    /\ approvals[i].version = c /\ approvals[i].task = t
  BY DEF ApprovedFor
<1>2. branch[t] # <<>> /\ Last(branch[t]) = c
  BY <1>1 DEF RunInv, RemoteInv, AskedIsPushed
<1>3. branch[t] \in Seq(Commit)
  BY DEF RunInv, RunTypeOK
<1> QED BY <1>2, <1>3, LastIn DEF RunInv, AuthorInv

\* After every step the commit a human is asked about is the last of its
\* branch.
LEMMA AskedStep ==
  ASSUME RunInv, Shape, RunTypeOK' PROVE AskedIsPushed'
<1>0. RunTypeOK /\ BusyInv /\ TipInv /\ StaleInv /\ AskedIsPushed
  BY DEF RunInv, RemoteInv
<1>1. ASSUME branch' = branch,
             \A i \in DOMAIN approvals' : Live(i)' =>
               /\ i \in DOMAIN approvals /\ approvals'[i].task = approvals[i].task
               /\ approvals'[i].version = approvals[i].version /\ Live(i)
      PROVE  AskedIsPushed'
  BY <1>0, <1>1 DEF AskedIsPushed, Live
<1>2. ASSUME Background, branch' = branch PROVE AskedIsPushed'
  BY <1>1, <1>2 DEF Background, Live
<1>3. ASSUME NEW w \in Worker, PushMain(w) \/ CommitWork(w) PROVE AskedIsPushed'
  <2>1. Background /\ branch' = branch
    BY <1>3, PushesKeep DEF PushMain, CommitWork
  <2> QED BY <1>2, <2>1
<1>4. ASSUME NEW w \in Worker, ReportMerged(w) PROVE AskedIsPushed'
  BY <1>1, <1>4, ReportStep, NoPush DEF Live
<1>5. ASSUME NEW w \in Worker, pc[w] = "push", PushBranch(w) PROVE AskedIsPushed'
  <2>1. /\ job[w] \in Task /\ branch' = [branch EXCEPT ![job[w]] = tip[w]] /\ approvals' = approvals
        /\ IsPrefix(branch[job[w]], tip[w])
    BY <1>0, <1>5 DEF PushBranch, BusyInv, Busy, vars
  <2>2. ASSUME NEW i \in DOMAIN approvals, Live(i) PROVE branch'[approvals[i].task] = branch[approvals[i].task]
    <3>1. CASE approvals[i].task = job[w]
      <4>1. Len(tip[w]) <= Len(branch[job[w]])
        BY <1>0, <1>5, <2>2, <3>1 DEF StaleInv
      <4>2. branch[job[w]] = tip[w]
        BY <1>0, <2>1, <4>1, PrefixLength DEF RunTypeOK
      <4> QED BY <1>0, <2>1, <3>1, <4>2 DEF RunTypeOK
    <3>2. CASE approvals[i].task # job[w]
      BY <1>0, <2>1, <3>2 DEF RunTypeOK
    <3> QED BY <3>1, <3>2
  <2> QED BY <1>0, <2>1, <2>2 DEF AskedIsPushed, Live
<1>6. ASSUME NEW w \in Worker, pc[w] = "askMerge", AskMerge(w) PROVE AskedIsPushed'
  <2> DEFINE new == Len(approvals) + 1
  <2>1. /\ DOMAIN approvals' = DOMAIN approvals \cup {new} /\ branch' = branch
        /\ approvals'[new].task = job[w] /\ approvals'[new].version = Last(tip[w])
        /\ \A i \in DOMAIN approvals : approvals'[i] = approvals[i]
        /\ Owns(w, job[w])
    BY <1>6, AskStep, NoPush
  <2>2. branch[job[w]] = tip[w] /\ tip[w] # <<>>
    BY <1>0, <1>6, <2>1 DEF TipInv, Pushed
  <2> HIDE DEF new
  <2> QED BY <1>0, <2>1, <2>2 DEF AskedIsPushed
<1> QED BY <1>2, <1>3, <1>4, <1>5, <1>6 DEF Shape, remoteVars

\* Every step puts only approved work on the protected branch.
LEMMA MainStep ==
  ASSUME RunInv, Shape, RunTypeOK' PROVE MainOnlyApproved'
<1>0. RunTypeOK /\ BusyInv /\ MergeInv
  BY DEF RunInv
<1>1. MainOnlyApproved <=> \A k \in DOMAIN main : ApprovedFor(author[main[k]], main[k])
  BY DEF MainOnlyApproved, ApprovedFor
<1>2. MainOnlyApproved' <=> \A k \in DOMAIN main' : ApprovedFor(author[main[k]], main[k])'
  BY DEF MainOnlyApproved, ApprovedFor
<1>3. \A k \in DOMAIN main : author[main[k]] \in Task /\ main[k] \in Commit
  <2> SUFFICES ASSUME NEW k \in DOMAIN main PROVE author[main[k]] \in Task /\ main[k] \in Commit
    OBVIOUS
  <2>1. ApprovedFor(author[main[k]], main[k])
    BY <1>1 DEF RunInv, RemoteInv
  <2>2. PICK i \in DOMAIN approvals : approvals[i].task = author[main[k]]
    BY <2>1 DEF ApprovedFor
  <2> QED BY <1>0, <2>2, RowTask DEF RunInv, IInv, RunTypeOK
<1>4. \A k \in DOMAIN main : ApprovedFor(author[main[k]], main[k])'
  <2> SUFFICES ASSUME NEW k \in DOMAIN main PROVE ApprovedFor(author[main[k]], main[k])'
    OBVIOUS
  <2>1. PICK t, c : t = author[main[k]] /\ c = main[k] /\ ApprovedFor(t, c)
    BY <1>1 DEF RunInv, RemoteInv
  <2>2. ApprovedFor(t, c)' /\ t = author'[main'[k]] /\ c = main'[k]
    BY <1>3, <2>1, History
  <2> QED BY <2>2 DEF ApprovedFor
<1>5. CASE main' = main
  BY <1>2, <1>4, <1>5
<1>6. ASSUME NEW w \in Worker, pc[w] = "mergePush", PushMain(w) PROVE MainOnlyApproved'
  <2>1. PICK t, c : t = job[w] /\ c = sha[w] /\ ApprovedFor(t, c) /\ c \in Commit /\ author[c] = t /\ t \in Task
    BY <1>0, <1>6 DEF MergeInv, BusyInv, Busy
  <2>2. ApprovedFor(t, c)' /\ author'[c] = t
    BY <2>1, History
  <2>3. CASE main' # main
    <3>1. PICK new : DOMAIN main' = DOMAIN main \cup {new} /\ main'[new] = c
      BY <1>0, <1>6, <2>1, <2>3, MainGrows
    <3>2. ApprovedFor(author[main[new]], main[new])'
      BY <2>2, <3>1 DEF ApprovedFor
    <3> QED BY <1>2, <1>4, <3>1, <3>2
  <2> QED BY <1>5, <2>3
<1>7. ASSUME NEW w \in Worker, CommitWork(w) \/ PushBranch(w) \/ AskMerge(w) \/ ReportMerged(w)
      PROVE  main' = main
  BY <1>7 DEF CommitWork, PushBranch, AskMerge, ReportMerged, remoteVars
<1> QED BY <1>5, <1>6, <1>7 DEF Shape, remoteVars

\* Every step keeps what is being merged approved for its task.
LEMMA MergeStep ==
  ASSUME RunInv, Shape, RunTypeOK' PROVE MergeInv'
<1>0. RunTypeOK /\ BusyInv /\ MergeInv
  BY DEF RunInv
<1> USE DEF Kept4, Rests, Fails, Starts, Ends, Retreats
<1>1. \A j, k \in DOMAIN main' : main'[j] = main'[k] => j = k
  <2>1. CASE main' = main
    BY <1>0, <2>1 DEF MergeInv
  <2>2. ASSUME NEW w \in Worker, pc[w] = "mergePush", PushMain(w)
        PROVE  \A j, k \in DOMAIN main' : main'[j] = main'[k] => j = k
    <3>1. CASE main' # main
      <4> DEFINE new == Len(main) + 1
      <4>1. /\ DOMAIN main' = DOMAIN main \cup {new} /\ main'[new] = sha[w]
            /\ \A k \in DOMAIN main : main[k] # sha[w] /\ main'[k] = main[k]
        BY <1>0, <2>2, <3>1, MainGrows DEF MergeInv
      <4> HIDE DEF new
      <4> QED BY <1>0, <4>1 DEF MergeInv
    <3> QED BY <2>1, <3>1
  <2>3. ASSUME NEW w \in Worker, CommitWork(w) \/ PushBranch(w) \/ AskMerge(w) \/ ReportMerged(w)
        PROVE  main' = main
    BY <2>3 DEF CommitWork, PushBranch, AskMerge, ReportMerged, remoteVars
  <2> QED BY <2>1, <2>2, <2>3 DEF Shape, remoteVars
<1> DEFINE Holds(u) ==
      /\ seen[u] <= Len(main)
      /\ pc[u] \in {"merging", "mergePush"} =>
           sha[u] \in Commit /\ author[sha[u]] = job[u] /\ ApprovedFor(job[u], sha[u])
      /\ pc[u] = "report" =>
           sha[u] \in Commit /\ \E k \in DOMAIN main : author[main[k]] = job[u]
\* A worker that keeps its job, at the same place, or between the two merge steps.
<1>2. ASSUME NEW u \in Worker, Kept4(u), pc[u] \in Busy,
             \/ pc'[u] = pc[u] \/ pc'[u] = "failing"
             \/ pc[u] = "merging" /\ pc'[u] = "mergePush"
             \/ pc'[u] \notin {"merging", "mergePush", "report"}
      PROVE  Holds(u)'
  <2>1. job[u] \in Task /\ seen[u] <= Len(main) /\ seen[u] \in Nat /\ main \in Seq(Commit)
    BY <1>0, <1>2 DEF BusyInv, MergeInv, RunTypeOK
  <2>2. seen'[u] <= Len(main')
    BY <1>2, <2>1, History DEF RunTypeOK
  <2>3. ASSUME pc'[u] \in {"merging", "mergePush"}
        PROVE  sha'[u] \in Commit /\ author'[sha'[u]] = job'[u] /\ ApprovedFor(job[u], sha[u])'
    <3>1. PICK t, c : t = job[u] /\ c = sha[u] /\ ApprovedFor(t, c) /\ c \in Commit /\ author[c] = t
      BY <1>0, <1>2, <2>3 DEF MergeInv
    <3>2. ApprovedFor(t, c)' /\ author'[c] = t
      BY <2>1, <3>1, History
    <3> QED BY <1>2, <3>1, <3>2 DEF ApprovedFor
  <2>4. ASSUME pc'[u] = "report"
        PROVE  sha'[u] \in Commit /\ \E k \in DOMAIN main' : author'[main'[k]] = job'[u]
    <3>1. PICK k \in DOMAIN main : author[main[k]] = job[u] /\ sha[u] \in Commit
      BY <1>0, <1>2, <2>4 DEF MergeInv
    <3>2. main[k] \in Commit
      BY <2>1
    <3> QED BY <1>2, <2>1, <3>1, <3>2, History
  <2> QED BY <2>2, <2>3, <2>4
<1>3. ASSUME NEW u \in Worker, Retreats(u) PROVE Holds(u)'
  <2>1. main \in Seq(Commit) /\ main' \in Seq(Commit) /\ Len(main) <= Len(main')
    BY <1>0, History DEF RunTypeOK
  <2>2. CASE pc[u] \in Busy /\ Kept4(u)
    BY <1>2, <1>3, <2>2 DEF Busy
  <2>3. CASE pc[u] \notin Busy /\ Kept4(u)
    <3>1. pc'[u] \notin {"merging", "mergePush", "report"}
      BY <1>3, <2>3 DEF Busy
    <3>2. seen[u] <= Len(main) /\ seen[u] \in Nat /\ seen'[u] = seen[u]
      BY <1>0, <2>3 DEF MergeInv, RunTypeOK
    <3> QED BY <2>1, <3>1, <3>2
  <2>4. CASE Ends(u)
    BY <2>1, <2>4
  <2> QED BY <1>3, <2>2, <2>3, <2>4
<1>4. ASSUME NEW w \in Worker, UNCHANGED remoteVars,
             Claims(w) \/ Runs(w) \/ Proceeds(w) \/ Finds(w)
      PROVE  Holds(w)'
  <2>1. CASE Proceeds(w)
    BY <1>2, <2>1 DEF Proceeds, Busy
  <2>2. CASE Claims(w)
    BY <1>0, <1>4, <2>2 DEF Claims, MergeInv, remoteVars
  <2>3. CASE Runs(w)
    BY <1>0, <1>4, <2>3 DEF Runs, remoteVars, RunTypeOK
  <2>4. CASE Finds(w)
    <3>1. PICK t, c : t = job[w] /\ c = sha'[w] /\ ApprovedFor(t, c) /\ t \in Task
      BY <1>0, <2>4 DEF Finds, BusyInv, Busy
    <3>2. c \in Commit /\ author[c] = t /\ ApprovedFor(t, c)'
      BY <3>1, ApprovedAuthor, History
    <3>3. seen'[w] <= Len(main') /\ author' = author /\ job'[w] = job[w] /\ pc'[w] = "merging"
      BY <1>0, <1>4, <2>4 DEF Finds, MergeInv, remoteVars
    <3>4. ApprovedFor(job[w], sha[w])'
      BY <3>1, <3>2, <3>3 DEF ApprovedFor
    <3> QED BY <3>1, <3>2, <3>3, <3>4
  <2> QED BY <1>4, <2>1, <2>2, <2>3, <2>4
<1>5. ASSUME NEW w \in Worker, CommitWork(w) PROVE Holds(w)'
  <2>1. pc[w] = "commit" /\ pc'[w] = "push" /\ seen' = seen /\ main' = main
    BY <1>0, <1>5 DEF CommitWork, Goto, RunTypeOK
  <2> QED BY <1>0, <2>1 DEF MergeInv
<1>6. ASSUME NEW w \in Worker, pc[w] = "push", pc'[w] \in {"review", "askMerge"}, Kept4(w)
      PROVE  Holds(w)'
  BY <1>2, <1>6 DEF Busy
<1>7. ASSUME NEW w \in Worker, pc[w] = "mergePush", PushMain(w), pc'[w] = "report",
             sha'[w] = Last(main'), job'[w] = job[w], seen'[w] = seen[w]
      PROVE  Holds(w)'
  <2>1. sha[w] \in Commit /\ author[sha[w]] = job[w] /\ author' = author
    BY <1>0, <1>7, NoPush DEF MergeInv
  <2>2. main' \in Seq(Commit) /\ main' # <<>> /\ \E k \in DOMAIN main' : main'[k] = sha[w]
    BY <1>0, <1>7, <2>1, MainGrows
  <2>3. sha'[w] \in Commit
    BY <1>7, <2>2, LastIn
  <2>4. seen[w] <= Len(main) /\ seen[w] \in Nat /\ main \in Seq(Commit) /\ Len(main) <= Len(main')
    BY <1>0, <1>7, <2>1, MainGrows DEF MergeInv, RunTypeOK
  <2> QED BY <1>7, <2>1, <2>2, <2>3, <2>4
<1>8. \A u \in Worker : Holds(u)'
  <2> HIDE DEF Holds
  <2> QED BY <1>3, <1>4, <1>5, <1>6, <1>7 DEF Shape, Alone
<1> QED BY <1>1, <1>8 DEF MergeInv

\* After every step what is completed is merged.
LEMMA CompletedMergedStep ==
  ASSUME RunInv, Shape, RunTypeOK' PROVE CompletedIsMerged'
<1>0. RunTypeOK /\ BusyInv /\ MergeInv /\ CompletedIsMerged /\ TypeOK
  BY DEF RunInv, RemoteInv, IInv
<1>1. ASSUME NEW t \in Task, NEW k \in DOMAIN main, author[main[k]] = t
      PROVE  k \in DOMAIN main' /\ author'[main'[k]] = t
  <2>1. main[k] \in Commit
    BY <1>0 DEF RunTypeOK
  <2> QED BY <1>1, <2>1, History
<1>2. ASSUME \A t \in Task : status'[t] = "COMPLETED" => status[t] = "COMPLETED" PROVE CompletedIsMerged'
  BY <1>0, <1>1, <1>2 DEF CompletedIsMerged
<1>3. ASSUME NEW w \in Worker, pc[w] = "report", ReportMerged(w) PROVE CompletedIsMerged'
  <2>1. \E k \in DOMAIN main : author[main[k]] = job[w]
    BY <1>0, <1>3 DEF MergeInv
  <2>2. \A t \in Task : status'[t] = "COMPLETED" => status[t] = "COMPLETED" \/ t = job[w]
    BY <1>0, <1>3, ReportStep DEF TypeOK
  <2> QED BY <1>0, <1>1, <2>1, <2>2 DEF CompletedIsMerged
<1>4. ASSUME NEW w \in Worker, pc[w] = "askMerge", AskMerge(w) PROVE CompletedIsMerged'
  <2>1. status' = [status EXCEPT ![job[w]] = "WAITING_FOR_HUMAN"]
    BY <1>4, AskStep
  <2> QED BY <1>0, <1>2, <2>1 DEF TypeOK
<1>5. ASSUME Background PROVE CompletedIsMerged'
  BY <1>2, <1>5 DEF Background
<1> QED BY <1>3, <1>4, <1>5, PushesKeep DEF Shape

\* After every step a checkout has the merges of the dependencies.
LEMMA CheckoutStep ==
  ASSUME RunInv, Shape, RunTypeOK', BusyInv' PROVE CheckoutHasDeps'
<1>0. /\ RunTypeOK /\ BusyInv /\ MergeInv /\ CompletedIsMerged /\ CheckoutHasDeps /\ TypeOK
      /\ StartedAfterDeps
  BY DEF RunInv, RemoteInv, IInv, StatusInv
<1> USE DEF Kept4, Rests, Fails, Starts, Ends, Retreats
<1> DEFINE Out == Working \ {"claimed"}
           HasDeps(u) == \A d \in deps[job[u]] : \E k \in 1..seen[u] : author[main[k]] = d
\* A worker that keeps its checkout.
<1>1. ASSUME NEW u \in Worker, pc[u] \in Out, job'[u] = job[u], seen'[u] = seen[u]
      PROVE  HasDeps(u)'
  <2>1. /\ job[u] \in Task /\ deps'[job[u]] = deps[job[u]] /\ deps[job[u]] \subseteq Task
        /\ seen[u] \in Nat /\ seen[u] <= Len(main) /\ main \in Seq(Commit)
    BY <1>0, <1>1, History DEF BusyInv, Working, MergeInv, RunTypeOK, TypeOK
  <2>2. \A k \in 1..seen[u] : k \in DOMAIN main /\ main[k] \in Commit
    BY <2>1
  <2>3. \A d \in deps[job[u]] : \E k \in 1..seen[u] : author[main[k]] = d
    BY <1>0, <1>1 DEF CheckoutHasDeps
  <2> QED BY <1>1, <2>1, <2>2, <2>3, History
<1>2. ASSUME NEW w \in Worker, Runs(w), UNCHANGED remoteVars, Background PROVE HasDeps(w)'
  <2>1. job[w] \in Task /\ status[job[w]] \in InFlight /\ deps'[job[w]] = deps[job[w]]
    BY <1>0, <1>2, History DEF Runs, BusyInv, Busy, Owns
  <2>2. \A d \in deps[job[w]] : d \in Task /\ status[d] = "COMPLETED"
    BY <1>0, <2>1 DEF StartedAfterDeps, TypeOK, InFlight
  <2>3. \A d \in deps[job[w]] : \E k \in DOMAIN main : author[main[k]] = d
    BY <1>0, <2>2 DEF CompletedIsMerged
  <2>4. /\ seen'[w] = Len(main) /\ job'[w] = job[w] /\ main' = main /\ author' = author
        /\ DOMAIN main = 1..Len(main)
    BY <1>0, <1>2 DEF Runs, remoteVars, RunTypeOK
  <2> QED BY <2>1, <2>3, <2>4
<1>3. ASSUME NEW u \in Worker, Retreats(u), pc'[u] \in Out PROVE HasDeps(u)'
  <2>1. pc[u] \in Out /\ Kept4(u)
    BY <1>3 DEF Working, Busy
  <2> QED BY <1>1, <2>1
<1>4. ASSUME NEW w \in Worker, UNCHANGED remoteVars, Background, pc'[w] \in Out,
             Claims(w) \/ Runs(w) \/ Proceeds(w) \/ Finds(w)
      PROVE  HasDeps(w)'
  <2>1. CASE Runs(w)
    BY <1>2, <1>4, <2>1
  <2>2. CASE ~ Runs(w)
    <3>1. pc[w] \in Out /\ job'[w] = job[w] /\ seen'[w] = seen[w]
      BY <1>4, <2>2 DEF Claims, Proceeds, Finds, Working, Busy
    <3> QED BY <1>1, <3>1
  <2> QED BY <2>1, <2>2
<1>5. ASSUME NEW w \in Worker, CommitWork(w) PROVE HasDeps(w)'
  <2>1. pc[w] \in Out /\ job'[w] = job[w] /\ seen'[w] = seen[w]
    BY <1>0, <1>5 DEF CommitWork, Working, Busy
  <2> QED BY <1>1, <2>1
<1>6. ASSUME NEW w \in Worker, pc[w] \in {"push", "mergePush"}, job'[w] = job[w], seen'[w] = seen[w]
      PROVE  HasDeps(w)'
  BY <1>1, <1>6 DEF Working, Busy
<1>7. \A u \in Worker : pc'[u] \in Out => HasDeps(u)'
  <2> HIDE DEF HasDeps, Out
  <2> QED BY <1>3, <1>4, <1>5, <1>6 DEF Shape, Alone
<1> QED BY <1>7 DEF CheckoutHasDeps

-----------------------------------------------------------------------------
(***************************************************************************)
(* Attempts.                                                               *)
(***************************************************************************)

\* A task that was never created was never claimed.
AttemptsInv ==
  /\ AttemptsLeft
  /\ \A t \in Task : status[t] = "NONE" => attempts[t] = 0

\* Every step leaves a queued task an attempt.
LEMMA AttemptsStep ==
  ASSUME RunInv, AttemptsInv, [RunNext]_allVars PROVE AttemptsInv'
<1>0. TypeOK /\ BusyInv
  BY DEF RunInv, IInv
<1> USE BoundAssumption DEF AttemptsInv, AttemptsLeft, TypeOK
<1>1. ASSUME attempts' = attempts,
             \A t \in Task : status'[t] \in {"PENDING", "NONE"} =>
               status[t] = status'[t] \/ (attempts[t] < MaxAttempts /\ status'[t] = "PENDING")
      PROVE  AttemptsInv'
  BY <1>0, <1>1
<1>2. ASSUME NEW t \in Task, attempts' = [attempts EXCEPT ![t] = 0], NEW s, s # "NONE",
             status' = [status EXCEPT ![t] = s]
      PROVE  AttemptsInv'
  BY <1>0, <1>2
<1>3. ASSUME NEW W, RequeueTasksOf(W), attempts' = attempts PROVE AttemptsInv'
  <2>1. \A t \in Task : status'[t] \in {status[t], Requeued(t)}
    BY <1>3 DEF RequeueTasksOf
  <2> QED BY <1>0, <1>1, <1>3, <2>1 DEF Requeued
<1>4. ASSUME NEW S, CancelAll(S), attempts' = attempts PROVE AttemptsInv'
  BY <1>1, <1>4 DEF CancelAll
<1>5. ASSUME NEW t \in Task, NEW s, s \notin {"PENDING", "NONE"}, status' = [status EXCEPT ![t] = s],
             attempts' = attempts
      PROVE  AttemptsInv'
  BY <1>0, <1>1, <1>5
<1>6. ASSUME OwnerNext PROVE AttemptsInv'
  <2>1. ASSUME NEW t \in Task, NEW D \in SUBSET Task, CreateTask(t, D) PROVE AttemptsInv'
    BY <1>0, <2>1 DEF CreateTask, Created
  <2>2. CASE CreatePlanTasks
    <3>1. \A t \in PlanTask : status[t] = "NONE"
      BY <2>2 DEF RunInv, IInv, StatusInv, PlanUnborn, CreatePlanTasks
    <3>2. \A t \in Task : status'[t] = IF t \in PlanTask THEN "PENDING" ELSE status[t]
      BY <2>2 DEF CreatePlanTasks
    <3> QED BY <1>0, <1>1, <2>2, <3>1, <3>2 DEF CreatePlanTasks
  <2>3. ASSUME NEW t \in Task, CancelTask(t) PROVE AttemptsInv'
    BY <1>4, <2>3 DEF CancelTask, workVars
  <2>4. CASE CancelRequest
    BY <1>4, <2>4 DEF CancelRequest, workVars
  <2>5. ASSUME NEW t \in Task, RetryTask(t) PROVE AttemptsInv'
    BY <1>2, <2>5 DEF RetryTask, Move
  <2>6. ASSUME NEW i \in DOMAIN approvals, Decide(i) PROVE AttemptsInv'
    <3>1. approvals[i].task \in Task
      BY <1>0, RowTask
    <3>2. CASE Approve(i) \/ RequestChanges(i)
      BY <1>2, <3>1, <3>2 DEF Approve, RequestChanges, Move
    <3>3. CASE Reject(i)
      BY <1>4, <3>3 DEF Reject, workVars
    <3> QED BY <2>6, <3>2, <3>3 DEF Decide
  <2> QED BY <1>6, <2>1, <2>2, <2>3, <2>4, <2>5, <2>6 DEF OwnerNext
<1>7. ASSUME NEW w \in Worker, NEW t \in Task, Claim(w, t) PROVE AttemptsInv'
  <2>1. status[t] = "PENDING" /\ attempts[t] < MaxAttempts /\ attempts[t] \in Nat
    BY <1>0, <1>7 DEF Claim, Claimable
  <2> QED BY <1>0, <1>7, <2>1 DEF Claim
<1>8. ASSUME NEW w \in Worker, pc[w] \in Busy,
             NEW to \in {"RUNNING", "TESTING", "REVIEWING", "FAILED"}, Transition(w, job[w], to)
      PROVE  AttemptsInv'
  BY <1>0, <1>5, <1>8 DEF Transition, Move, BusyInv, workVars
<1>9. ASSUME NEW w \in Worker, pc[w] \in Busy, SendBack(w) PROVE AttemptsInv'
  BY <1>0, <1>2, <1>9 DEF SendBack, Review, Move, BusyInv
<1>10. ASSUME NEW w \in Worker, pc[w] \in Busy, AskMerge(w) \/ ReportMerged(w) PROVE AttemptsInv'
  <2>1. /\ attempts' = attempts
        /\ \/ status' = [status EXCEPT ![job[w]] = "WAITING_FOR_HUMAN"]
           \/ status' = [status EXCEPT ![job[w]] = "COMPLETED"]
    BY <1>10 DEF AskMerge, ReportMerged, Authorize, Complete, Move, workVars
  <2> QED BY <1>0, <1>5, <1>10, <2>1 DEF BusyInv
<1>11. ASSUME UNCHANGED <<status, attempts>> PROVE AttemptsInv'
  BY <1>11
<1>12. ASSUME NEW w \in Worker, Start(w) \/ Reap(w) PROVE AttemptsInv'
  BY <1>3, <1>12 DEF Start, Reap, RegisterWorker, ReapOnce, workVars
<1>13. ASSUME NEW w \in Worker, ClaimTask(w) \/ LoseClaim(w) PROVE AttemptsInv'
  BY <1>7, <1>13 DEF ClaimTask, LoseClaim
<1>14. ASSUME NEW w \in Worker, GetApproved(w) PROVE AttemptsInv'
  <2>1. pc[w] \in Busy /\ job[w] \in Task
    BY <1>0, <1>14 DEF GetApproved, Busy, BusyInv
  <2>2. \/ UNCHANGED vars
        \/ attempts' = attempts /\ status' = [status EXCEPT ![job[w]] = "WAITING_FOR_HUMAN"]
    BY <1>14 DEF GetApproved, Authorize, Move, workVars
  <2> QED BY <1>5, <1>11, <2>1, <2>2 DEF vars
<1>15. ASSUME NEW w \in Worker,
              Run(w) \/ Develop(w) \/ StartReview(w) \/ MergeLocally(w) \/ ReportFailure(w)
       PROVE  AttemptsInv'
  BY <1>8, <1>11, <1>15 DEF Run, Develop, StartReview, MergeLocally, ReportFailure, SetStatus, Busy, vars
<1>16. ASSUME NEW w \in Worker, LoseReply(w) PROVE AttemptsInv'
  BY <1>8, <1>9, <1>10, <1>11, <1>16 DEF LoseReply, SetStatus, Busy, PushBranch, PushMain, vars
<1>17. ASSUME NEW w \in Worker,
              \/ CommitWork(w) \/ Push(w) \/ ReviewPasses(w) \/ MergePush(w) \/ StepFails(w)
              \/ CancelArrives(w) \/ LoseFailure(w) \/ Crash(w) \/ Beat(w)
       PROVE  AttemptsInv'
  BY <1>11, <1>17 DEF CommitWork, Push, ReviewPasses, MergePush, StepFails, CancelArrives, LoseFailure,
     Crash, Beat, PushBranch, PushMain, vars, workVars
<1>18. ASSUME NEW w \in Worker, ReviewRejects(w) \/ Park(w) \/ Report(w) PROVE AttemptsInv'
  BY <1>9, <1>10, <1>18 DEF ReviewRejects, Park, Report, Busy
<1>19. CASE Owner \/ UNCHANGED allVars
  BY <1>6, <1>11, <1>19 DEF Owner, allVars, vars
<1> HIDE DEF AttemptsInv
<1> QED
  BY <1>12, <1>13, <1>14, <1>15, <1>16, <1>17, <1>18, <1>19 DEF RunNext, Advance

-----------------------------------------------------------------------------
(***************************************************************************)
(* Theorems.                                                               *)
(***************************************************************************)

\* The invariant holds initially.
LEMMA RunInvInit == RunInit => RunInv /\ AttemptsInv
<1> SUFFICES ASSUME RunInit PROVE RunInv /\ AttemptsInv
  OBVIOUS
<1>1. Init /\ IInv
  BY TypeInit, StatusInit, GateInit DEF RunInit, IInv
<1>2. /\ approvals = <<>> /\ main = <<>> /\ \A t \in Task : status[t] = "NONE" /\ branch[t] = <<>>
      /\ \A w \in Worker : pc[w] = "down" /\ tip[w] = <<>> /\ seen[w] = 0 /\ job[w] = NoTask
  BY DEF RunInit, Init
<1>3. RunTypeOK
  BY RunTypeInit
<1>4. BusyInv
  BY <1>2 DEF BusyInv, Busy
<1>5. StageInv
  BY <1>2 DEF StageInv, Busy
<1>6. AuthorInv
  BY <1>2 DEF AuthorInv
<1>7. TipInv /\ StaleInv
  BY <1>2 DEF TipInv, StaleInv, Developing, Pushed
<1>8. MergeInv
  BY <1>2 DEF MergeInv
<1>9. RemoteInv
  BY <1>2 DEF RemoteInv, AskedIsPushed, MainOnlyApproved, CompletedIsMerged, CheckoutHasDeps, Working, Busy
<1>10. AttemptsInv
  BY BoundAssumption DEF AttemptsInv, AttemptsLeft, RunInit, Init
<1> QED BY <1>1, <1>3, <1>4, <1>5, <1>6, <1>7, <1>8, <1>9, <1>10 DEF RunInv

\* Every step keeps the invariant and is a step of TaskLifecycle or a stutter.
LEMMA RunInvStep ==
  RunInv /\ [RunNext]_allVars => RunInv' /\ [Next]_vars
<1> SUFFICES ASSUME RunInv, [RunNext]_allVars PROVE RunInv' /\ [Next]_vars
  OBVIOUS
<1>1. [Next]_vars
  BY NextStep
<1>2. IInv'
  BY <1>1, TypeStep, StatusStep, GateStep DEF RunInv, IInv
<1>3. RunTypeOK' /\ Shape
  BY RunTypeStep, ShapeStep
<1>4. BusyInv' /\ StageInv' /\ AuthorInv'
  BY <1>2, <1>3, BusyStep, StageStep, AuthorStep
<1>5. TipInv' /\ StaleInv' /\ MergeInv'
  BY <1>2, <1>3, TipStep, StaleStep, MergeStep
<1>6. AskedIsPushed' /\ MainOnlyApproved' /\ CompletedIsMerged' /\ CheckoutHasDeps'
  BY <1>3, <1>4, AskedStep, MainStep, CompletedMergedStep, CheckoutStep
<1> QED BY <1>1, <1>2, <1>3, <1>4, <1>5, <1>6 DEF RunInv, RemoteInv

\* RunInv holds initially and every step keeps it, whatever the constants and faults.
THEOREM RunInvariant == RunSpec => []RunInv
<1>1. RunInit => RunInv
  BY RunInvInit
<1>2. RunInv /\ [RunNext]_allVars => RunInv'
  BY RunInvStep
<1> QED BY <1>1, <1>2, PTL DEF RunSpec

\* The control plane, driven by these workers, the network and the crashes, behaves
\* as TaskLifecycle says: every theorem about it holds of the composed system.
THEOREM RunImplementsLifecycle == RunSpec => Spec
<1>1. RunInit => Init
  BY DEF RunInit
<1>2. RunInv /\ [RunNext]_allVars => [Next]_vars
  BY RunInvStep
<1> QED BY <1>1, <1>2, RunInvariant, PTL DEF RunSpec, Spec

\* The merge gate promises the same of the composed system as of the control plane
\* alone, and no step of a worker revises what a human decided.
THEOREM RunImplementsGate == RunSpec => ImplementsHumanGate /\ DecisionsAreFinal
BY RunImplementsLifecycle, Refinement, DecisionsFinal

\* Everything on the protected branch was approved by a human, for its task.
THEOREM MainApproved == RunSpec => []MainOnlyApproved
<1>1. RunInv => MainOnlyApproved
  BY DEF RunInv, RemoteInv
<1> QED BY <1>1, RunInvariant, PTL

\* No task's work enters the protected branch twice.
THEOREM MergedOnceCorrect == RunSpec => []MergedOnce
<1>1. RunInv => MergedOnce
  <2> SUFFICES ASSUME RunInv, NEW j \in DOMAIN main, NEW k \in DOMAIN main,
                      author[main[j]] = author[main[k]]
               PROVE  j = k
    BY DEF MergedOnce
  <2>1. PICK i \in DOMAIN approvals :
          /\ approvals[i].status = "APPROVED" /\ approvals[i].gate = MergeGate
          /\ approvals[i].version = main[j] /\ approvals[i].task = author[main[j]]
    BY DEF RunInv, RemoteInv, MainOnlyApproved
  <2>2. PICK n \in DOMAIN approvals :
          /\ approvals[n].status = "APPROVED" /\ approvals[n].gate = MergeGate
          /\ approvals[n].version = main[k] /\ approvals[n].task = author[main[k]]
    BY DEF RunInv, RemoteInv, MainOnlyApproved
  <2>3. i = n
    BY <2>1, <2>2 DEF RunInv, IInv, GateInv, OneLiveGate
  <2> QED BY <2>1, <2>2, <2>3 DEF RunInv, MergeInv
<1> QED BY <1>1, RunInvariant, PTL

\* A completed task is on the protected branch.
THEOREM CompletedMerged == RunSpec => []CompletedIsMerged
<1>1. RunInv => CompletedIsMerged
  BY DEF RunInv, RemoteInv
<1> QED BY <1>1, RunInvariant, PTL

\* A run works on a checkout that contains the merges of all its dependencies.
THEOREM CheckoutComplete == RunSpec => []CheckoutHasDeps
<1>1. RunInv => CheckoutHasDeps
  BY DEF RunInv, RemoteInv
<1> QED BY <1>1, RunInvariant, PTL

\* Nobody implements a task whose merge is approved: worker.go's own check never fires.
THEOREM RefusalUnreachable == RunSpec => []NeverRefused
<1>1. RunInv => NeverRefused
  <2> SUFFICES ASSUME RunInv, NEW w \in Worker, pc[w] = "askMerge", Owns(w, job[w])
               PROVE  Approved(job[w], MergeGate) = {}
    BY DEF NeverRefused
  <2>1. stage[job[w]] = "implement"
    BY DEF RunInv, StageInv, Implementing, Pushed, Busy
  <2> QED BY <2>1 DEF RunInv, StageInv, Approved, ApprovalIds, Live
<1> QED BY <1>1, RunInvariant, PTL

\* The commit a human is asked about, or approved, is the last one of its branch.
THEOREM AskedPushed == RunSpec => []AskedIsPushed
<1>1. RunInv => AskedIsPushed
  BY DEF RunInv, RemoteInv
<1> QED BY <1>1, RunInvariant, PTL

\* A task on the queue has an attempt left, whatever is lost or crashes.
THEOREM AttemptsCorrect == RunSpec => []AttemptsLeft
<1>1. RunInit => AttemptsInv
  BY RunInvInit
<1>2. RunInv /\ AttemptsInv /\ [RunNext]_allVars => AttemptsInv'
  BY AttemptsStep
<1>3. AttemptsInv => AttemptsLeft
  BY DEF AttemptsInv
<1> QED BY <1>1, <1>2, <1>3, RunInvariant, PTL DEF RunSpec
=============================================================================

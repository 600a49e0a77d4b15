------------------------------ MODULE WorkerRun ------------------------------
(***************************************************************************)
(* The control plane (TaskLifecycle) composed with the worker processes    *)
(* that drive it (internal/worker), the git remote they push to and the    *)
(* network and crashes between them.                                       *)
(*                                                                         *)
(* A call of the worker is the handler's transaction together with the     *)
(* worker's reaction to the reply: what others do in between commutes with *)
(* the reaction, which is local.  It can fail in two ways: StepFails (the  *)
(* request was refused or lost, or local work failed) and LoseReply (the   *)
(* handler ran and the worker never learnt, client.go:27).  All tasks are  *)
(* code tasks of one repository.                                           *)
(***************************************************************************)
EXTENDS TaskLifecycle, SequencesExt

CONSTANTS
  Reviewed,   \* tasks whose review flag is set
  Faults,     \* which of the three faults below the environment commits
  NoTask

ASSUME ReviewedAssumption == Reviewed \subseteq Task
ASSUME FaultAssumption == Faults \subseteq {"crash", "lateHeartbeat", "lostReply"}
ASSUME RunNoneAssumption == NoTask \notin Task

\* This program asks for one gated action, to merge, from the merge stage.
ASSUME RunCallAssumption == MergeGate \in Gate => <<MergeGate, "merge">> \in GatedCall

VARIABLES
  pc,           \* where the worker process stands
  job,          \* Worker.current: the claimed task
  tip,          \* the local branch: commits on top of the default branch
  seen,         \* length of the default branch as last fetched
  sha,          \* the approved commit; after the push, the one HEAD merged
  cancelReply,  \* a heartbeat reply {cancel: true} under way, for this task
  branch,       \* remote branch ai/task-N
  main,         \* remote default branch: the commits its merges brought in
  author        \* the task each commit was made for

localVars  == <<pc, job, tip, seen, sha, cancelReply>>
remoteVars == <<branch, main, author>>
allVars    == <<vars, localVars, remoteVars>>

Busy == {"claimed", "develop", "commit", "push", "review", "verdict", "askMerge",
         "askApproved", "merging", "mergePush", "report", "failing"}
Working == Busy \ {"failing"}

RunInit ==
  /\ Init
  /\ pc = [w \in Worker |-> "down"]
  /\ job = [w \in Worker |-> NoTask]
  /\ tip = [w \in Worker |-> <<>>]
  /\ seen = [w \in Worker |-> 0]
  /\ sha = [w \in Worker |-> NoCommit]
  /\ cancelReply = [w \in Worker |-> NoTask]
  /\ branch = [t \in Task |-> <<>>]
  /\ main = <<>>
  /\ author = [c \in Commit |-> NoTask]

-----------------------------------------------------------------------------
Goto(w, l) == pc' = [pc EXCEPT ![w] = l]

\* The worktree is gone and nothing is current: Step returned, or the process died.
Reset(w, l) ==
  /\ Goto(w, l)
  /\ job' = [job EXCEPT ![w] = NoTask]
  /\ tip' = [tip EXCEPT ![w] = <<>>]
  /\ seen' = [seen EXCEPT ![w] = 0]
  /\ sha' = [sha EXCEPT ![w] = NoCommit]

\* Step returned.
Ended(w) == Reset(w, "idle")

Kept(w) == UNCHANGED <<job, tip, seen, sha, cancelReply>>

-----------------------------------------------------------------------------
(***************************************************************************)
(* What each call does at the server and at the remote, without the        *)
(* worker's reaction.                                                      *)
(***************************************************************************)
\* Commits not made yet; which of them is made next does not matter.
Fresh == {c \in Commit : author[c] = NoTask}
NewCommit == CHOOSE c \in Fresh : TRUE

\* Mutant: git push --force.
MutPushBranch(w) ==
  /\ branch' = [branch EXCEPT ![job[w]] = tip[w]]
  /\ UNCHANGED <<vars, main, author>>

\* git push without force: refused unless the remote is an ancestor.
PushBranch(w) ==
  /\ IsPrefix(branch[job[w]], tip[w])
  /\ branch' = [branch EXCEPT ![job[w]] = tip[w]]
  /\ UNCHANGED <<vars, main, author>>

\* Mutant: the same commit is merged again.
MutPushMain(w) ==
  /\ Len(main) = seen[w]
  /\ main' = Append(main, sha[w])
  /\ UNCHANGED <<vars, branch, author>>

\* git push HEAD:default.  "merge --no-ff" of a commit that is already in is
\* "Already up to date": HEAD stays on the fetched default branch.
PushMain(w) ==
  /\ Len(main) = seen[w]
  /\ main' = IF sha[w] \in ToSet(main) THEN main ELSE Append(main, sha[w])
  /\ UNCHANGED <<vars, branch, author>>

\* The last step of a merge run: COMPLETED with the sha of HEAD.
ReportMerged(w) == Complete(w, job[w], sha[w]) /\ UNCHANGED remoteVars

AskMerge(w) ==
  /\ Authorize(w, job[w], MergeGate, "merge", Last(tip[w]))
  /\ UNCHANGED remoteVars

SendBack(w) == Review(w, job[w]) /\ UNCHANGED remoteVars

SetStatus(w, to) == Transition(w, job[w], to) /\ UNCHANGED remoteVars

-----------------------------------------------------------------------------
(***************************************************************************)
(* The worker's loop (worker.go).                                          *)
(***************************************************************************)

\* Run: Register, then the loop.
Start(w) ==
  /\ pc[w] = "down"
  /\ RegisterWorker(w)
  /\ Goto(w, "idle")
  /\ Kept(w) /\ UNCHANGED remoteVars

ClaimTask(w) ==
  /\ pc[w] = "idle"
  /\ \E t \in Task : Claim(w, t) /\ job' = [job EXCEPT ![w] = t]
  /\ Goto(w, "claimed")
  /\ UNCHANGED <<tip, seen, sha, cancelReply, remoteVars>>

\* Mutants: the stage is ignored; the clone is never fetched again.
MutRunRestarts(w) ==
  /\ pc[w] = "claimed"
  /\ SetStatus(w, "RUNNING")
  /\ Goto(w, "develop")
  /\ tip' = [tip EXCEPT ![w] = branch[job[w]]]
  /\ seen' = [seen EXCEPT ![w] = Len(main)]
  /\ UNCHANGED <<job, sha, cancelReply>>
MutRunUnfetched(w) ==
  /\ pc[w] = "claimed"
  /\ SetStatus(w, "RUNNING")
  /\ Goto(w, IF stage[job[w]] = "merge" THEN "askApproved" ELSE "develop")
  /\ tip' = [tip EXCEPT ![w] = branch[job[w]]]
  /\ UNCHANGED <<job, seen, sha, cancelReply>>

\* execute: RUNNING, then ensureBase fetches the remote; the stage is the one
\* the claim returned, which only the holder's own calls could have changed.
\* seen is the clone's view of the default branch. A rework's worktree starts at
\* the task's own pushed branch instead, cut from an earlier fetch of a clone
\* that already had the dependencies: they were complete before its first claim.
Run(w) ==
  /\ pc[w] = "claimed"
  /\ SetStatus(w, "RUNNING")
  /\ Goto(w, IF stage[job[w]] = "merge" THEN "askApproved" ELSE "develop")
  /\ tip' = [tip EXCEPT ![w] = branch[job[w]]]
  /\ seen' = [seen EXCEPT ![w] = Len(main)]
  /\ UNCHANGED <<job, sha, cancelReply>>

\* implement: the developer agent ran; TESTING.
Develop(w) ==
  /\ pc[w] = "develop"
  /\ SetStatus(w, "TESTING")
  /\ Goto(w, "commit") /\ Kept(w)

\* implement: tests passed, the change is committed on the local branch and
\* push_branch is authorized, which at low risk only checks who holds the task.
CommitWork(w) ==
  /\ pc[w] = "commit"
  /\ Owns(w, job[w]) /\ Fresh # {}
  /\ author' = [author EXCEPT ![NewCommit] = job[w]]
  /\ tip' = [tip EXCEPT ![w] = Append(@, NewCommit)]
  /\ Goto(w, "push")
  /\ UNCHANGED <<vars, job, seen, sha, cancelReply, branch, main>>

Push(w) ==
  /\ pc[w] = "push"
  /\ PushBranch(w)
  /\ Goto(w, IF job[w] \in Reviewed THEN "review" ELSE "askMerge") /\ Kept(w)

StartReview(w) ==
  /\ pc[w] = "review"
  /\ SetStatus(w, "REVIEWING")
  /\ Goto(w, "verdict") /\ Kept(w)

\* review: REQUEST_CHANGES while rounds remain ends the run (errRework)...
ReviewRejects(w) ==
  /\ pc[w] = "verdict"
  /\ SendBack(w)
  /\ Ended(w) /\ UNCHANGED cancelReply

\* ...any other report, or one after the last round, goes on to the gate.
ReviewPasses(w) ==
  /\ pc[w] = "verdict"
  /\ Owns(w, job[w])
  /\ Goto(w, "askMerge") /\ Kept(w) /\ UNCHANGED <<vars, remoteVars>>

\* implement: the gate is opened and the task parked (errParked).
Park(w) ==
  /\ pc[w] = "askMerge"
  /\ AskMerge(w)
  /\ Ended(w) /\ UNCHANGED cancelReply

\* merge: the approved commit, or, with no approval, a gate without a commit.
\* An approval without a commit fails the run (StepFails).
GetApproved(w) ==
  /\ pc[w] = "askApproved"
  /\ IF Approved(job[w], MergeGate) # {}
     THEN /\ Owns(w, job[w])
          /\ ApprovedVersion(job[w], MergeGate) # NoCommit
          /\ sha' = [sha EXCEPT ![w] = ApprovedVersion(job[w], MergeGate)]
          /\ Goto(w, "merging")
          /\ UNCHANGED <<vars, job, tip, seen>>
     ELSE /\ Authorize(w, job[w], MergeGate, "merge", NoCommit)
          /\ Ended(w)
  /\ UNCHANGED <<cancelReply, remoteVars>>

\* merge: git merge --no-ff succeeded locally; TESTING.
MergeLocally(w) ==
  /\ pc[w] = "merging"
  /\ SetStatus(w, "TESTING")
  /\ Goto(w, "mergePush") /\ Kept(w)

\* Mutant: a push that failed goes unnoticed.
MutMergePush(w) ==
  /\ pc[w] = "mergePush"
  /\ PushMain(w) \/ UNCHANGED <<vars, remoteVars>>
  /\ Goto(w, "report") /\ UNCHANGED <<job, tip, seen, sha, cancelReply>>

\* merge: tests passed and the push was accepted; rev-parse HEAD.
MergePush(w) ==
  /\ pc[w] = "mergePush"
  /\ PushMain(w)
  /\ sha' = [sha EXCEPT ![w] = Last(main')]
  /\ Goto(w, "report") /\ UNCHANGED <<job, tip, seen, cancelReply>>

Report(w) ==
  /\ pc[w] = "report"
  /\ ReportMerged(w)
  /\ Ended(w) /\ UNCHANGED cancelReply

\* Step, default case: the run failed; FAILED is reported under the parent
\* context, and a refusal (the task is no longer ours) is only logged.
ReportFailure(w) ==
  /\ pc[w] = "failing"
  /\ IF Owns(w, job[w]) THEN Transition(w, job[w], "FAILED") ELSE UNCHANGED vars
  /\ Ended(w) /\ UNCHANGED <<cancelReply, remoteVars>>

\* Any step of a run may fail and leave everything else as it was: the agent,
\* the tests, git (a conflict, a non-fast-forward push), a refused call.
StepFails(w) ==
  /\ pc[w] \in Working
  /\ Goto(w, "failing") /\ Kept(w) /\ UNCHANGED <<vars, remoteVars>>

Advance(w) ==
  \/ ClaimTask(w) \/ Run(w) \/ Develop(w) \/ CommitWork(w) \/ Push(w)
  \/ StartReview(w) \/ ReviewRejects(w) \/ ReviewPasses(w) \/ Park(w)
  \/ GetApproved(w) \/ MergeLocally(w) \/ MergePush(w) \/ Report(w)
  \/ ReportFailure(w) \/ StepFails(w)

-----------------------------------------------------------------------------
(***************************************************************************)
(* The heartbeat loop: a goroutine beside the main loop.                   *)
(***************************************************************************)

\* The request carries w.current; the reply is computed when the server
\* handles it.  Beats that would change nothing are left out.
Beat(w) ==
  /\ pc[w] # "down" /\ cancelReply[w] = NoTask
  /\ \/ wstatus[w] = "offline"
     \/ pc[w] \in Busy /\ ~Owns(w, job[w])
  /\ wstatus' = [wstatus EXCEPT ![w] = "online"]
  /\ cancelReply' = [cancelReply EXCEPT ![w] =
       IF pc[w] \in Busy /\ ~Owns(w, job[w]) THEN job[w] ELSE NoTask]
  /\ UNCHANGED <<status, holder, stage, workVars, approvals, request>>
  /\ UNCHANGED <<pc, job, tip, seen, sha, remoteVars>>

\* The reply arrives: the run is cancelled if w.current is (again) that task.
CancelArrives(w) ==
  /\ cancelReply[w] # NoTask
  /\ cancelReply' = [cancelReply EXCEPT ![w] = NoTask]
  /\ IF pc[w] \in Working /\ job[w] = cancelReply[w]
     THEN Goto(w, "failing") ELSE UNCHANGED pc
  /\ UNCHANGED <<vars, job, tip, seen, sha, remoteVars>>

-----------------------------------------------------------------------------
(***************************************************************************)
(* The environment.                                                        *)
(***************************************************************************)

\* The handler ran and its reply was lost: the worker sees an error.
LoseReply(w) ==
  /\ "lostReply" \in Faults
  /\ \/ pc[w] = "claimed" /\ SetStatus(w, "RUNNING")
     \/ pc[w] \in {"develop", "merging"} /\ SetStatus(w, "TESTING")
     \/ pc[w] = "push" /\ PushBranch(w)
     \/ pc[w] = "review" /\ SetStatus(w, "REVIEWING")
     \/ pc[w] = "verdict" /\ SendBack(w)
     \/ pc[w] = "askMerge" /\ AskMerge(w)
     \/ pc[w] = "mergePush" /\ PushMain(w)
     \/ pc[w] = "report" /\ ReportMerged(w)
  /\ Goto(w, "failing") /\ Kept(w)

\* The claim's reply is lost: Step returns an error and the loop polls again.
LoseClaim(w) ==
  /\ "lostReply" \in Faults /\ pc[w] = "idle"
  /\ \E t \in Task : Claim(w, t)
  /\ UNCHANGED <<localVars, remoteVars>>

\* The FAILED report is lost on its way; Step only logs it.
LoseFailure(w) ==
  /\ "lostReply" \in Faults /\ pc[w] = "failing"
  /\ Ended(w) /\ UNCHANGED <<vars, cancelReply, remoteVars>>

Crash(w) ==
  /\ "crash" \in Faults /\ pc[w] # "down"
  /\ Reset(w, "down")
  /\ cancelReply' = [cancelReply EXCEPT ![w] = NoTask]
  /\ UNCHANGED <<vars, remoteVars>>

\* The reaper finds w's heartbeat too old: w is dead, or its beats are late.
Reap(w) ==
  /\ pc[w] = "down" \/ "lateHeartbeat" \in Faults
  /\ ReapOnce({w})
  /\ UNCHANGED <<localVars, remoteVars>>

Owner == OwnerNext /\ UNCHANGED <<localVars, remoteVars>>

RunNext ==
  \/ Owner
  \/ \E w \in Worker :
       \/ Start(w) \/ Advance(w) \/ Beat(w) \/ CancelArrives(w)
       \/ LoseReply(w) \/ LoseClaim(w) \/ LoseFailure(w) \/ Crash(w) \/ Reap(w)

RunSpec == RunInit /\ [][RunNext]_allVars

\* A running process takes its next step and its heartbeats (a goroutine with a
\* ticker), and the reaper's ticker fires.  Nobody owes a restart, a claimable
\* task or a decision.
RunFairness ==
  \A w \in Worker :
    /\ WF_allVars(Advance(w))
    /\ WF_allVars(Beat(w)) /\ WF_allVars(CancelArrives(w))
    /\ WF_allVars(pc[w] = "down" /\ Reap(w))

FairSpec == RunSpec /\ RunFairness

-----------------------------------------------------------------------------
(***************************************************************************)
(* Properties.                                                             *)
(***************************************************************************)

\* "Merge exactly the commit the human approved" (worker.go:375): everything on
\* the protected branch is a version a human approved for the task it was made for.
MainOnlyApproved ==
  \A k \in DOMAIN main :
    \E i \in DOMAIN approvals :
      /\ approvals[i].status = "APPROVED" /\ approvals[i].gate = MergeGate
      /\ approvals[i].version = main[k] /\ approvals[i].task = author[main[k]]

\* A task's work enters the protected branch at most once, however often its
\* merge is retried, by however many workers.
MergedOnce ==
  \A j, k \in DOMAIN main : author[main[j]] = author[main[k]] => j = k

\* A COMPLETED task is on the protected branch: the push comes before the report.
CompletedIsMerged ==
  \A t \in Task :
    status[t] = "COMPLETED" => \E k \in DOMAIN main : author[main[k]] = t

\* "A task only starts once the tasks it depends on are merged" (docs/README.md:123):
\* the clone a run works from has seen the merges of all its dependencies; a first
\* run's checkout is cut from it, a rework's continues a branch cut so before.
CheckoutHasDeps ==
  \A w \in Worker :
    pc[w] \in Working \ {"claimed"} =>
      \A d \in deps[job[w]] : \E k \in 1..seen[w] : author[main[k]] = d

\* The check "policy allowed an unreviewed merge to a protected branch; refusing"
\* (worker.go:309) never fires: nobody implements a task whose merge is approved.
NeverRefused ==
  \A w \in Worker :
    pc[w] = "askMerge" /\ Owns(w, job[w]) => Approved(job[w], MergeGate) = {}

\* The commit a human is asked about, or approved, can be fetched: it was pushed
\* before the gate opened and no later push, not even of a worker that lost the
\* task, drops it.
AskedIsPushed ==
  \A i \in DOMAIN approvals :
    approvals[i].status \in {"PENDING_APPROVAL", "APPROVED"}
    => LET b == branch[approvals[i].task] IN b # <<>> /\ Last(b) = approvals[i].version

\* "A task fails after 3 attempts" (README.md:81): with these workers a task on
\* the queue always has an attempt left, so none is claimed MaxAttempts + 1 times.
AttemptsLeft ==
  \A t \in Task : /\ attempts[t] <= MaxAttempts
                  /\ status[t] = "PENDING" => attempts[t] < MaxAttempts

\* tasks.merge_sha is "the commit on the default branch after merging" the task
\* and changed_files "the files the merge changed" (docs/database.md:194, 195):
\* both are read off HEAD, which must be the merge of this task.
MergeShaIsOwn ==
  \A t \in Task : mergeSha[t] # NoCommit => author[mergeSha[t]] = t

\* Every claim ends: the worker finishes the run, or it dies and its tasks are
\* requeued.  Nothing stays with a worker for ever ("Stale workers/tasks should be
\* detected and recovered/requeued according to policy",
\* AI_SOFTWARE_DEV_EMPIRE.md:1204).
EveryClaimEnds ==
  \A t \in Task : status[t] \in InFlight ~> status[t] \notin InFlight
=============================================================================

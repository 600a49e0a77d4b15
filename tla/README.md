# ai-empire: formal models, model checking and proofs

This directory holds TLA+ models of *ai-empire*: a control plane (HTTP handlers
over PostgreSQL and a directory of Markdown documents), worker programs that run
AI agents on git checkouts, and an owner who reviews what they produce. The
models are translated from the Go source and the SQL migrations; each
definition's lines are listed in `PROJECT.json` under `map`.

## 1. The system

| Part | State | Operations | Talks to |
|---|---|---|---|
| Task state machine (`internal/task`, `controlplane/tasks.go`) | `tasks`, `task_dependencies` | create, move, cancel, retry | every handler |
| Worker protocol (`controlplane/workers.go`) | `workers`, `tasks.worker_id/stage/attempts` | create, register, heartbeat, claim, transition, authorize, review | worker programs, over HTTP |
| Reaper (`workers.go: RunReaper`) | the same rows | marks silent workers offline, requeues their tasks | ticker in the control plane |
| Approvals (`controlplane/approvals.go`, `internal/policy`) | `approval_requests`, `approval_decisions` | decide: approve, request changes, reject | owner; tasks, documents, requests |
| Workflow engine (`controlplane/requests.go`, `internal/workflow`) | `requests`, its tasks | create, advance, start a step, create a plan's tasks, finish, cancel | tasks, documents |
| Documents (`controlplane/documents.go`, `knowledge.go`, `internal/docs`) | Markdown files, `document_approvals` | task output, new, submit, decide, withdraw; validate | editors writing the same files |
| Worker program (`internal/worker`) | checkout, branch, current task | run loop, heartbeat loop, implement, review, merge | control plane, git remote |
| Notifier (`controlplane/notify.go`, `server.go: audit`) | `notifications` outbox | announce, send, back off, expire | every handler that audits; the ntfy server |
| Projects, clients, repositories (`projects.go`) | their tables | create, update, move | tasks and their dependencies |
| Reading side (`graph.go`, `internal/knowledge`, `docs/graph.go`) | none | impact, trace, context | files and tables |
| CLI, MCP, server, types | none | translate calls | control plane |

What makes it hard:

- **Concurrency.** Each handler is a transaction that locks the task row it
  changes, but one decision can touch a task, its request, its siblings, their
  approval requests and files. `claim` reads the worker's row without a lock.
- **Two programs and a remote.** A worker pushes to git and then reports; either
  half can be lost. Replies to calls and heartbeats arrive late, and a run may go
  on for a task that has been given to somebody else.
- **Files and rows.** The documents a human approves are files that anybody edits;
  the record of what was approved is in the database. No transaction spans both.
- **Human gates.** Nothing may be merged, and no step may start, without the
  approval it needs, in whatever order cancels, retries and decisions come.

What correctness means for each part: the properties of section 4. What can go
wrong, line by line, with the property that would notice: `hazards` in
`PROJECT.json`.

## 2. Modules

```
HumanGate          what the merge gate promises (abstract)
  ^ refined by
TaskLifecycle      control plane's side of code tasks, one action per handler
  ^ extended by
WorkerRun          + worker programs, git remote, lost replies, crashes
ClaimReap          claim / ReapOnce / registerWorker statement by statement
RequestFlow        the workflow engine over one request
  ^ extended by
DocumentFlow       + documents, their approvals, an editing owner, crashes
Projects           clients, projects and task dependencies, statement by statement
Notifier           the outbox: batches, sends, backoff, crashes
KnowledgeGraph     references, their scopes, and the walks over them
DocumentRun        the worker's run of a document task

TaskLifecycleProofs    theorems about TaskLifecycle, and that it implements HumanGate
  ^ extended by
WorkerRunProofs        theorems about WorkerRun, and that it implements TaskLifecycle
RequestFlowProofs      theorems about RequestFlow
  ^ extended by
DocumentFlowProofs     theorems about DocumentFlow, and that it implements RequestFlow
QueueProofs            theorems about ClaimReap and Notifier
ProjectsProofs, KnowledgeGraphProofs, DocumentRunProofs
```

The `MC*` modules fix constants for TLC. `MCParts` holds the six modules that are
checked apart from each other (ClaimReap, RequestFlow, Projects, Notifier,
KnowledgeGraph, DocumentRun; they share no variable): a variable picks the one that
runs, since interleaving them would multiply states and add no behaviour of any.

**TaskLifecycle.** The variables are the columns (`status`, `holder` =
`worker_id`, `stage`, `attempts`, `rounds`, `deps`, `mergeSha`, `approvals`,
`wstatus`). Each handler is a transaction under the task's row lock, so it is one
action, with every call it makes: `CancelTask` cancels the request and its open
siblings, closes their gates; `Authorize` is the whole of `authorize` with its
upsert of the request; `RequeueTasksOf` is the loop that requeues or fails each
task. Tasks in `PlanTask` form the code step of one request; the others are
stand-alone, created by the owner with any dependencies.

**HumanGate.** What a reader of the documentation expects of the gate: a subject
is worked on, a human is asked about a version, approves it or sends it back, and
only an approved one is merged; until then it can be dropped. `TaskLifecycle`
implements it under the mapping `PhaseOf` / `SubjectOf`.

**WorkerRun.** One process per worker with a program counter over the stages of
`Step`/`execute`/`implement`/`review`/`merge`, its heartbeat loop, and the git
remote: `branch[t]`, `main` and the author of each commit. A call of the worker is
the handler's action together with the reaction to the reply, which is local;
`StepFails` covers work or calls that fail, `LoseReply` the handler that ran and
whose reply was lost, `CancelArrives` a heartbeat reply acted on later than it was
computed. A heartbeat's 404 (worker deleted) is not modelled; SIGTERM is a crash.
A merge commit is abstracted by the task's commit it brings in.
`seen` is how far a worker's clone has fetched the default branch; a rework's worktree
starts at the task's own branch (worker.go:229-233), cut from such a clone earlier.

**ClaimReap.** The one place where "a handler is one step" is not justified: the
worker's row is not locked by `claim`. The transactions of claim, reaper and
registration are split at their statements, with the row locks they hold.

**RequestFlow.** One request (requests share no rows) and its table of tasks.
`Advance` is `advance` with `startStep`, `setStep` and `finishRequest`; every
handler that ends a task contains it. Statuses in flight are one (`RUNNING`): what
happens inside is TaskLifecycle's subject. A handler whose `advance` returns an
error is rolled back, which is a disabled action. `Ordered` is the topological
sort of `ParsePlan`, run on every dependency relation of up to `MaxItems` items.
`Loadable` asks of a revise step what workflow.go:122 does: an earlier step that is
said to produce a change request, which any but a plan may be. If no document step
precedes, no change request exists and `StepTasks` has no rows to offer.

**DocumentFlow.** RequestFlow with `file` (status, version, content), `record`
(`document_approvals`), document approval requests and `output_docs`. Handlers that
write files hold the mutex `kmu`, so they are atomic with respect to each other;
`EditFile` is an editor that does not, between any two of them. `CrashIn...` are
the deaths of the control plane before the commit, with any of the handler's files
written (`Torn`). A hash is the
pair (version, content): `Hash` leaves the status out. Types, relationships and
affected documents are constants; `AuthorisedByCR` is therefore as permissive as
`derived_from` can be. `supersedes`, the document index, the generated relations
block, several scopes and deletion of files are not modelled, nor is a crash
inside a cancellation or a rejection's withdrawal of other tasks' documents (it would
leave documents marked rejected, a field the hash ignores).

**Projects.** No handler of `projects.go` locks the project's row, so a handler is
split where another transaction can commit in between: `updateProject` reads, then
writes both fields back; `moveProject` reads, looks for dependencies it would
split, then moves; `createTask` reads the project, links dependencies one by one,
and commits. `call` is the local state of each handler in progress; what it has
not committed is invisible. `trail` is the project's part of `audit_log`; the row of
a creation counts as one that begins and ends in the first level.

**Notifier.** `Announce` is `audit` with its outbox row. `NotifyOnce` is one
transaction around HTTP calls and is split at them: `Begin` (expire, select,
lock), then per row, in the order of the ids (`First`), `Render` and a send that is
accepted, refused, or delivered with its reply lost, then `Commit`; `batch` is the
set of the rows it has still to send. `Stop` ends the process inside a batch, which
rolls back what it wrote about messages already out. Time is `Tick`; `age` and
`wait` count only as far as a comparison can tell.

**KnowledgeGraph.** `Targets` is `Resolve` with the scopes of `Visible`, `EdgesOf` is
`edges`, and the four walks are told apart by `Follows`, `Limit` and where `Put` puts
a document: `impactOf` and `ExpandContext` go breadth first, `upstream` and
`downstream` depth first (`todo` is the call stack). A walk starts from any
library, since a handler walks a copy it has loaded.

**DocumentRun.** `document` in `worker/document.go` from claim to report: it reads
the owner's feedback with the claim, starts agents up to `maxDocAttempts` times,
sends what they write; next to it the reaper, registrations and the owner. What an
output says is the round of feedback it answers. A call is one step with the
reaction to its reply; every call about a task is refused unless `DocOwns`
(`lockOwnTask`). Each place where the run can return an error is `RunBreaks`.
Lost claims and lost FAILED reports are left out here: the finding `lost_claim`
has them.

## 3. Assumptions

- PostgreSQL gives the atomicity of a transaction under the row locks it takes; the
  unique index of open requests and the primary key of approved versions are guards.
- git pushes are atomic and never forced on the default branch.
- An agent may do anything a valid output allows; invalid output changes nothing.
- Constants: `TaskAssumption`, `NoneAssumption`, `BoundAssumption`,
  `CallAssumption` (a worker asks for one gate, worker.go:304 and 367),
  `RunCallAssumption` (this worker program does ask for the merge gate when the
  policy has one), `RunNoneAssumption`, `WorkflowAssumption` (what
  `Workflow.check` accepts, and that only plans go without a gate),
  `FlowBoundAssumption`, `DocAssumption`, `DocBoundAssumption`, `ProjectsAssumption`, `NoticeAssumption`,
  `ClockAssumption`, `GraphAssumption`, `ScopesApart` (scope names are told apart by
  their prefix, repo.go:132), `DocRunAssumption`.

## 4. Runs

| Run | Question | Instance |
|---|---|---|
| `lifecycle` | Waiting and open gates agree, one live gate, merge stage approved, dependencies first, holder, request and tasks agree, decisions are final; implements HumanGate | 3 tasks (1 stand-alone, 2 of a request, one depending on the other), 2 workers, 2 commits, 2 attempts, 2 requests for approval; 92,060 states |
| `worker_run` | Only approved commits on the default branch, each merged once, dependencies in the checkout, no run refused, the commit under review is what was pushed, a completed task is merged | 2 dependent tasks, one with AI review, 2 workers, 3 commits, crash + late heartbeat + lost reply; 1,786,540 states |
| `worker_live` | Under fairness every claim ends; a task is never claimed with its attempts used up | 1 task, 2 workers, crash + late heartbeat |
| `parts` | A task is never handed to two claims; steps run in order and one by one behind their approvals, request and tasks end together, an active request's tasks never all wait for one another, `current_step` is right; dependencies stay in one client with one handler at a time; a notice is never marked sent without a copy out, is doubled only after a crash or lost reply, and ends; walks list what is within their limit, at its distance, and cross no client; a document answers the last feedback, and its run ends | claims: 2 workers, 2 tasks; engine: 4 workflows, plans of up to 3 items with any dependencies, revisions of 2 documents; projects: 2 projects, 1 client, 2 tasks; outbox: 2 notices, 2 notifiers, batches of 1, 1 fault; graphs: 9 documents in 7 scopes, every graph of up to 4 references between four of them and every pair of references across scopes, limit 2; document: 2 workers, 2 attempts, 1 rework, 2 faults; 412,069 states |
| `documents` | What is recorded was reviewed, versions need a change request, upstream first, requests and waiting tasks agree, outputs of completed steps are approved | 5 documents, change + revision and ungated plan, 3 approvals beyond the initial one, one edit or crash; 457,548 states |

The bounds. Two tasks and two workers are what every property quantifies over: a
holder and a former holder, a task and the dependency or the sibling it meets.
`MaxAttempts` is 1 or 2, so the limit is reached in few steps.
`MaxClaims` and `MaxApprovals` cap logs that only grow; they allow one rework, or
one lost and repeated request, which is what the gate properties need. Plans of
three items are the smallest with a cycle through a third or a diamond cut short.
In `documents` one upset suffices for each property's failure in a wrong program
(the mutants show it); contents are few so that an edit can also restore a text.
Deadlock is not checked: requests end, budgets run out and an owner need not act.
Late heartbeats with independent tasks (about 8 million states) are left to
`worker_run`'s dependent ones; that two tasks racing for the default branch are both
merged and completed is covered by the theorems about WorkerRun.
In `parts` a walk's limit of 2 stands for 3, 6 and 7: with four documents every
shape has paths that end at the limit, are shortened by it, or run in a circle. A
day of 2 ticks and a backoff of at most 2 let a row expire before, during and after
its retries. Two rounds of faults let a document run be declared dead, its task be
run by the other worker, decided and sent back, before the first run answers.

Each property of a passing run is paired in `PROJECT.json` (`mutants`) with a
plausible slip in the code that violates it under the same configuration; the
mutated operators stand beside the originals as `Mut...`.

### Where the code and its documentation disagree

| Run | What it shows |
|---|---|
| `lost_claim` | A claim whose reply is lost stays assigned to a live worker that does not know of it: heartbeats carry no task then, and the reaper looks at silent workers only. |
| `cross_client` | `createTask` and `moveProject`, or two moves, each check against rows the other is about to change: a dependency ends up between two clients' tasks. |
| `audit_gap` | `updateProject` reads the row without a lock and writes both fields back: a rename that overlaps a change of autonomy sets the level back, and its audit row says that nothing changed. |
| `merge_sha` | After a crash between push and report, and another merge, a repeated merge reports the other task's commit as `merge_sha`. |
| `orphaned_claim` | `claim` and `ReapOnce` interleave so that a task is held by a worker already offline; if that worker stays dead nothing requeues it. |
| `edited_task_doc` | A document of a task, edited while its request is open, can be neither decided nor submitted again. |
| `two_requests` | A document that a task's request covers beside its own can also be submitted by the owner; the two approvals record a second version without a change request. |

Each quotes the sentence it contradicts under `findings`.

Seen while modelling, and not run: a heartbeat's `cancel` names a task and not a
claim, so an answer about an earlier claim can stop a later run of the same worker
(worker.go:118), which is then reported FAILED and may be retried; a
trace can leave out documents behind one it first met at its depth limit, although
a shorter path reaches them (graph.go:297).

### Fairness

`FairSpec` (WorkerRun) assumes: a running worker process takes its next step; its
heartbeat ticker fires and replies arrive; the reaper's ticker finds a dead worker
(workers.go:474). It assumes nothing of the owner, of restarts, or of claims.
Lost replies are excluded from `worker_live`, because with them the property is
false: that is `lost_claim`.

`OutboxFairness`: the clock goes on, a running notifier's loop goes round (a ticker
of 2 s, notify.go:35), and a send ends (timeout of 10 s, notify.go:148). Nothing is
assumed of restarts or of the receiver, so `EveryNoticeEnds` speaks of behaviours in
which some notifier keeps running or comes back; a receiver that refuses for ever
makes the row expire.

`DocRunFairness`: the worker's calls end (the client gives up after 30 s,
client.go:27) and the loop goes on, and the reaper's ticker finds a dead worker's
task. Nothing makes an agent end (agent.go:61 sets no deadline, and the heartbeats of
its worker go on), so `DocumentRunEnds` speaks of behaviours in which no agent runs for
ever; nothing makes it write a valid document, and nobody owes a claim, a decision or
a restart. In WorkerRun the agent is inside a step, so there that it ends is part of
"takes its next step", as it is for the test command and git.

## 5. Proofs

`TaskLifecycleProofs` holds for any tasks, workers, commits,
gates and bounds that satisfy the assumptions.

- `TypeCorrect`: `TypeOK` is inductive.
- `Invariant`: `IInv`, the conjunction of `TypeOK`, `StatusInv` and `GateInv`.
  `StatusInv` says who holds a task, that a started task's dependencies are
  completed, that plan tasks are born together, and that request and tasks agree.
  `GateInv` says that waiting and open gate agree, that a gate is live at most once,
  that the merge stage is approved, and (`WaitsAtMergeGate`) which gate a waiting
  task in the merge stage waits at. None of the gate properties is inductive
  alone: approving a request moves a task on only because the open request is the
  one it waits for, and a rework resets the stage only because no approved
  request of the same gate remains live.
- From it: `WaitingCorrect`, `OneLiveGateCorrect`, `MergeApproved`,
  `DependenciesFirst`, `HolderCorrect`, `RequestCorrect`, and `DecisionsFinal`, an
  action property.
- `Refinement`: TaskLifecycle implements HumanGate. `RefInv` adds that a completed
  task is in the merge stage; the lemmas say what a change of the approval table
  does to the abstract view, and `RefineStep` goes action by action.

Shape: `TypeInit`/`TypeStep`, `StatusInit`/`StatusStep`, `GateInit`/`GateStep`, one
step per action in each; lemmas about the approval table (`DecidedRows`,
`ClosedRows`, `AppendedRow`) are stated once and cited.

`WorkerRunProofs` holds for any tasks, workers, commits, bounds, and any number of
crashes, late heartbeats and lost replies.

- `RunImplementsLifecycle`: the workers, the network and the reaper together do
  nothing to the control plane that `TaskLifecycle` does not allow, so that all its
  theorems hold of the composed system (`RunImplementsGate` says so of HumanGate and
  of `DecisionsAreFinal`).
- `RunInvariant`: `RunInv`, on top of `IInv`. `BusyInv` and `StageInv` say where
  the holder of a task stands in its stage; `TipInv` relates its local branch to the
  remote one; `StaleInv` is about a worker that lost its task and is still about to
  push: its branch is no longer than the holder's, and once a request is open no
  longer than what was pushed, so that the push is refused or changes nothing. Without
  it the commit under review could be replaced after it was approved. `MergeInv` says
  that what is being merged was approved for that very task.
- From it: `MainApproved`, `MergedOnceCorrect`, `CompletedMerged`,
  `CheckoutComplete`, `RefusalUnreachable` (the worker's own check never fires),
  `AskedPushed`, and with `AttemptsInv` also `AttemptsCorrect`.

Shape: most steps are calls by which nobody gains a task and no request is opened
(`Background`); opening the gate (`AskStep`) and completing (`ReportStep`) are apart.
`NextStep` maps each step of the program to its handler.

`RequestFlowProofs` holds for every set of loadable workflows, of any length, and
any number of affected documents and work items.

- `FlowInvariant`: `FlowInv`, which says of the table of tasks that each is in a
  step whose predecessors have tasks, all of them completed (`InOrder`), that what
  is completed behind a gate was approved (`ApprovedDone`) and that a document or
  plan step has one task (`OneTask`: without it an accepted plan would not finish
  its step, and its code tasks would come too early), that a task waits for earlier
  ones of its own step only (`Linked`); and that the request's status and current
  step agree with the table, the current step having tasks.
- From it: `FlowTypeCorrect`, `StepsInOrderCorrect`, `RequestClosedCorrect` and
  `CurrentCorrect`.
- `StepsOneByOneCorrect`, an action property: a handler changes one open task, or
  only cancels (`HandlerRows`), and that task's step is the last with rows, so that
  no new row falls into a completed step (`OneStepEnds`).
- `ActiveCanGoOn`: `ActiveNotStuck`. By `Linked`, the first unfinished task of an
  active request waits for nobody. It rests on `PlanOrder`: in the order `Ordered`
  makes of an accepted plan an item comes after those it depends on.

Shape: the argument is about tables, not actions. `Rewritten` and `Appended` say
which changes keep a table in order; `AdvanceKeeps` says that advance, on any
table in order, ends in a state of `FlowInv`; every handler is then a rewrite
(`OpenKeeps`, `RewrittenAdvanceKeeps`) or a plan's acceptance (`PlanAdvanceKeeps`).
`Ordered` is a fold within a fold. Its recursive function is a CHOOSE: `FoldExists`
shows that some function meets the equation, so the chosen one does, and `FoldStays`
carries a property along it. The library's induction theorems take an operator and
cannot be cited; both lemmas reason about the least counterexample (`LeastNat`, from
the well-foundedness of the numbers).

`DocumentFlowProofs` holds for every set of documents, upstream and affected
relation, workflows and bounds, and wherever the owner edits or a crash falls.

- `DocImplementsFlow`: with its documents the engine does nothing that RequestFlow
  does not, so that the theorems above carry over.
- `DocInvariant`: `DocInv`, on top of `FlowInv`: requests belong to tasks with
  documents (`RowsInv`), a waiting task and its open request have each other
  (`OpenInv`), the recorded versions of a document have a largest (`LatestInv`), and
  what was true of a version when a human was asked still is (`AskedInv`) unless
  another request covers the document beside its own: that exception is the run
  `two_requests`.
- From it: `DocTypeCorrect`, `ReviewedCorrect`, `VersionsAuthorised`,
  `UpstreamFirstCorrect`, `WaitingCorrect`, `OutputsApproved`.

Shape: every step either settles requests, asks for one, or approves one
(`StepShape`); each part of the invariant is proved from these three shapes.

`QueueProofs`, about the two tables that several processes draw from:

- `ClaimsApart`, for any workers and tasks. `ReapInv` is the type and the property;
  the lock on the selected row carries it, although the worker's row is not locked:
  `OnlyFrees` covers every step that gives tasks up.
- `NoticeNeverLost` and `NoticeCopiedOnce`, for any notices, notifiers, limit,
  backoff and faults. `OutboxInv` says that a row is in one place of one open
  transaction and queued while it is (`LocksInv`), that what a transaction is about
  to commit is true (`TruthInv`), and that of every copy that is out, the row or an
  open transaction says so unless a fault cut it off (`CopyInv`).

`ProjectsProofs`, for any projects, clients, levels and tasks:

- `AuditComplete`: `ChangesAudited` as long as no two updates of one project overlap
  (`UpdatesApart`), whatever other handlers are in progress. `ProjInv` says that the
  trail ends in the level in force; `BeforeCurrent`, that an update in progress starts
  from it, is what an overlap breaks (run `audit_gap`).
- `ApartAlone`: `ClientsApart` as long as no two handlers that move projects or create
  tasks overlap (`LinkersApart`), whatever updates are in progress. `ReadsCurrent` says
  that what a handler has read is still so, which is exactly what an overlap breaks
  (run `cross_client`); the checks themselves are complete.

`KnowledgeGraphProofs`, for any finite set of documents, any libraries and limits,
and any order of the edges:

- `ScopesKept`: what a document may read is transitive (`MayReadTransitive`), so a
  chain of references never leaves it.
- `WalkComplete`: every listed document is still to be expanded, at the limit, or
  has all its neighbours listed (`NothingDropped`).
- `DistancesRight`: `WithinLimit`. `Hops` says that a depth is that of a way from
  the start; `BreadthFirst` that the queue is in the order of the depths, at most one
  apart, and that what left it lies no deeper than its head and has its neighbours
  at most one hop behind: without this a document first met along a long way would
  keep the wrong depth. `BallHops` unfolds the recursive `Ball` (the sets of what ways
  of n hops reach meet its equation), and `ListedBalls` compares the two hop by hop.

`DocumentRunProofs`: `LastFeedbackAnswered`, for any workers, attempts, rounds and
faults. The strengthening says that the worker that owns the task works from the
current feedback: a decision takes the task away from everybody, and only a claim
gives it back.

Every invariant and action property of the passing runs is a theorem (`ClientsApart`
under `LinkersApart`; its run has one handler at a time). Only model-checked: `EveryClaimEnds`, `EveryNoticeEnds` and `DocumentRunEnds`, since liveness
under fairness, and ENABLED, are out of the prover's reach. A refuted property of a
`violation` run has no theorem, of course.

## 6. Not modelled

- Prompts and agents, CLI, MCP server, entry points, authentication, routing:
  text, processes and JSON; reasons are in `PROJECT.json`, `components`.
- Repositories as rows (createRepository, updateRepository): several git
  repositories, and a target branch changed between approval and merge. Merge
  conflicts as such are failures of a step.
- `knowledge.Resolve`, which reads whole scopes from files, and the rows of tasks
  and commits that a trace or an impact report adds to the documents.
- The generated index and relations blocks of documents, `supersedes`, several
  scopes and deletion of files in DocumentFlow.

## 7. Plan

Done: TaskLifecycle, HumanGate, WorkerRun, ClaimReap, RequestFlow, DocumentFlow,
Projects, Notifier, KnowledgeGraph, DocumentRun, and the proofs of section 5.

Next, in order:

1. Documents: a crash in a cancellation; the status of approved versions when two
   requests cover one document.
2. A restart with another set of workflows; repositories and a changed target
   branch in WorkerRun.
3. Lock order between request and task rows.

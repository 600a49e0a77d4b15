------------------------------ MODULE ClaimReap ------------------------------
(***************************************************************************)
(* claim against ReapOnce and registerWorker, statement by statement.      *)
(*                                                                         *)
(* TaskLifecycle makes each handler one step, which the row locks on tasks *)
(* justify except here: claim reads the worker's row without locking it    *)
(* (FOR UPDATE OF t), so under READ COMMITTED the worker it saw online may *)
(* be offline, or registered anew, when the claim commits.                 *)
(***************************************************************************)
CONSTANTS Task, Worker, NoWorker, NoTask

ASSUME NoneAssumption == NoWorker \notin Worker /\ NoTask \notin Task

VARIABLES
  alive,      \* the worker processes that run and send heartbeats
  wstatus,    \* workers.status, as committed
  holder,     \* tasks.worker_id of the tasks in flight, as committed
  claiming,   \* the task row w's open claim transaction has locked
  reaping,    \* the workers the open reaper transaction has marked offline
  requeueing  \* the task rows it has locked; NoTask before it selected them

claimVars == <<alive, wstatus, holder, claiming, reaping, requeueing>>

HeldBy(W) == {t \in Task : holder[t] \in W}
Locked    == {claiming[w] : w \in Worker} \cup requeueing

ClaimInit ==
  /\ alive = Worker
  /\ wstatus = [w \in Worker |-> "online"]
  /\ holder = [t \in Task |-> NoWorker]
  /\ claiming = [w \in Worker |-> NoTask]
  /\ reaping = {}
  /\ requeueing = {}

\* Mutant: the row is not locked.
MutClaimSelect(w, t) ==
  /\ w \in alive /\ claiming[w] = NoTask
  /\ wstatus[w] = "online"
  /\ holder[t] = NoWorker
  /\ claiming' = [claiming EXCEPT ![w] = t]
  /\ UNCHANGED <<alive, wstatus, holder, reaping, requeueing>>

\* claim's SELECT: the worker's status and the queue from one snapshot, and a
\* lock on the chosen task's row alone.
ClaimSelect(w, t) ==
  /\ w \in alive /\ claiming[w] = NoTask
  /\ wstatus[w] = "online"
  /\ holder[t] = NoWorker /\ t \notin Locked
  /\ claiming' = [claiming EXCEPT ![w] = t]
  /\ UNCHANGED <<alive, wstatus, holder, reaping, requeueing>>

\* The rest of the transaction runs at the server, whatever became of the worker.
ClaimCommit(w) ==
  /\ claiming[w] # NoTask
  /\ holder' = [holder EXCEPT ![claiming[w]] = w]
  /\ claiming' = [claiming EXCEPT ![w] = NoTask]
  /\ UNCHANGED <<alive, wstatus, reaping, requeueing>>

\* ReapOnce: the UPDATE of the silent workers' rows, which stay locked...
ReapMark(W) ==
  /\ reaping = {} /\ W # {}
  /\ \A w \in W : wstatus[w] = "online"
  /\ reaping' = W
  /\ UNCHANGED <<alive, wstatus, holder, claiming, requeueing>>

\* ...the SELECT of the tasks they hold...
ReapSelect ==
  /\ reaping # {} /\ requeueing = {}
  /\ requeueing' = HeldBy(reaping) \cup {NoTask}
  /\ UNCHANGED <<alive, wstatus, holder, claiming, reaping>>

\* ...and the commit, which requeues those tasks.
ReapCommit ==
  /\ requeueing # {}
  /\ wstatus' = [w \in Worker |-> IF w \in reaping THEN "offline" ELSE wstatus[w]]
  /\ holder' = [t \in Task |-> IF t \in requeueing THEN NoWorker ELSE holder[t]]
  /\ reaping' = {} /\ requeueing' = {}
  /\ UNCHANGED <<alive, claiming>>

\* heartbeat: waits for the reaper's lock on the worker's row.
Heartbeat(w) ==
  /\ w \in alive \ reaping /\ wstatus[w] = "offline"
  /\ wstatus' = [wstatus EXCEPT ![w] = "online"]
  /\ UNCHANGED <<alive, holder, claiming, reaping, requeueing>>

\* registerWorker by a new process: its rows are its own, so one step.
RegisterWorker(w) ==
  /\ w \notin alive \cup reaping
  /\ alive' = alive \cup {w}
  /\ wstatus' = [wstatus EXCEPT ![w] = "online"]
  /\ holder' = [t \in Task |-> IF holder[t] = w THEN NoWorker ELSE holder[t]]
  /\ UNCHANGED <<claiming, reaping, requeueing>>

\* The worker gives the task back (any of its own calls that end the flight).
GiveBack(w, t) ==
  /\ w \in alive /\ holder[t] = w /\ t \notin Locked
  /\ holder' = [holder EXCEPT ![t] = NoWorker]
  /\ UNCHANGED <<alive, wstatus, claiming, reaping, requeueing>>

Die(w) ==
  /\ w \in alive
  /\ alive' = alive \ {w}
  /\ UNCHANGED <<wstatus, holder, claiming, reaping, requeueing>>

ClaimNext ==
  \/ \E w \in Worker : ClaimCommit(w) \/ Heartbeat(w) \/ RegisterWorker(w) \/ Die(w)
  \/ \E w \in Worker, t \in Task : ClaimSelect(w, t) \/ GiveBack(w, t)
  \/ \E W \in SUBSET Worker : ReapMark(W)
  \/ ReapSelect \/ ReapCommit

ClaimSpec == ClaimInit /\ [][ClaimNext]_claimVars

-----------------------------------------------------------------------------
\* Two workers never take the same task, and nobody takes one that is being
\* requeued: SKIP LOCKED and the recheck of a locked row keep claims apart.
ClaimsDisjoint ==
  /\ \A v, w \in Worker : claiming[v] = claiming[w] /\ v # w => claiming[v] = NoTask
  /\ \A w \in Worker : claiming[w] \in Task =>
       holder[claiming[w]] = NoWorker /\ claiming[w] \notin requeueing

\* "Worker dies and stays dead: ... the worker becomes offline and its tasks are
\* requeued" (docs/README.md:215): a dead worker that is offline holds nothing.
\* The reaper looks at online workers only, so such a task would never be seen again.
OfflineHoldsNothing ==
  \A w \in Worker \ alive : wstatus[w] = "offline" => HeldBy({w}) = {}
=============================================================================

----------------------------- MODULE DocumentRun -----------------------------
(***************************************************************************)
(* The worker's run of a document, plan or revise task (worker/document.go *)
(* and Step, execute, runAgent in worker.go) against the handlers it calls.*)
(*                                                                         *)
(* A run reads the owner's feedback with the claim, then lets an agent     *)
(* write up to maxDocAttempts times until the control plane accepts.  What *)
(* an output says is the round of feedback it answers: DocumentFlow has    *)
(* the files.  A call is one step, with the worker's reaction; a call that *)
(* is lost, or local work that fails, is RunBreaks.                        *)
(***************************************************************************)
EXTENDS Integers

CONSTANTS
  DocWorker, NoDocWorker,
  MaxDocAttempts, \* maxDocAttempts: outputs an agent may try in one run
  MaxDocClaims,   \* task.MaxAttempts
  MaxRounds,      \* bound: times the owner asks for changes
  MaxDocFaults    \* bound: crashes, late heartbeats and lost replies

ASSUME DocRunAssumption ==
  /\ NoDocWorker \notin DocWorker
  /\ MaxDocAttempts \in Nat \ {0} /\ MaxDocClaims \in Nat \ {0}
  /\ MaxRounds \in Nat /\ MaxDocFaults \in Nat

VARIABLES
  gated,       \* whether the output waits for the owner: all but ungated plans
  docStatus,   \* tasks.status
  docHolder,   \* tasks.worker_id
  docClaims,   \* tasks.attempts
  round,       \* how often the owner asked for changes: which feedback is current
  answers,     \* the round the output in output_docs answers; -1: no output
  doing,       \* where each worker stands
  heard,       \* the round whose feedback each run works from
  tries,       \* the loop counter of document()
  docFaults

taskVars   == <<gated, docStatus, docHolder, docClaims, round, answers>>
docRunVars == <<taskVars, doing, heard, tries, docFaults>>

DocInFlight == {"ASSIGNED", "RUNNING"}
Writing  == {"start", "agent", "output"}
OnDuty == {"assigned", "context"} \cup Writing

DocRunInit ==
  /\ gated \in BOOLEAN
  /\ docStatus = "PENDING" /\ docHolder = NoDocWorker /\ docClaims = 0
  /\ round = 0 /\ answers = -1
  /\ doing = [w \in DocWorker |-> "idle"]
  /\ heard = [w \in DocWorker |-> 0]
  /\ tries = [w \in DocWorker |-> 0]
  /\ docFaults = 0

\* Mutant: whoever runs it may write to a task in flight.
MutDocOwns(w) == docStatus \in DocInFlight

\* owns: the test of lockOwnTask, which every call about a task begins with.
DocOwns(w) == docHolder = w /\ docStatus \in DocInFlight

\* move: a task in another status than these has no worker.
MoveDoc(to) ==
  /\ docStatus' = to
  /\ docHolder' = IF to \in DocInFlight THEN docHolder ELSE NoDocWorker

At(w, place) == doing[w] = place
Goes(w, place) == doing' = [doing EXCEPT ![w] = place]
Fault == docFaults < MaxDocFaults /\ docFaults' = docFaults + 1

-----------------------------------------------------------------------------
(***************************************************************************)
(* The worker.                                                             *)
(***************************************************************************)
TakeDoc(w) ==
  /\ At(w, "idle") /\ docStatus = "PENDING"
  /\ docStatus' = "ASSIGNED" /\ docHolder' = w /\ docClaims' = docClaims + 1
  /\ heard' = [heard EXCEPT ![w] = round]
  /\ tries' = [tries EXCEPT ![w] = 0]
  /\ Goes(w, "assigned")
  /\ UNCHANGED <<gated, round, answers, docFaults>>

\* The calls that only need the task to be this worker's still.
OwnStep(w, from, to) ==
  /\ At(w, from)
  /\ Goes(w, IF DocOwns(w) THEN to ELSE "failing")
  /\ UNCHANGED <<heard, docFaults>>

StartDoc(w) ==
  /\ OwnStep(w, "assigned", "context")
  /\ docStatus' = IF DocOwns(w) THEN "RUNNING" ELSE docStatus
  /\ UNCHANGED <<gated, docHolder, docClaims, round, answers, tries>>

ReadContext(w) ==
  /\ OwnStep(w, "context", "start")
  /\ UNCHANGED <<taskVars, tries>>

StartAgent(w) ==
  /\ OwnStep(w, "start", "agent")
  /\ tries' = [tries EXCEPT ![w] = @ + 1]
  /\ UNCHANGED taskVars

\* The loop goes round, or gives up.
TryAgain(w) == Goes(w, IF tries[w] < MaxDocAttempts THEN "start" ELSE "failing")

\* Mutant: an attempt that wrote nothing does not count.
MutAgentEnds(w) ==
  /\ At(w, "agent")
  /\ \/ Goes(w, "output") /\ UNCHANGED tries
     \/ TryAgain(w) /\ tries' = [tries EXCEPT ![w] = @ - 1]
  /\ UNCHANGED <<taskVars, heard, docFaults>>

\* The agent wrote something, or nothing (an agent that fails is RunBreaks).
AgentEnds(w) ==
  /\ At(w, "agent")
  /\ Goes(w, "output") \/ TryAgain(w)
  /\ UNCHANGED <<taskVars, heard, tries, docFaults>>

\* taskOutput when the documents are valid.
AcceptOutput(w) ==
  /\ DocOwns(w)
  /\ answers' = heard[w]
  /\ MoveDoc(IF gated THEN "WAITING_FOR_HUMAN" ELSE "COMPLETED")
  /\ UNCHANGED <<gated, docClaims, round, heard, tries>>

SendOutput(w) ==
  /\ At(w, "output")
  /\ \/ AcceptOutput(w) /\ Goes(w, "idle") /\ UNCHANGED docFaults
     \/ AcceptOutput(w) /\ Goes(w, "failing") /\ Fault   \* the reply is lost
     \/ /\ IF DocOwns(w) THEN TryAgain(w) ELSE Goes(w, "failing")
        /\ UNCHANGED <<taskVars, heard, tries, docFaults>>

RunBreaks(w) ==
  /\ doing[w] \in OnDuty
  /\ Goes(w, "failing")
  /\ UNCHANGED <<taskVars, heard, tries, docFaults>>

\* Step reports FAILED, and does not mind a refusal.
ReportDocFailed(w) ==
  /\ At(w, "failing")
  /\ IF DocOwns(w) THEN MoveDoc("FAILED") ELSE UNCHANGED <<docStatus, docHolder>>
  /\ Goes(w, "idle")
  /\ UNCHANGED <<gated, docClaims, round, answers, heard, tries, docFaults>>

-----------------------------------------------------------------------------
(***************************************************************************)
(* Restarts, the reaper and the owner.                                     *)
(***************************************************************************)
RequeueDoc(w) ==
  /\ IF DocOwns(w)
     THEN MoveDoc(IF docClaims >= MaxDocClaims THEN "FAILED" ELSE "PENDING")
     ELSE UNCHANGED <<docStatus, docHolder>>
  /\ UNCHANGED <<gated, docClaims, round, answers, heard, tries>>

DieInRun(w) ==
  /\ doing[w] # "dead" /\ Fault
  /\ Goes(w, "dead")
  /\ UNCHANGED <<taskVars, heard, tries>>

RegisterAgain(w) ==
  /\ At(w, "dead")
  /\ RequeueDoc(w) /\ Goes(w, "idle") /\ UNCHANGED docFaults

ReapDead(w) ==
  /\ At(w, "dead") /\ DocOwns(w)
  /\ RequeueDoc(w) /\ UNCHANGED <<doing, docFaults>>

\* Heartbeats that come too late look like a death.
ReapLate(w) ==
  /\ ~At(w, "dead") /\ DocOwns(w) /\ Fault
  /\ RequeueDoc(w) /\ UNCHANGED doing

\* decideDocuments.  Asking for changes gives the task its attempts back.
DecideOutput ==
  /\ docStatus = "WAITING_FOR_HUMAN"
  /\ \/ MoveDoc("COMPLETED") /\ UNCHANGED <<docClaims, round>>
     \/ MoveDoc("CANCELLED") /\ UNCHANGED <<docClaims, round>>
     \/ /\ round < MaxRounds
        /\ MoveDoc("PENDING") /\ round' = round + 1 /\ docClaims' = 0
  /\ UNCHANGED <<gated, answers, doing, heard, tries, docFaults>>

CancelDoc ==
  /\ docStatus \notin {"COMPLETED", "FAILED", "CANCELLED"}
  /\ MoveDoc("CANCELLED")
  /\ UNCHANGED <<gated, docClaims, round, answers, doing, heard, tries, docFaults>>

RetryDoc ==
  /\ docStatus = "FAILED"
  /\ MoveDoc("PENDING") /\ docClaims' = 0
  /\ UNCHANGED <<gated, round, answers, doing, heard, tries, docFaults>>

\* The worker's calls.
DocCall(w) ==
  StartDoc(w) \/ ReadContext(w) \/ StartAgent(w) \/ SendOutput(w) \/ ReportDocFailed(w)

DocRunNext ==
  \/ \E w \in DocWorker :
       \/ TakeDoc(w) \/ DocCall(w) \/ AgentEnds(w) \/ RunBreaks(w)
       \/ DieInRun(w) \/ RegisterAgain(w) \/ ReapDead(w) \/ ReapLate(w)
  \/ DecideOutput \/ CancelDoc \/ RetryDoc

DocRunSpec == DocRunInit /\ [][DocRunNext]_docRunVars

\* A live worker goes on with its calls, which end (the client gives up after
\* 30 s), and the reaper's ticker finds the dead ones.  Nothing makes an agent end,
\* or write a valid document.
DocRunFairness ==
  \A w \in DocWorker : WF_docRunVars(DocCall(w)) /\ WF_docRunVars(ReapDead(w))

DocRunFairSpec == DocRunSpec /\ DocRunFairness

-----------------------------------------------------------------------------
(***************************************************************************)
(* Properties.                                                             *)
(***************************************************************************)

\* What waits for the owner, or was completed, answers the owner's last feedback:
\* a run that was declared dead, or whose reply was lost, never puts an output
\* made before that feedback in its place (lockOwnTask, workers.go:203).
AnswersLastFeedback ==
  docStatus \in {"WAITING_FOR_HUMAN", "COMPLETED"} => answers = round

\* Unless an agent runs for ever, every run of a document task ends, whatever the
\* agents write: the attempts are counted on every path of the loop
\* (document.go:104), and the reaper takes the task from a worker that died.
DocumentRunEnds ==
  (\A w \in DocWorker : []<>~At(w, "agent")) =>
    (docStatus \in DocInFlight ~> docStatus \notin DocInFlight)
=============================================================================

-------------------------- MODULE DocumentRunProofs --------------------------
(***************************************************************************)
(* Proof that what waits for the owner answers the owner's last feedback,  *)
(* for any number of workers, attempts, rounds and faults.                 *)
(*                                                                         *)
(* A run carries the feedback it was claimed with.  The round moves only   *)
(* while nobody holds the task, so whoever holds it has heard the current  *)
(* round; and only the holder's output is accepted.                        *)
(***************************************************************************)
EXTENDS DocumentRun, TLAPS

HeardType == heard \in [DocWorker -> Int] /\ round \in Int

\* Whoever holds the task works from the current feedback.
HolderHeard == \A w \in DocWorker : DocOwns(w) => heard[w] = round

DocRunInv == HeardType /\ HolderHeard /\ AnswersLastFeedback

\* The invariant holds initially.
LEMMA DocRunInitial ==
  ASSUME DocRunInit PROVE DocRunInv
<1>1. docStatus = "PENDING" BY DEF DocRunInit
<1>2. HeardType BY DEF DocRunInit, HeardType
<1>3. HolderHeard BY <1>1 DEF HolderHeard, DocOwns, DocInFlight
<1>4. AnswersLastFeedback BY <1>1 DEF AnswersLastFeedback
<1> QED BY <1>2, <1>3, <1>4 DEF DocRunInv

\* A step that changes neither the round, the answer nor what was heard, and
\* leaves the task with its holder or with nobody.
LEMMA GivesUp ==
  ASSUME DocRunInv, UNCHANGED <<round, answers, heard>>,
         \/ UNCHANGED <<docStatus, docHolder>>
         \/ docStatus' \in DocInFlight /\ docHolder' = docHolder /\ docStatus \in DocInFlight
         \/ docStatus' \in {"PENDING", "FAILED", "CANCELLED"}
         \/ docStatus' = "COMPLETED" /\ docStatus = "WAITING_FOR_HUMAN"
  PROVE  DocRunInv'
<1>1. HeardType' BY DEF DocRunInv, HeardType
<1>2. HolderHeard' BY DEF DocRunInv, HolderHeard, DocOwns, DocInFlight
<1>3. AnswersLastFeedback' BY DEF DocRunInv, AnswersLastFeedback, DocInFlight
<1> QED BY <1>1, <1>2, <1>3 DEF DocRunInv

\* The claim hears the current feedback.
LEMMA TakeDocStep ==
  ASSUME DocRunInv, NEW w \in DocWorker, TakeDoc(w) PROVE DocRunInv'
<1>1. HeardType' BY DEF DocRunInv, HeardType, TakeDoc
<1>2. HolderHeard'
  <2> SUFFICES ASSUME NEW v \in DocWorker, DocOwns(v)' PROVE heard'[v] = round'
    BY DEF HolderHeard
  <2>1. v = w BY DEF DocOwns, TakeDoc
  <2> QED BY <2>1 DEF DocRunInv, HeardType, TakeDoc
<1>3. AnswersLastFeedback' BY DEF AnswersLastFeedback, TakeDoc
<1> QED BY <1>1, <1>2, <1>3 DEF DocRunInv

\* An accepted output comes from the holder, and from the current feedback.
LEMMA AcceptOutputStep ==
  ASSUME DocRunInv, NEW w \in DocWorker, AcceptOutput(w) PROVE DocRunInv'
<1>1. answers' = round'
  BY DEF DocRunInv, HolderHeard, AcceptOutput
<1>2. docStatus' \notin DocInFlight
  BY DEF AcceptOutput, MoveDoc, DocInFlight
<1>3. HeardType' BY DEF DocRunInv, HeardType, AcceptOutput
<1>4. HolderHeard' BY <1>2 DEF HolderHeard, DocOwns
<1>5. AnswersLastFeedback' BY <1>1 DEF AnswersLastFeedback
<1> QED BY <1>3, <1>4, <1>5 DEF DocRunInv

\* Asking for changes moves the round, while nobody holds the task.
LEMMA DecideOutputStep ==
  ASSUME DocRunInv, DecideOutput PROVE DocRunInv'
<1>1. CASE UNCHANGED round
  <2>1. \/ docStatus' \in {"PENDING", "CANCELLED"}
        \/ docStatus' = "COMPLETED" /\ docStatus = "WAITING_FOR_HUMAN"
    BY DEF DecideOutput, MoveDoc
  <2> QED BY <1>1, <2>1, GivesUp DEF DecideOutput
<1>2. CASE docStatus' = "PENDING" /\ round' = round + 1
  <2>1. HeardType' BY <1>2 DEF DocRunInv, HeardType, DecideOutput
  <2>2. HolderHeard' BY <1>2 DEF HolderHeard, DocOwns, DocInFlight
  <2>3. AnswersLastFeedback' BY <1>2 DEF AnswersLastFeedback
  <2> QED BY <2>1, <2>2, <2>3 DEF DocRunInv
<1> QED BY <1>1, <1>2 DEF DecideOutput, MoveDoc

\* Every step keeps the invariant.
LEMMA DocRunStep ==
  ASSUME DocRunInv, [DocRunNext]_docRunVars PROVE DocRunInv'
<1>1. CASE UNCHANGED docRunVars
  BY <1>1, GivesUp DEF docRunVars, taskVars
<1>2. ASSUME NEW w \in DocWorker, TakeDoc(w) PROVE DocRunInv'
  BY <1>2, TakeDocStep
<1>3. ASSUME NEW w \in DocWorker, DocCall(w) PROVE DocRunInv'
  <2>1. CASE StartDoc(w)
    BY <2>1, GivesUp DEF StartDoc, OwnStep, DocOwns, DocInFlight
  <2>2. CASE ReadContext(w)
    BY <2>2, GivesUp DEF ReadContext, OwnStep, taskVars
  <2>3. CASE StartAgent(w)
    BY <2>3, GivesUp DEF StartAgent, OwnStep, taskVars
  <2>4. CASE SendOutput(w)
    <3>1. CASE AcceptOutput(w) BY <3>1, AcceptOutputStep
    <3>2. CASE UNCHANGED <<taskVars, heard>> BY <3>2, GivesUp DEF taskVars
    <3> QED BY <2>4, <3>1, <3>2 DEF SendOutput
  <2>5. CASE ReportDocFailed(w)
    BY <2>5, GivesUp DEF ReportDocFailed, MoveDoc
  <2> QED BY <1>3, <2>1, <2>2, <2>3, <2>4, <2>5 DEF DocCall
<1>4. ASSUME NEW w \in DocWorker, RequeueDoc(w) PROVE DocRunInv'
  BY <1>4, GivesUp DEF RequeueDoc, MoveDoc
<1>5. ASSUME NEW w \in DocWorker, AgentEnds(w) \/ RunBreaks(w) \/ DieInRun(w)
      PROVE DocRunInv'
  BY <1>5, GivesUp DEF AgentEnds, RunBreaks, DieInRun, taskVars
<1>6. CASE DecideOutput BY <1>6, DecideOutputStep
<1>7. CASE CancelDoc BY <1>7, GivesUp DEF CancelDoc, MoveDoc
<1>8. CASE RetryDoc BY <1>8, GivesUp DEF RetryDoc, MoveDoc
<1> QED BY <1>1, <1>2, <1>3, <1>4, <1>5, <1>6, <1>7, <1>8
       DEF DocRunNext, RegisterAgain, ReapDead, ReapLate

\* What waits for the owner, or was completed, answers the owner's last feedback.
THEOREM LastFeedbackAnswered == DocRunSpec => []AnswersLastFeedback
<1>1. DocRunInit => DocRunInv BY DocRunInitial
<1>2. DocRunInv /\ [DocRunNext]_docRunVars => DocRunInv' BY DocRunStep
<1>3. DocRunInv => AnswersLastFeedback BY DEF DocRunInv
<1> QED BY <1>1, <1>2, <1>3, PTL DEF DocRunSpec
=============================================================================

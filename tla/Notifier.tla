------------------------------ MODULE Notifier ------------------------------
(***************************************************************************)
(* The notification outbox (controlplane/notify.go and audit in            *)
(* server.go): an announced event and its row are one transaction, and a   *)
(* loop sends the rows that are due.                                       *)
(*                                                                         *)
(* NotifyOnce is one transaction around a batch of HTTP calls, so a        *)
(* message can be out while the row that says so is lost with the          *)
(* transaction.  Each message is a step of its own.  More than one         *)
(* notifier runs when a control plane is replaced by another.              *)
(***************************************************************************)
EXTENDS Integers, FiniteSets

CONSTANTS
  Notice,      \* notifications.id, in the order of the events
  Approvals,   \* the notices of approval.request events
  Notifier,    \* processes that run RunNotifier
  BatchLimit,  \* LIMIT 20
  Day,         \* ticks of the clock after which a row is dropped
  MaxBackoff,  \* the cap of the backoff, 3600 s, in ticks
  MaxFaults    \* bound: crashes and lost replies

ASSUME NoticeAssumption == Notice \subseteq Nat /\ Approvals \subseteq Notice
ASSUME ClockAssumption ==
  BatchLimit \in Nat \ {0} /\ Day \in Nat /\ MaxBackoff \in Nat /\ MaxFaults \in Nat

VARIABLES
  row,       \* "none", "queued" (sent_at is NULL), "sent" or "expired"
  age,       \* ticks since created_at, as far as the day
  wait,      \* ticks until next_attempt_at
  attempts,  \* notifications.attempts, as far as the backoff grows
  wanted,    \* the notices with something to tell: their approval is still pending
  running,   \* the notifiers that run
  batch,     \* the selected rows each open transaction has still to send, in order of id
  asking,    \* whether the first of them is rendered, and goes out
  result,    \* what each open transaction has written: notice -> outcome
  copies,    \* how many copies of a message the owner got, as far as two
  cut,       \* history: the notices with a copy whose row was not written
  faults     \* crashes and lost replies so far

outboxVars == <<row, age, wait, attempts, wanted, running, batch, asking,
                result, copies, cut, faults>>
rowsVars == <<row, age, wait, attempts>>

None == [n \in {} |-> "sent"]
Least(a, b) == IF a < b THEN a ELSE b
Backoff(n) == Least(2 ^ attempts[n], MaxBackoff)

OutboxInit ==
  /\ row = [n \in Notice |-> "none"]
  /\ age = [n \in Notice |-> 0]
  /\ wait = [n \in Notice |-> 0]
  /\ attempts = [n \in Notice |-> 0]
  /\ wanted = {}
  /\ running = Notifier
  /\ batch = [k \in Notifier |-> {}]
  /\ asking = [k \in Notifier |-> FALSE]
  /\ result = [k \in Notifier |-> None]
  /\ copies = [n \in Notice |-> 0]
  /\ cut = {} /\ faults = 0

LockedBy(k) == batch[k] \cup DOMAIN result[k]
Open(k) == LockedBy(k) # {}
LockedRows == UNION {LockedBy(k) : k \in Notifier}

\* audit(): the event and its row in one transaction.  The completed task of a
\* request is announced too, but nothing is sent: the request will be.
Announce(n) ==
  /\ row[n] = "none"
  /\ \A m \in Notice : m < n => row[m] # "none"
  /\ row' = [row EXCEPT ![n] = "queued"]
  /\ \/ wanted' = wanted \cup {n}
     \/ n \notin Approvals /\ UNCHANGED wanted
  /\ UNCHANGED <<age, wait, attempts, running, batch, asking, result, copies, cut, faults>>

\* decide, or a cancel that closes the gate.
ApprovalDecided(n) ==
  /\ n \in Approvals \cap wanted
  /\ wanted' = wanted \ {n}
  /\ UNCHANGED <<rowsVars, running, batch, asking, result, copies, cut, faults>>

\* The clock, which stands still only when nothing is queued.
Tick ==
  /\ \E n \in Notice : row[n] = "queued" /\ (age[n] <= Day \/ wait[n] > 0)
  /\ age' = [n \in Notice |->
       IF row[n] = "queued" /\ age[n] <= Day THEN age[n] + 1 ELSE age[n]]
  /\ wait' = [n \in Notice |-> IF wait[n] > 0 THEN wait[n] - 1 ELSE 0]
  /\ UNCHANGED <<row, attempts, wanted, running, batch, asking, result, copies, cut, faults>>

-----------------------------------------------------------------------------
(***************************************************************************)
(* One run of NotifyOnce.                                                  *)
(***************************************************************************)
\* Mutant: only rows that were never tried are dropped.
MutTooOld == {n \in Notice : row[n] = "queued" /\ age[n] > Day /\ attempts[n] = 0}

TooOld == {n \in Notice : row[n] = "queued" /\ age[n] > Day}
Due(n) == row[n] = "queued" /\ wait[n] = 0 /\ n \notin TooOld

\* Mutant: the rows are not locked.
MutFree(n) == TRUE

\* FOR UPDATE SKIP LOCKED.
Free(n) == n \notin LockedRows

FirstDue ==
  LET due == {n \in Notice : Due(n) /\ Free(n)}
  IN {n \in due : Cardinality({m \in due : m < n}) < BatchLimit}

\* Old rows are expired, and the first that are due are selected and locked.
\* The UPDATE waits for an old row another transaction has locked.
Begin(k) ==
  /\ k \in running /\ ~Open(k)
  /\ TooOld \cap LockedRows = {}
  /\ TooOld \cup FirstDue # {}
  /\ result' = [result EXCEPT ![k] = [n \in TooOld |-> "expired"]]
  /\ batch' = [batch EXCEPT ![k] = FirstDue]
  /\ UNCHANGED <<rowsVars, wanted, running, asking, copies, cut, faults>>

\* ORDER BY n.id: the row whose turn it is.
First(k) == {n \in batch[k] : \A m \in batch[k] : n <= m}

\* The result of row n of k's batch is written.
Written(k, n, outcome) ==
  /\ result' = [result EXCEPT ![k] =
       [m \in DOMAIN @ \cup {n} |-> IF m = n THEN outcome ELSE @[m]]]
  /\ batch' = [batch EXCEPT ![k] = @ \ {n}]
  /\ asking' = [asking EXCEPT ![k] = FALSE]

\* render: an approval that is decided already is not asked for.
Moot(n) == n \notin wanted

Render(k) ==
  /\ ~asking[k]
  /\ \E n \in First(k) :
       IF Moot(n)
       THEN Written(k, n, "sent")
       ELSE /\ asking' = [asking EXCEPT ![k] = TRUE]
            /\ UNCHANGED <<batch, result>>
  /\ UNCHANGED <<rowsVars, wanted, running, copies, cut, faults>>

Copied(n) == copies' = [copies EXCEPT ![n] = Least(@ + 1, 2)]

\* send: accepted, refused, or delivered with the reply lost (10 s timeout).
SendOK(k) ==
  /\ asking[k]
  /\ \E n \in First(k) : Copied(n) /\ Written(k, n, "sent")
  /\ UNCHANGED <<rowsVars, wanted, running, cut, faults>>

\* Mutant: a message that could not be sent is marked as sent.
MutSendFails(k) ==
  /\ asking[k]
  /\ \E n \in First(k) : Written(k, n, "sent")
  /\ UNCHANGED <<rowsVars, wanted, running, copies, cut, faults>>

SendFails(k) ==
  /\ asking[k]
  /\ \E n \in First(k) : Written(k, n, "failed")
  /\ UNCHANGED <<rowsVars, wanted, running, copies, cut, faults>>

SendReplyLost(k) ==
  /\ asking[k] /\ faults < MaxFaults /\ faults' = faults + 1
  /\ \E n \in First(k) : Copied(n) /\ Written(k, n, "failed") /\ cut' = cut \cup {n}
  /\ UNCHANGED <<rowsVars, wanted, running>>

\* The commit.  next_attempt_at counts from the transaction's start: took is
\* the time the batch has taken since.
Commit(k) ==
  /\ Open(k) /\ batch[k] = {}
  /\ row' = [n \in Notice |->
       IF n \in DOMAIN result[k] /\ result[k][n] # "failed"
       THEN result[k][n] ELSE row[n]]
  /\ \E took \in 0..MaxBackoff :
       LET failed == {n \in DOMAIN result[k] : result[k][n] = "failed"} IN
       /\ took > 0 => failed # {}
       /\ wait' = [n \in Notice |->
            IF n \notin failed THEN wait[n]
            ELSE IF Backoff(n) > took THEN Backoff(n) - took ELSE 0]
       /\ attempts' = [n \in Notice |->
            IF n \in failed THEN Least(attempts[n] + 1, MaxBackoff) ELSE attempts[n]]
  /\ result' = [result EXCEPT ![k] = None]
  /\ UNCHANGED <<age, wanted, running, batch, asking, copies, cut, faults>>

\* The process ends, or is stopped, inside a batch: the transaction is rolled
\* back, and with it what it wrote about the messages already out.
Stop(k) ==
  LET out == {n \in DOMAIN result[k] : result[k][n] = "sent" /\ copies[n] > 0}
  IN /\ k \in running
     /\ faults < MaxFaults /\ faults' = faults + 1
     /\ running' = running \ {k}
     /\ cut' = cut \cup out
     /\ batch' = [batch EXCEPT ![k] = {}]
     /\ asking' = [asking EXCEPT ![k] = FALSE]
     /\ result' = [result EXCEPT ![k] = None]
     /\ UNCHANGED <<rowsVars, wanted, copies>>

Restart(k) ==
  /\ k \notin running
  /\ running' = running \cup {k}
  /\ UNCHANGED <<rowsVars, wanted, batch, asking, result, copies, cut, faults>>

Turn(k) ==
  \/ Begin(k) \/ Render(k) \/ SendOK(k) \/ SendFails(k) \/ SendReplyLost(k) \/ Commit(k)

OutboxNext ==
  \/ Tick
  \/ \E n \in Notice : Announce(n) \/ ApprovalDecided(n)
  \/ \E k \in Notifier : Turn(k) \/ Stop(k) \/ Restart(k)

OutboxSpec == OutboxInit /\ [][OutboxNext]_outboxVars

\* A running notifier's loop goes round (a ticker of 2 s), a send ends (its
\* timeout is 10 s), and the clock goes on.  Nobody owes a restart.
OutboxFairness ==
  /\ WF_outboxVars(Tick)
  /\ \A k \in Notifier :
       /\ WF_outboxVars(Begin(k)) /\ WF_outboxVars(Render(k)) /\ WF_outboxVars(Commit(k))
       /\ WF_outboxVars(SendOK(k) \/ SendFails(k) \/ SendReplyLost(k))

OutboxFairSpec == OutboxSpec /\ OutboxFairness

-----------------------------------------------------------------------------
(***************************************************************************)
(* Properties.                                                             *)
(***************************************************************************)

\* "So a restart never loses a message" (docs/apps.md:476): a row is marked as
\* sent only after a copy reached the owner, or when nothing is left to ask.
NeverLost ==
  \A n \in Notice :
    row[n] = "sent" => copies[n] > 0 \/ Moot(n)

\* The owner gets a message twice only if the row of the first copy was not
\* written: its transaction was rolled back, or the reply to the send was lost.
\* Two notifiers side by side do not send the same row.
CopiedOnce ==
  \A n \in Notice : copies[n] > 1 => n \in cut

\* Every notice is sent or dropped in the end, whatever fails, while a notifier
\* runs: no row is skipped for ever by the order, the limit, the locks or the
\* backoff, and a batch that keeps failing does not hold up the rest.
EveryNoticeEnds ==
  \/ <>[](running = {})
  \/ \A n \in Notice : row[n] = "queued" ~> row[n] \in {"sent", "expired"}
=============================================================================

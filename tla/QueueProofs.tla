----------------------------- MODULE QueueProofs -----------------------------
(***************************************************************************)
(* Theorems about the two queues the control plane empties with FOR UPDATE *)
(* SKIP LOCKED, for any number of rows and of processes at them: tasks     *)
(* (ClaimReap), where the lock on the chosen row is enough although the    *)
(* worker's row is not locked, and notices (Notifier), where the lock is   *)
(* held while the messages go out.                                         *)
(***************************************************************************)
EXTENDS ClaimReap, Notifier, TLAPS

-----------------------------------------------------------------------------
(***************************************************************************)
(* Tasks: claims and the reaper.                                           *)
(***************************************************************************)
ReapTypeOK ==
  /\ holder \in [Task -> Worker \cup {NoWorker}]
  /\ claiming \in [Worker -> Task \cup {NoTask}]
  /\ reaping \subseteq Worker

ReapInv == ReapTypeOK /\ ClaimsDisjoint

\* The invariant holds initially.
LEMMA ReapInitial == ASSUME ClaimInit PROVE ReapInv
<1>1. ReapTypeOK BY DEF ClaimInit, ReapTypeOK
<1>2. ClaimsDisjoint BY NoneAssumption DEF ClaimInit, ClaimsDisjoint
<1> QED BY <1>1, <1>2 DEF ReapInv

\* Steps that take no claim and lock no task, but may free tasks.
LEMMA OnlyFrees ==
  ASSUME ReapInv, UNCHANGED claiming,
         requeueing' \subseteq requeueing, reaping' \subseteq Worker,
         holder' \in [Task -> Worker \cup {NoWorker}],
         \A t \in Task : holder'[t] \in {holder[t], NoWorker}
  PROVE  ReapInv'
<1>1. ReapTypeOK' BY DEF ReapInv, ReapTypeOK
<1>2. ClaimsDisjoint' BY DEF ReapInv, ReapTypeOK, ClaimsDisjoint
<1> QED BY <1>1, <1>2 DEF ReapInv

\* A row that is locked is not selected.
LEMMA ClaimSelectStep ==
  ASSUME ReapInv, NEW w \in Worker, NEW t \in Task, ClaimSelect(w, t) PROVE ReapInv'
<1>1. ReapTypeOK' BY DEF ReapInv, ReapTypeOK, ClaimSelect
<1>2. \A v \in Worker : claiming[v] # t BY DEF ClaimSelect, Locked
<1>3. t \notin requeueing /\ holder[t] = NoWorker BY DEF ClaimSelect, Locked
<1>4. ClaimsDisjoint'
  BY <1>2, <1>3 DEF ReapInv, ReapTypeOK, ClaimsDisjoint, ClaimSelect
<1> QED BY <1>1, <1>4 DEF ReapInv

\* The commit touches the claimed task, which nobody else claims.
LEMMA ClaimCommitStep ==
  ASSUME ReapInv, NEW w \in Worker, ClaimCommit(w) PROVE ReapInv'
<1>1. claiming[w] \in Task BY DEF ReapInv, ReapTypeOK, ClaimCommit
<1>2. ReapTypeOK' BY <1>1 DEF ReapInv, ReapTypeOK, ClaimCommit
<1>3. \A v \in Worker : claiming'[v] \in Task => v # w /\ claiming'[v] = claiming[v]
  BY NoneAssumption DEF ReapInv, ReapTypeOK, ClaimCommit
<1>4. \A v \in Worker : claiming'[v] \in Task =>
        /\ holder'[claiming'[v]] = NoWorker
        /\ claiming'[v] \notin requeueing'
  <2> TAKE v \in Worker
  <2> HAVE claiming'[v] \in Task
  <2>1. claiming[v] # claiming[w] BY <1>1, <1>3, NoneAssumption DEF ReapInv, ClaimsDisjoint
  <2> QED BY <1>3, <2>1 DEF ReapInv, ReapTypeOK, ClaimsDisjoint, ClaimCommit
<1>5. \A u, v \in Worker : claiming'[u] = claiming'[v] /\ u # v => claiming'[u] = NoTask
  BY <1>3 DEF ReapInv, ReapTypeOK, ClaimsDisjoint, ClaimCommit
<1> QED BY <1>2, <1>4, <1>5 DEF ReapInv, ClaimsDisjoint

\* The reaper selects tasks somebody holds: those are not being claimed.
LEMMA ReapSelectStep == ASSUME ReapInv, ReapSelect PROVE ReapInv'
<1>1. ReapTypeOK' BY DEF ReapInv, ReapTypeOK, ReapSelect
<1>2. \A w \in Worker : claiming[w] \in Task => claiming[w] \notin requeueing'
  BY NoneAssumption DEF ReapInv, ReapTypeOK, ClaimsDisjoint, ReapSelect, HeldBy
<1>3. ClaimsDisjoint'
  BY <1>2 DEF ReapInv, ClaimsDisjoint, ReapSelect
<1> QED BY <1>1, <1>3 DEF ReapInv

\* Every step keeps the invariant.
LEMMA ReapStep == ASSUME ReapInv, [ClaimNext]_claimVars PROVE ReapInv'
<1> USE DEF ReapInv, ReapTypeOK
<1>1. CASE UNCHANGED claimVars BY <1>1, OnlyFrees DEF claimVars
<1>2. ASSUME NEW w \in Worker, ClaimCommit(w) PROVE ReapInv'
  BY <1>2, ClaimCommitStep
<1>3. ASSUME NEW w \in Worker, Heartbeat(w) \/ Die(w) PROVE ReapInv'
  BY <1>3, OnlyFrees DEF Heartbeat, Die
<1>4. ASSUME NEW w \in Worker, RegisterWorker(w) PROVE ReapInv'
  BY <1>4, OnlyFrees DEF RegisterWorker
<1>5. ASSUME NEW w \in Worker, NEW t \in Task, ClaimSelect(w, t) PROVE ReapInv'
  BY <1>5, ClaimSelectStep
<1>6. ASSUME NEW w \in Worker, NEW t \in Task, GiveBack(w, t) PROVE ReapInv'
  BY <1>6, OnlyFrees DEF GiveBack
<1>7. ASSUME NEW W \in SUBSET Worker, ReapMark(W) PROVE ReapInv'
  BY <1>7, OnlyFrees DEF ReapMark
<1>8. CASE ReapSelect BY <1>8, ReapSelectStep
<1>9. CASE ReapCommit BY <1>9, OnlyFrees DEF ReapCommit
<1> QED BY <1>1, <1>2, <1>3, <1>4, <1>5, <1>6, <1>7, <1>8, <1>9 DEF ClaimNext

\* Two workers never take the same task, and nobody takes one being requeued.
THEOREM ClaimsApart == ClaimSpec => []ClaimsDisjoint
<1>1. ClaimInit => ReapInv BY ReapInitial
<1>2. ReapInv /\ [ClaimNext]_claimVars => ReapInv' BY ReapStep
<1>3. ReapInv => ClaimsDisjoint BY DEF ReapInv
<1> QED BY <1>1, <1>2, <1>3, PTL DEF ClaimSpec

-----------------------------------------------------------------------------
(***************************************************************************)
(* Notices: what the open transactions hold, and what their end leaves.    *)
(***************************************************************************)
Outcome == {"sent", "failed", "expired"}

OutboxTypeOK ==
  /\ row \in [Notice -> {"none", "queued", "sent", "expired"}]
  /\ wanted \subseteq Notice /\ cut \subseteq Notice
  /\ batch \in [Notifier -> SUBSET Notice]
  /\ result \in [Notifier -> UNION {[D -> Outcome] : D \in SUBSET Notice}]
  /\ copies \in [Notice -> 0..2]

\* A row is in one place of one transaction, and queued as long as it is there.
LocksInv ==
  /\ \A k \in Notifier : batch[k] \cap DOMAIN result[k] = {}
  /\ \A k \in Notifier : \A n \in LockedBy(k) : row[n] = "queued"
  /\ \A j, k \in Notifier : \A n \in LockedBy(j) \cap LockedBy(k) : j = k

\* k has written that n was sent, and not committed it.
SaysSent(k, n) == n \in DOMAIN result[k] /\ result[k][n] = "sent"

\* What a transaction says, and what the row says after it, is true...
TruthInv ==
  /\ \A k \in Notifier : \A n \in Notice : SaysSent(k, n) => copies[n] > 0 \/ Moot(n)
  /\ NeverLost

\* ...and of every copy that is out somebody says so, unless that was cut off.
CopyInv ==
  /\ \A n \in Notice :
       copies[n] > 0 /\ n \notin cut =>
         row[n] = "sent" \/ \E k \in Notifier : SaysSent(k, n)
  /\ CopiedOnce

OutboxInv == OutboxTypeOK /\ LocksInv /\ TruthInv /\ CopyInv

\* Nothing is locked and nothing is out.
LEMMA OutboxInitial == ASSUME OutboxInit PROVE OutboxInv
<1>1. None \in [{} -> Outcome] /\ DOMAIN None = {}
  BY DEF None
<1>2. OutboxTypeOK
  <2>1. None \in UNION {[D -> Outcome] : D \in SUBSET Notice}
    BY <1>1
  <2> QED BY <2>1 DEF OutboxInit, OutboxTypeOK
<1>3. LocksInv
  BY <1>1 DEF OutboxInit, LocksInv, LockedBy
<1>4. TruthInv /\ CopyInv
  BY <1>1 DEF OutboxInit, TruthInv, CopyInv, NeverLost, CopiedOnce, SaysSent
<1> QED BY <1>2, <1>3, <1>4 DEF OutboxInv

\* Steps that leave the transactions and the messages alone.
LEMMA OutboxOutside ==
  ASSUME OutboxInv, UNCHANGED <<batch, result, copies, cut>>,
         wanted' \subseteq Notice,
         row' \in [Notice -> {"none", "queued", "sent", "expired"}],
         \A n \in Notice : row[n] # "none" => row'[n] = row[n] /\ (Moot(n) => Moot(n)'),
         \A n \in Notice : row'[n] = "sent" => row[n] = "sent"
  PROVE  OutboxInv'
<1> USE DEF OutboxInv
<1>1. OutboxTypeOK'
  BY DEF OutboxTypeOK
<1>2. \A k \in Notifier : LockedBy(k)' = LockedBy(k) /\ LockedBy(k) \subseteq Notice
  BY DEF LockedBy, OutboxTypeOK
<1>3. LocksInv'
  BY <1>2 DEF LocksInv
<1>4. \A k \in Notifier : \A n \in Notice : SaysSent(k, n)' = SaysSent(k, n)
  BY DEF SaysSent
<1>5. \A k \in Notifier : \A n \in Notice : SaysSent(k, n) => row[n] = "queued"
  BY DEF SaysSent, LocksInv, LockedBy
<1>6. TruthInv'
  BY <1>4, <1>5 DEF TruthInv, NeverLost
<1>7. CopyInv'
  BY <1>4 DEF CopyInv, CopiedOnce
<1> QED BY <1>1, <1>3, <1>6, <1>7

\* One transaction's locks change, to queued rows that are nobody else's.
LEMMA LocksChange ==
  ASSUME LocksInv, NEW k \in Notifier,
         batch'[k] \cap DOMAIN result'[k] = {},
         \A j \in Notifier \ {k} : batch'[j] = batch[j] /\ result'[j] = result[j],
         \A n \in LockedBy(k)' : row'[n] = "queued",
         \A j \in Notifier \ {k} : \A n \in LockedBy(j) :
           row'[n] = row[n] /\ n \notin LockedBy(k)'
  PROVE  LocksInv'
<1>1. \A j \in Notifier \ {k} : LockedBy(j)' = LockedBy(j)
  BY DEF LockedBy
<1>2. ASSUME NEW j \in Notifier
      PROVE  /\ (batch[j] \cap DOMAIN result[j] = {})'
             /\ \A n \in LockedBy(j)' : row'[n] = "queued"
  BY <1>1 DEF LocksInv
<1>3. ASSUME NEW i \in Notifier, NEW j \in Notifier, NEW n \in LockedBy(i)' \cap LockedBy(j)'
      PROVE  i = j
  BY <1>1, <1>3 DEF LocksInv
<1> QED BY <1>2, <1>3 DEF LocksInv

\* The selected rows and the expired ones were nobody's.
LEMMA BeginStep ==
  ASSUME OutboxInv, NEW k \in Notifier, Begin(k) PROVE OutboxInv'
<1> USE DEF OutboxInv
<1> DEFINE old == [n \in TooOld |-> "expired"]
<1>1. TooOld \subseteq Notice /\ FirstDue \subseteq Notice /\ TooOld \cap FirstDue = {}
  BY DEF TooOld, FirstDue, Due
<1>2. \A n \in TooOld \cup FirstDue : row[n] = "queued" /\ n \notin LockedRows
  BY DEF TooOld, FirstDue, Due, Free, Begin
<1>3. old \in [TooOld -> Outcome] /\ \A n \in TooOld : old[n] = "expired"
  BY DEF Outcome
<1>4. /\ result' = [result EXCEPT ![k] = old]
      /\ batch' = [batch EXCEPT ![k] = FirstDue]
      /\ UNCHANGED <<row, wanted, copies, cut>>
  BY DEF Begin, rowsVars
<1> HIDE DEF old
<1>5. OutboxTypeOK'
  BY <1>1, <1>3, <1>4 DEF OutboxTypeOK
<1>6. LockedBy(k)' = TooOld \cup FirstDue
  BY <1>3, <1>4 DEF OutboxTypeOK, LockedBy
<1>7. batch'[k] \cap DOMAIN result'[k] = {}
  BY <1>1, <1>3, <1>4 DEF OutboxTypeOK
<1>8. LocksInv'
  <2>1. \A j \in Notifier \ {k} : batch'[j] = batch[j] /\ result'[j] = result[j]
    BY <1>4 DEF OutboxTypeOK
  <2>2. \A j \in Notifier : \A n \in LockedBy(j) : n \in LockedRows
    BY DEF LockedRows
  <2> QED BY <1>2, <1>4, <1>6, <1>7, <2>1, <2>2, LocksChange
<1>9. LockedBy(k) = {}
  BY DEF Begin, Open
<1>10. \A j \in Notifier : \A n \in Notice : SaysSent(j, n)' = SaysSent(j, n)
  BY <1>3, <1>4, <1>9 DEF OutboxTypeOK, SaysSent, LockedBy
<1>11. TruthInv' /\ CopyInv'
  BY <1>4, <1>10 DEF TruthInv, CopyInv, NeverLost, CopiedOnce, Moot
<1> QED BY <1>5, <1>8, <1>11

\* A row's result is written: the row was locked by the same transaction.
LEMMA WrittenRow ==
  ASSUME OutboxInv, NEW k \in Notifier, NEW n \in batch[k],
         NEW outcome \in Outcome, Written(k, n, outcome), UNCHANGED row,
         wanted' = wanted, copies' \in [Notice -> 0..2], cut' \in SUBSET Notice
  PROVE  /\ OutboxTypeOK' /\ LocksInv'
         /\ SaysSent(k, n)' = (outcome = "sent")
         /\ \A j \in Notifier : ~SaysSent(j, n)
         /\ \A j \in Notifier : \A m \in Notice :
              <<j, m>> # <<k, n>> => SaysSent(j, m)' = SaysSent(j, m)
<1> USE DEF OutboxInv
<1> DEFINE new == [m \in DOMAIN result[k] \cup {n} |-> IF m = n THEN outcome ELSE result[k][m]]
<1>1. n \in Notice /\ DOMAIN result[k] \subseteq Notice
  BY DEF OutboxTypeOK
<1>2. /\ DOMAIN new = DOMAIN result[k] \cup {n} /\ new[n] = outcome
      /\ \A m \in DOMAIN result[k] : m # n => new[m] = result[k][m]
  OBVIOUS
<1>3. result[k] \in [DOMAIN result[k] -> Outcome]
  BY DEF OutboxTypeOK
<1>4. new \in [DOMAIN result[k] \cup {n} -> Outcome]
  BY <1>3
<1>5. result' = [result EXCEPT ![k] = new] /\ batch' = [batch EXCEPT ![k] = batch[k] \ {n}]
  BY DEF Written
<1> HIDE DEF new
<1>6. OutboxTypeOK'
  <2>1. new \in UNION {[D -> Outcome] : D \in SUBSET Notice}
    BY <1>1, <1>4
  <2> QED BY <2>1, <1>5 DEF OutboxTypeOK
<1>7. \A j \in Notifier : LockedBy(j)' = LockedBy(j)
  BY <1>2, <1>5 DEF OutboxTypeOK, LockedBy
<1>8. n \notin DOMAIN result[k]
  BY DEF LocksInv
<1>9. LocksInv'
  BY <1>2, <1>5, <1>7 DEF OutboxTypeOK, LocksInv
<1>10. \A j \in Notifier : ~SaysSent(j, n)
  BY <1>8 DEF LocksInv, SaysSent, LockedBy
<1>11. /\ SaysSent(k, n)' = (outcome = "sent")
       /\ \A j \in Notifier : \A m \in Notice :
              <<j, m>> # <<k, n>> => SaysSent(j, m)' = SaysSent(j, m)
  BY <1>2, <1>5, <1>8 DEF OutboxTypeOK, SaysSent
<1> QED BY <1>6, <1>9, <1>10, <1>11

\* A message that is rendered, and found to have nothing to tell, is done.
LEMMA RenderStep ==
  ASSUME OutboxInv, NEW k \in Notifier, Render(k) PROVE OutboxInv'
<1> USE DEF OutboxInv
<1>1. UNCHANGED <<row, wanted, copies, cut>>
  BY DEF Render, rowsVars
<1>2. PICK n \in First(k) :
        IF Moot(n) THEN Written(k, n, "sent")
        ELSE UNCHANGED <<batch, result>>
  BY DEF Render
<1>3. CASE ~Moot(n)
  BY <1>1, <1>2, <1>3, OutboxOutside DEF OutboxTypeOK, Moot
<1>4. CASE Moot(n)
  <2>1. n \in batch[k] /\ n \in Notice /\ row[n] = "queued"
    BY DEF First, OutboxTypeOK, LocksInv, LockedBy
  <2>2. Written(k, n, "sent") /\ "sent" \in Outcome
    BY <1>2, <1>4 DEF Outcome
  <2>3. copies' \in [Notice -> 0..2] /\ cut' \in SUBSET Notice
    BY <1>1 DEF OutboxTypeOK
  <2>4. OutboxTypeOK' /\ LocksInv'
    BY <1>1, <2>1, <2>2, <2>3, WrittenRow
  <2>5. SaysSent(k, n)' /\ \A j \in Notifier : \A m \in Notice :
              <<j, m>> # <<k, n>> => SaysSent(j, m)' = SaysSent(j, m)
    BY <1>1, <2>1, <2>2, <2>3, WrittenRow
  <2>6. TruthInv' /\ CopyInv'
    BY <1>1, <1>4, <2>1, <2>5 DEF TruthInv, CopyInv, NeverLost, CopiedOnce, Moot
  <2> QED BY <2>4, <2>6
<1> QED BY <1>3, <1>4

\* A message that goes out: it is the first copy, or the one before was cut off.
LEMMA SendStep ==
  ASSUME OutboxInv, NEW k \in Notifier, SendOK(k) \/ SendReplyLost(k) \/ SendFails(k)
  PROVE  OutboxInv'
<1> USE DEF OutboxInv
<1>1. UNCHANGED <<row, wanted>>
  BY DEF SendOK, SendReplyLost, SendFails, rowsVars
<1>2. PICK n \in First(k) :
        \/ Copied(n) /\ Written(k, n, "sent") /\ cut' = cut
        \/ Copied(n) /\ Written(k, n, "failed") /\ cut' = cut \cup {n}
        \/ Written(k, n, "failed") /\ copies' = copies /\ cut' = cut
  BY DEF SendOK, SendReplyLost, SendFails
<1>3. n \in batch[k] /\ n \in Notice /\ row[n] = "queued"
  BY DEF First, OutboxTypeOK, LocksInv, LockedBy
<1>4. PICK outcome \in {"sent", "failed"} : Written(k, n, outcome)
  BY <1>2
<1>5. /\ copies' \in [Notice -> 0..2]
      /\ \A m \in Notice : copies'[m] >= copies[m]
      /\ \A m \in Notice : m # n => copies'[m] = copies[m]
  <2>1. CASE copies' = copies
    BY <2>1 DEF OutboxTypeOK
  <2>2. CASE Copied(n)
    <3>1. copies[n] \in Nat /\ Least(copies[n] + 1, 2) \in 0..2
      BY <1>3 DEF OutboxTypeOK, Least
    <3>2. copies[n] <= 2
      BY <1>3 DEF OutboxTypeOK
    <3>3. Least(copies[n] + 1, 2) >= copies[n]
      BY <3>1, <3>2 DEF Least
    <3> QED BY <1>3, <2>2, <3>1, <3>3 DEF OutboxTypeOK, Copied
  <2> QED BY <1>2, <2>1, <2>2
<1>6. outcome \in Outcome /\ cut' \in SUBSET Notice /\ cut \subseteq cut'
  BY <1>2, <1>3 DEF Outcome, OutboxTypeOK
<1>7. OutboxTypeOK' /\ LocksInv'
  BY <1>1, <1>3, <1>4, <1>5, <1>6, WrittenRow
<1>8. /\ SaysSent(k, n)' = (outcome = "sent")
      /\ \A j \in Notifier : ~SaysSent(j, n)
      /\ \A j \in Notifier : \A m \in Notice :
              <<j, m>> # <<k, n>> => SaysSent(j, m)' = SaysSent(j, m)
  BY <1>1, <1>3, <1>4, <1>5, <1>6, WrittenRow
<1>9. n \notin cut => copies[n] = 0
  BY <1>3, <1>8 DEF CopyInv, OutboxTypeOK
<1>10. \/ SaysSent(k, n)' /\ copies'[n] > 0 /\ (n \notin cut => copies'[n] = 1)
       \/ ~SaysSent(k, n)' /\ (copies'[n] > 0 => n \in cut')
  <2>1. Copied(n) => copies'[n] > 0 /\ (copies[n] = 0 => copies'[n] = 1)
    BY <1>3 DEF Copied, Least, OutboxTypeOK
  <2>2. CASE Copied(n) /\ Written(k, n, "sent")
    <3>1. SaysSent(k, n)'
      BY <1>1, <1>3, <1>5, <1>6, <2>2, WrittenRow DEF Outcome
    <3> QED BY <1>9, <2>1, <2>2, <3>1
  <2>3. CASE Written(k, n, "failed") /\ ((copies' = copies /\ cut' = cut) \/ cut' = cut \cup {n})
    <3>1. ~SaysSent(k, n)'
      BY <1>1, <1>3, <1>5, <1>6, <2>3, WrittenRow DEF Outcome
    <3> QED BY <1>9, <2>3, <3>1
  <2> QED BY <1>2, <2>2, <2>3
<1>11. TruthInv'
  BY <1>1, <1>3, <1>5, <1>8, <1>10 DEF TruthInv, NeverLost, Moot, OutboxTypeOK
<1>12. CopyInv'
  BY <1>1, <1>3, <1>5, <1>6, <1>8, <1>10 DEF CopyInv, CopiedOnce, OutboxTypeOK
<1> QED BY <1>7, <1>11, <1>12

\* The commit makes the rows say what the transaction says.
LEMMA CommitStep ==
  ASSUME OutboxInv, NEW k \in Notifier, Commit(k) PROVE OutboxInv'
<1> USE DEF OutboxInv
<1>1. /\ row' = [n \in Notice |->
           IF n \in DOMAIN result[k] /\ result[k][n] # "failed" THEN result[k][n] ELSE row[n]]
      /\ result' = [result EXCEPT ![k] = None]
      /\ UNCHANGED <<batch, wanted, copies, cut>>
      /\ batch[k] = {}
  BY DEF Commit
<1>2. None \in [{} -> Outcome] /\ DOMAIN None = {}
  BY DEF None
<1>3. result[k] \in [DOMAIN result[k] -> Outcome] /\ DOMAIN result[k] \subseteq Notice
  BY DEF OutboxTypeOK
<1>4. OutboxTypeOK'
  <2>1. row' \in [Notice -> {"none", "queued", "sent", "expired"}]
    BY <1>1, <1>3 DEF OutboxTypeOK, Outcome
  <2>2. None \in UNION {[D -> Outcome] : D \in SUBSET Notice}
    BY <1>2
  <2> QED BY <1>1, <2>1, <2>2 DEF OutboxTypeOK
<1>5. LockedBy(k)' = {} /\ \A j \in Notifier \ {k} : LockedBy(j)' = LockedBy(j)
  BY <1>1, <1>2 DEF OutboxTypeOK, LockedBy
<1>6. \A j \in Notifier \ {k} : \A n \in LockedBy(j) : row'[n] = row[n] /\ n \in Notice
  BY <1>1 DEF LocksInv, LockedBy, OutboxTypeOK
<1>7. LocksInv'
  <2>1. batch'[k] \cap DOMAIN result'[k] = {}
    BY <1>1
  <2>2. \A j \in Notifier \ {k} : batch'[j] = batch[j] /\ result'[j] = result[j]
    BY <1>1 DEF OutboxTypeOK
  <2> QED BY <1>5, <1>6, <2>1, <2>2, LocksChange
<1>8. /\ \A n \in Notice : ~SaysSent(k, n)'
      /\ \A j \in Notifier \ {k} : \A n \in Notice : SaysSent(j, n)' = SaysSent(j, n)
      /\ \A n \in Notice : row'[n] = "sent" => row[n] = "sent" \/ SaysSent(k, n)
      /\ \A n \in Notice : SaysSent(k, n) => row'[n] = "sent"
  BY <1>1, <1>2 DEF OutboxTypeOK, SaysSent
<1>9. \A n \in Notice : row[n] = "sent" => row'[n] = "sent"
  BY <1>1 DEF LocksInv, LockedBy, OutboxTypeOK
<1>10. TruthInv' /\ CopyInv'
  BY <1>1, <1>8, <1>9 DEF TruthInv, CopyInv, NeverLost, CopiedOnce, Moot
<1> QED BY <1>4, <1>7, <1>10

\* A transaction that is cut off says nothing of the copies it sent.
LEMMA StopStep ==
  ASSUME OutboxInv, NEW k \in Notifier, Stop(k) PROVE OutboxInv'
<1> USE DEF OutboxInv
<1>1. /\ cut' = cut \cup {n \in DOMAIN result[k] : result[k][n] = "sent" /\ copies[n] > 0}
      /\ result' = [result EXCEPT ![k] = None]
      /\ batch' = [batch EXCEPT ![k] = {}]
      /\ UNCHANGED <<row, wanted, copies>>
  BY DEF Stop, rowsVars
<1>2. None \in [{} -> Outcome] /\ DOMAIN None = {}
  BY DEF None
<1>3. OutboxTypeOK'
  <2>1. None \in UNION {[D -> Outcome] : D \in SUBSET Notice}
    BY <1>2
  <2> QED BY <1>1, <2>1 DEF OutboxTypeOK
<1>4. LockedBy(k)' = {} /\ \A j \in Notifier \ {k} : LockedBy(j)' = LockedBy(j)
  BY <1>1, <1>2 DEF OutboxTypeOK, LockedBy
<1>5. LocksInv'
  <2>1. batch'[k] \cap DOMAIN result'[k] = {}
    BY <1>1 DEF OutboxTypeOK
  <2>2. \A j \in Notifier \ {k} : batch'[j] = batch[j] /\ result'[j] = result[j]
    BY <1>1 DEF OutboxTypeOK
  <2> QED BY <1>1, <1>4, <2>1, <2>2, LocksChange
<1>6. /\ \A n \in Notice : ~SaysSent(k, n)'
      /\ \A j \in Notifier \ {k} : \A n \in Notice : SaysSent(j, n)' = SaysSent(j, n)
      /\ \A n \in Notice : SaysSent(k, n) /\ copies[n] > 0 => n \in cut'
  BY <1>1, <1>2 DEF OutboxTypeOK, SaysSent
<1>7. TruthInv' /\ CopyInv'
  BY <1>1, <1>6 DEF TruthInv, CopyInv, NeverLost, CopiedOnce, Moot
<1> QED BY <1>3, <1>5, <1>7

\* Every step of the clock, the handlers and the notifiers.
LEMMA OutboxStep == ASSUME OutboxInv, [OutboxNext]_outboxVars PROVE OutboxInv'
<1> USE DEF OutboxInv
<1>1. CASE UNCHANGED outboxVars
  BY <1>1, OutboxOutside DEF outboxVars, OutboxTypeOK, Moot
<1>2. CASE Tick
  BY <1>2, OutboxOutside DEF Tick, OutboxTypeOK, Moot
<1>3. ASSUME NEW n \in Notice, Announce(n) PROVE OutboxInv'
  BY <1>3, OutboxOutside DEF Announce, OutboxTypeOK, Moot
<1>4. ASSUME NEW n \in Notice, ApprovalDecided(n) PROVE OutboxInv'
  BY <1>4, OutboxOutside DEF ApprovalDecided, OutboxTypeOK, Moot, rowsVars
<1>5. ASSUME NEW k \in Notifier, Turn(k) PROVE OutboxInv'
  BY <1>5, BeginStep, RenderStep, SendStep, CommitStep DEF Turn
<1>6. ASSUME NEW k \in Notifier, Stop(k) PROVE OutboxInv'
  BY <1>6, StopStep
<1>7. ASSUME NEW k \in Notifier, Restart(k) PROVE OutboxInv'
  BY <1>7, OutboxOutside DEF Restart, OutboxTypeOK, Moot, rowsVars
<1> QED BY <1>1, <1>2, <1>3, <1>4, <1>5, <1>6, <1>7 DEF OutboxNext

\* What the open transactions hold is queued and locked by one, what they say is true,
\* and every copy that is out is accounted for.
THEOREM OutboxInvariant == OutboxSpec => []OutboxInv
BY OutboxInitial, OutboxStep, PTL DEF OutboxSpec

\* A row is marked sent only after a copy went out or when nothing is left to ask,
\* whatever crashes, refusals and lost replies come between send and commit.
THEOREM NoticeNeverLost == OutboxSpec => []NeverLost
<1>1. OutboxInv => NeverLost
  BY DEF OutboxInv, TruthInv
<1> QED BY <1>1, OutboxInvariant, PTL

\* A second copy goes out only of a message whose row was cut off from its first:
\* any number of notifiers do not double each other's messages.
THEOREM NoticeCopiedOnce == OutboxSpec => []CopiedOnce
<1>1. OutboxInv => CopiedOnce
  BY DEF OutboxInv, CopyInv
<1> QED BY <1>1, OutboxInvariant, PTL
=============================================================================

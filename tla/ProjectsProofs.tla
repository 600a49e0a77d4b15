--------------------------- MODULE ProjectsProofs ---------------------------
(***************************************************************************)
(* Projects, for any projects, clients and tasks, and any number of        *)
(* handlers at once: the audit log tells every level a project has had as  *)
(* long as no two updates of it overlap, and no dependency joins two       *)
(* clients as long as moves and creations do not.                          *)
(***************************************************************************)
EXTENDS Projects, TLAPS

Stored == Level \cup {"none"}

Calls ==
  {Idle}
  \cup [op : {"update"}, project : Project, before : Stored, after : Stored]
  \cup [op : {"move", "moving"}, project : Project, to : ClientOrNone]
  \cup [op : {"create"}, task : TaskId, project : Project, client : ClientOrNone,
        todo : SUBSET TaskId, linked : SUBSET TaskId]

ProjTypeOK ==
  /\ default \in [Client -> Stored]
  /\ client \in [Project -> ClientOrNone \cup {NoProject}]
  /\ autonomy \in [Project -> Stored]
  /\ trail \in [Project -> Seq([before : Stored, after : Stored])]
  /\ owner \in [TaskId -> Project \cup {NoProject}]
  /\ call \in [Call -> Calls]

\* A handler past its first read works on a project that exists.
CallsExist ==
  \A c \in Call :
    call[c].op # "idle" => call[c].project \in Project /\ Exists(call[c].project)

Audited ==
  \A p \in Project :
    Exists(p) => trail[p] # <<>> /\ autonomy[p] = trail[p][Len(trail[p])].after

ProjInv == ProjTypeOK /\ CallsExist /\ Audited

\* What a handler in progress is, by its op.
LEMMA CallKinds ==
  ASSUME NEW r \in Calls
  PROVE  /\ r.op = "update" =>
              r \in [op : {"update"}, project : Project, before : Stored, after : Stored]
         /\ r.op \in {"move", "moving"} =>
              r \in [op : {"move", "moving"}, project : Project, to : ClientOrNone]
         /\ r.op = "create" =>
              r \in [op : {"create"}, task : TaskId, project : Project, client : ClientOrNone,
                    todo : SUBSET TaskId, linked : SUBSET TaskId]
<1>1. CASE r = Idle
  BY <1>1 DEF Idle
<1>2. CASE r # Idle
  BY <1>2 DEF Calls
<1> QED
  BY <1>1, <1>2

\* The last element of a sequence of one.
LEMMA OneRow ==
  ASSUME NEW S, NEW e \in S
  PROVE  /\ <<e>> \in Seq(S)
         /\ <<e>> # <<>> /\ <<e>>[Len(<<e>>)] = e
  OBVIOUS

\* The last element of a sequence that was appended to.
LEMMA LastRow ==
  ASSUME NEW S, NEW s \in Seq(S), NEW e \in S
  PROVE  /\ Append(s, e) \in Seq(S)
         /\ Append(s, e) # <<>> /\ Append(s, e)[Len(Append(s, e))] = e
  OBVIOUS

\* The audit invariant holds initially.
LEMMA ProjInitial == ProjInit => ProjInv
  BY ProjectsAssumption
     DEF ProjInit, ProjInv, ProjTypeOK, CallsExist, Audited, Exists, Stored, Calls, Idle

\* Creating a client keeps the audit invariant.
LEMMA CreateClientAudited ==
  ASSUME NEW k \in Client, NEW level \in Level, ProjInv, CreateClient(k, level)
  PROVE  ProjInv'
  BY DEF ProjInv, ProjTypeOK, CallsExist, Audited, Exists, CreateClient, Stored

\* Creating a project begins its trail with its level.
LEMMA CreateProjectAudited ==
  ASSUME NEW p \in Project, NEW k \in ClientOrNone, NEW asked \in Level \cup {""}, ProjInv,
         CreateProject(p, k, asked)
  PROVE  ProjInv'
<1> DEFINE level == IF asked # "" THEN asked
                    ELSE IF k = NoClient THEN Conservative ELSE default[k]
           first == [before |-> level, after |-> level]
<1>1. level \in Stored
  BY ProjectsAssumption DEF ProjInv, ProjTypeOK, Stored, ClientOrNone
<1>2. /\ client' = [client EXCEPT ![p] = k]
      /\ autonomy' = [autonomy EXCEPT ![p] = level]
      /\ trail' = [trail EXCEPT ![p] = <<first>>]
      /\ UNCHANGED <<default, owner, links, call>>
      /\ ~Exists(p)
  BY DEF CreateProject
<1> HIDE DEF level
<1>3. first \in [before : Stored, after : Stored]
  BY <1>1
<1> HIDE DEF first
<1>4. /\ <<first>> \in Seq([before : Stored, after : Stored])
      /\ <<first>> # <<>> /\ <<first>>[Len(<<first>>)] = first
  BY <1>3, OneRow
<1>5. ProjTypeOK'
  BY <1>4, <1>1, <1>2 DEF ProjInv, ProjTypeOK
<1>6. CallsExist'
  BY <1>2, ProjectsAssumption DEF ProjInv, ProjTypeOK, CallsExist, Exists, ClientOrNone
<1>7. Audited'
  <2> SUFFICES ASSUME NEW q \in Project, Exists(q)'
               PROVE  trail'[q] # <<>> /\ autonomy'[q] = trail'[q][Len(trail'[q])].after
    BY DEF Audited
  <2>1. CASE q = p
    <3>1. trail'[q] = <<first>> /\ autonomy'[q] = level
      BY <1>2, <2>1 DEF ProjInv, ProjTypeOK
    <3>2. first.after = level
      BY DEF first
    <3> QED
      BY <1>4, <3>1, <3>2
  <2>2. CASE q # p
    BY <1>2, <2>2 DEF ProjInv, ProjTypeOK, Audited, Exists
  <2> QED
    BY <2>1, <2>2
<1> QED
  BY <1>5, <1>6, <1>7 DEF ProjInv

\* A handler that reads, or refuses, writes no row.
LEMMA CallOnly ==
  ASSUME NEW c \in Call, NEW r \in Calls, ProjInv, call' = [call EXCEPT ![c] = r],
         UNCHANGED rowVars, r.op # "idle" => r.project \in Project /\ Exists(r.project)
  PROVE  ProjInv'
  BY DEF ProjInv, ProjTypeOK, CallsExist, Audited, Exists, rowVars

\* A change of level is written with its audit row.
LEMMA UpdateWriteAudited ==
  ASSUME NEW c \in Call, ProjInv, UpdateWrite(c)
  PROVE  ProjInv'
<1> DEFINE u == call[c]
           entry == [before |-> u.before, after |-> u.after]
<1>1. u \in [op : {"update"}, project : Project, before : Stored, after : Stored]
  BY CallKinds DEF ProjInv, ProjTypeOK, UpdateWrite
<1>2. /\ autonomy' = [autonomy EXCEPT ![u.project] = u.after]
      /\ trail' = [trail EXCEPT ![u.project] = Append(@, entry)]
      /\ call' = [call EXCEPT ![c] = Idle]
      /\ UNCHANGED <<default, client, owner, links>>
  BY DEF UpdateWrite, Answer
<1> HIDE DEF u
<1>3. entry \in [before : Stored, after : Stored] /\ entry.after = u.after
  BY <1>1
<1> HIDE DEF entry
<1>4. trail[u.project] \in Seq([before : Stored, after : Stored])
  BY <1>1 DEF ProjInv, ProjTypeOK
<1>5. /\ Append(trail[u.project], entry) \in Seq([before : Stored, after : Stored])
      /\ Append(trail[u.project], entry) # <<>>
      /\ Append(trail[u.project], entry)[Len(Append(trail[u.project], entry))] = entry
  BY <1>3, <1>4, LastRow
<1>6. ProjTypeOK'
  BY <1>1, <1>2, <1>5 DEF ProjInv, ProjTypeOK, Calls
<1>7. CallsExist'
  BY <1>2 DEF ProjInv, ProjTypeOK, CallsExist, Exists, Idle
<1>8. Audited'
  <2> SUFFICES ASSUME NEW q \in Project, Exists(q)'
               PROVE  trail'[q] # <<>> /\ autonomy'[q] = trail'[q][Len(trail'[q])].after
    BY DEF Audited
  <2>1. CASE q = u.project
    <3>1. trail'[q] = Append(trail[q], entry) /\ autonomy'[q] = u.after
      BY <1>1, <1>2, <2>1 DEF ProjInv, ProjTypeOK
    <3> QED
      BY <1>3, <1>5, <2>1, <3>1
  <2>2. CASE q # u.project
    BY <1>1, <1>2, <2>2 DEF ProjInv, ProjTypeOK, Audited, Exists
  <2> QED
    BY <2>1, <2>2
<1> QED
  BY <1>6, <1>7, <1>8 DEF ProjInv

\* Moving a project to a client keeps the audit invariant.
LEMMA MoveWriteAudited ==
  ASSUME NEW c \in Call, ProjInv, MoveWrite(c)
  PROVE  ProjInv'
<1> DEFINE m == call[c]
<1>1. /\ m \in [op : {"move", "moving"}, project : Project, to : ClientOrNone]
      /\ Exists(m.project)
  BY DEF ProjInv, ProjTypeOK, CallsExist, Calls, Idle, MoveWrite
<1>2. /\ client' = [client EXCEPT ![m.project] = m.to]
      /\ call' = [call EXCEPT ![c] = Idle]
      /\ UNCHANGED <<default, autonomy, trail, owner, links>>
  BY DEF MoveWrite, Answer
<1> HIDE DEF m
<1>3. ProjTypeOK'
  BY <1>1, <1>2 DEF ProjInv, ProjTypeOK, Calls
<1>4. CallsExist'
  BY <1>1, <1>2, ProjectsAssumption
     DEF ProjInv, ProjTypeOK, CallsExist, Exists, ClientOrNone, Idle
<1>5. Audited'
  BY <1>1, <1>2 DEF ProjInv, ProjTypeOK, Audited, Exists
<1> QED
  BY <1>3, <1>4, <1>5 DEF ProjInv

\* Creating tasks keeps the audit invariant.
LEMMA CreateCommitAudited ==
  ASSUME NEW c \in Call, ProjInv, CreateCommit(c)
  PROVE  ProjInv'
<1>1. call[c] \in [op : {"create"}, task : TaskId, project : Project,
                   client : ClientOrNone, todo : SUBSET TaskId, linked : SUBSET TaskId]
  BY CallKinds DEF ProjInv, ProjTypeOK, CreateCommit
<1>2. ProjTypeOK'
  BY <1>1 DEF ProjInv, ProjTypeOK, Calls, CreateCommit, Answer
<1>3. CallsExist'
  BY DEF ProjInv, ProjTypeOK, CallsExist, Exists, Idle, CreateCommit, Answer
<1>4. Audited'
  BY DEF ProjInv, Audited, Exists, CreateCommit
<1> QED
  BY <1>2, <1>3, <1>4 DEF ProjInv

\* The steps of a handler that write no row.
Reads(c) ==
  \/ \E p \in Project :
       \/ \E asked \in Level \cup {""} : UpdateRead(c, p, asked)
       \/ \E k \in ClientOrNone : MoveRead(c, p, k)
       \/ \E t \in TaskId, deps \in SUBSET TaskId : CreateRead(c, t, p, deps)
  \/ MoveCheck(c)
  \/ \E d \in TaskId : CreateLink(c, d)

\* What a handler only reads keeps the audit invariant.
LEMMA ReadsAudited ==
  ASSUME NEW c \in Call, ProjInv, Reads(c)
  PROVE  ProjInv'
<1> SUFFICES ASSUME TRUE
             PROVE  \E r \in Calls :
                      /\ call' = [call EXCEPT ![c] = r] /\ UNCHANGED rowVars
                      /\ r.op # "idle" => r.project \in Project /\ Exists(r.project)
  BY CallOnly
<1> USE DEF ProjInv
<1>1. ASSUME NEW p \in Project, NEW asked \in Level \cup {""}, UpdateRead(c, p, asked)
      PROVE  \E r \in Calls :
               /\ call' = [call EXCEPT ![c] = r] /\ UNCHANGED rowVars
               /\ r.op # "idle" => r.project \in Project /\ Exists(r.project)
  <2> DEFINE r == [op |-> "update", project |-> p, before |-> autonomy[p],
                   after |-> IF asked = "" THEN autonomy[p] ELSE asked]
  <2>1. r \in Calls
    BY DEF Calls, ProjTypeOK, Stored
  <2>2. call' = [call EXCEPT ![c] = r] /\ UNCHANGED rowVars /\ Exists(r.project)
    BY <1>1 DEF UpdateRead
  <2> QED
    BY <2>1, <2>2
<1>2. ASSUME NEW p \in Project, NEW k \in ClientOrNone, MoveRead(c, p, k)
      PROVE  \E r \in Calls :
               /\ call' = [call EXCEPT ![c] = r] /\ UNCHANGED rowVars
               /\ r.op # "idle" => r.project \in Project /\ Exists(r.project)
  <2> DEFINE r == [op |-> "move", project |-> p, to |-> k]
  <2>1. r \in Calls
    BY DEF Calls
  <2>2. call' = [call EXCEPT ![c] = r] /\ UNCHANGED rowVars /\ Exists(r.project)
    BY <1>2 DEF MoveRead
  <2> QED
    BY <2>1, <2>2
<1>3. ASSUME NEW p \in Project, NEW t \in TaskId, NEW deps \in SUBSET TaskId,
             CreateRead(c, t, p, deps)
      PROVE  \E r \in Calls :
               /\ call' = [call EXCEPT ![c] = r] /\ UNCHANGED rowVars
               /\ r.op # "idle" => r.project \in Project /\ Exists(r.project)
  <2> DEFINE r == [op |-> "create", task |-> t, project |-> p, client |-> client[p],
                   todo |-> deps, linked |-> {}]
  <2>1. client[p] \in ClientOrNone
    BY <1>3 DEF CreateRead, Exists, ProjTypeOK
  <2>2. r \in Calls
    BY <2>1 DEF Calls
  <2>3. call' = [call EXCEPT ![c] = r] /\ UNCHANGED rowVars /\ Exists(r.project)
    BY <1>3 DEF CreateRead
  <2> QED
    BY <2>2, <2>3
<1>4. ASSUME MoveCheck(c)
      PROVE  \E r \in Calls :
               /\ call' = [call EXCEPT ![c] = r] /\ UNCHANGED rowVars
               /\ r.op # "idle" => r.project \in Project /\ Exists(r.project)
  <2> DEFINE m == call[c]
             r == [m EXCEPT !.op = "moving"]
  <2>1. /\ m \in [op : {"move", "moving"}, project : Project, to : ClientOrNone]
        /\ Exists(m.project)
    BY <1>4, CallKinds DEF MoveCheck, ProjTypeOK, CallsExist
  <2>2. r \in Calls /\ r.project = m.project
    BY <2>1 DEF Calls
  <2>3. Idle \in Calls /\ Idle.op = "idle"
    BY DEF Calls, Idle
  <2>4. CASE call' = [call EXCEPT ![c] = r]
    BY <1>4, <2>1, <2>2, <2>4 DEF MoveCheck
  <2>5. CASE call' = [call EXCEPT ![c] = Idle]
    BY <1>4, <2>3, <2>5 DEF MoveCheck
  <2> QED
    BY <1>4, <2>4, <2>5 DEF MoveCheck, Answer
<1>5. ASSUME NEW d \in TaskId, CreateLink(c, d)
      PROVE  \E r \in Calls :
               /\ call' = [call EXCEPT ![c] = r] /\ UNCHANGED rowVars
               /\ r.op # "idle" => r.project \in Project /\ Exists(r.project)
  <2> DEFINE n == call[c]
             r == [n EXCEPT !.todo = @ \ {d}, !.linked = @ \cup {d}]
  <2>1. /\ n \in [op : {"create"}, task : TaskId, project : Project, client : ClientOrNone,
                  todo : SUBSET TaskId, linked : SUBSET TaskId]
        /\ Exists(n.project)
    BY <1>5, CallKinds DEF CreateLink, ProjTypeOK, CallsExist
  <2>2. r \in Calls /\ r.project = n.project
    BY <2>1 DEF Calls
  <2>3. Idle \in Calls /\ Idle.op = "idle"
    BY DEF Calls, Idle
  <2>4. CASE call' = [call EXCEPT ![c] = r]
    BY <1>5, <2>1, <2>2, <2>4 DEF CreateLink
  <2>5. CASE call' = [call EXCEPT ![c] = Idle]
    BY <1>5, <2>3, <2>5 DEF CreateLink
  <2> QED
    BY <1>5, <2>4, <2>5 DEF CreateLink, Answer
<1> QED
  BY <1>1, <1>2, <1>3, <1>4, <1>5 DEF Reads

\* Every step keeps the audit invariant.
LEMMA ProjStep == ProjInv /\ [ProjNext]_projVars => ProjInv'
<1> SUFFICES ASSUME ProjInv, [ProjNext]_projVars
             PROVE  ProjInv'
  OBVIOUS
<1>1. CASE UNCHANGED projVars
  BY <1>1 DEF projVars, ProjInv, ProjTypeOK, CallsExist, Audited, Exists
<1>2. ASSUME NEW k \in Client, NEW level \in Level, CreateClient(k, level)
      PROVE  ProjInv'
  BY <1>2, CreateClientAudited
<1>3. ASSUME NEW p \in Project, NEW k \in ClientOrNone, NEW asked \in Level \cup {""},
             CreateProject(p, k, asked)
      PROVE  ProjInv'
  BY <1>3, CreateProjectAudited
<1>4. ASSUME NEW c \in Call, Reads(c)
      PROVE  ProjInv'
  BY <1>4, ReadsAudited
<1>5. ASSUME NEW c \in Call, UpdateWrite(c) \/ MoveWrite(c) \/ CreateCommit(c)
      PROVE  ProjInv'
  BY <1>5, UpdateWriteAudited, MoveWriteAudited, CreateCommitAudited
<1> QED
  BY <1>1, <1>2, <1>3, <1>4, <1>5 DEF ProjNext, Reads

-----------------------------------------------------------------------------
(***************************************************************************)
(* One update of a project at a time.                                      *)
(***************************************************************************)
Chained(rows) == \A k \in 2..Len(rows) : rows[k].before = rows[k - 1].after

\* An update in progress starts from the level in force.
BeforeCurrent(c) ==
  call[c].op = "update" => call[c].before = autonomy[call[c].project]

TrailInv ==
  /\ ProjInv
  /\ \A p \in Project : Chained(trail[p])
  /\ \A c \in Call : BeforeCurrent(c)

\* One row is a chain.
LEMMA ChainedOne ==
  ASSUME NEW rows, Len(rows) = 1
  PROVE  Chained(rows)
BY DEF Chained

\* A row that begins where the last one ended prolongs the chain.
LEMMA ChainedAppend ==
  ASSUME NEW S, NEW rows \in Seq(S), rows # <<>>, Chained(rows), NEW e \in S,
         e.before = rows[Len(rows)].after
  PROVE  Chained(Append(rows, e))
<1> SUFFICES ASSUME NEW k \in 2..Len(Append(rows, e))
             PROVE  Append(rows, e)[k].before = Append(rows, e)[k - 1].after
  BY DEF Chained
<1>1. Len(rows) \in Nat \ {0} /\ Len(Append(rows, e)) = Len(rows) + 1
  OBVIOUS
<1>2. Append(rows, e)[k - 1] = rows[k - 1]
  BY <1>1
<1>3. CASE k = Len(rows) + 1
  BY <1>1, <1>2, <1>3
<1>4. CASE k # Len(rows) + 1
  <2>1. k \in 2..Len(rows) /\ Append(rows, e)[k] = rows[k]
    BY <1>1, <1>4
  <2> QED
    BY <1>2, <2>1 DEF Chained
<1> QED
  BY <1>3, <1>4

\* A new project has one row, and no handler has read it.
LEMMA CreateProjectTrail ==
  ASSUME NEW p \in Project, NEW k \in ClientOrNone, NEW asked \in Level \cup {""}, TrailInv,
         CreateProject(p, k, asked)
  PROVE  (\A q \in Project : Chained(trail[q])') /\ \A c \in Call : BeforeCurrent(c)'
<1>1. /\ ~Exists(p) /\ UNCHANGED call
      /\ \E level : autonomy' = [autonomy EXCEPT ![p] = level]
      /\ \E e : trail' = [trail EXCEPT ![p] = <<e>>]
  BY DEF CreateProject
<1>2. ASSUME NEW q \in Project
      PROVE  Chained(trail[q])'
  <2>1. PICK e : trail' = [trail EXCEPT ![p] = <<e>>]
    BY <1>1
  <2>2. CASE q = p
    <3>1. trail'[q] = <<e>> /\ Len(<<e>>) = 1
      BY <2>1, <2>2 DEF TrailInv, ProjInv, ProjTypeOK
    <3>2. Chained(trail'[q])
      BY <3>1, ChainedOne
    <3> QED
      BY <3>2 DEF Chained
  <2>3. CASE q # p
    BY <2>1, <2>3 DEF TrailInv, ProjInv, ProjTypeOK, Chained
  <2> QED
    BY <2>2, <2>3
<1>3. \A c \in Call : call[c].op = "update" =>
        call[c].project \in Project /\ call[c].project # p
  BY <1>1 DEF TrailInv, ProjInv, CallsExist
<1> QED
  BY <1>1, <1>2, <1>3 DEF TrailInv, ProjInv, ProjTypeOK, BeforeCurrent

\* An update that has just read the row starts from the level in force.
LEMMA ReadsTrail ==
  ASSUME NEW c \in Call, TrailInv, Reads(c)
  PROVE  BeforeCurrent(c)'
<1> USE DEF TrailInv, ProjInv
<1>1. UNCHANGED autonomy
  BY DEF Reads, UpdateRead, MoveRead, CreateRead, MoveCheck, CreateLink, rowVars
<1>2. ASSUME NEW p \in Project, NEW asked \in Level \cup {""}, UpdateRead(c, p, asked)
      PROVE  BeforeCurrent(c)'
  BY <1>1, <1>2 DEF UpdateRead, ProjTypeOK, BeforeCurrent
<1>3. ASSUME NEW p \in Project, NEW k \in ClientOrNone, MoveRead(c, p, k)
      PROVE  BeforeCurrent(c)'
  BY <1>3 DEF MoveRead, ProjTypeOK, BeforeCurrent
<1>4. ASSUME NEW p \in Project, NEW t \in TaskId, NEW deps \in SUBSET TaskId,
             CreateRead(c, t, p, deps)
      PROVE  BeforeCurrent(c)'
  BY <1>4 DEF CreateRead, ProjTypeOK, BeforeCurrent
<1>5. ASSUME MoveCheck(c)
      PROVE  BeforeCurrent(c)'
  <2>1. call[c] \in [op : {"move", "moving"}, project : Project, to : ClientOrNone]
    BY <1>5, CallKinds DEF MoveCheck, ProjTypeOK
  <2>2. call'[c].op \in {"moving", "idle"}
    BY <1>5, <2>1 DEF MoveCheck, Answer, Idle, ProjTypeOK
  <2> QED
    BY <2>2 DEF BeforeCurrent
<1>6. ASSUME NEW d \in TaskId, CreateLink(c, d)
      PROVE  BeforeCurrent(c)'
  <2>1. call[c] \in [op : {"create"}, task : TaskId, project : Project,
                     client : ClientOrNone, todo : SUBSET TaskId, linked : SUBSET TaskId]
    BY <1>6, CallKinds DEF CreateLink, ProjTypeOK
  <2>2. CASE call' = [call EXCEPT ![c] = Idle]
    BY <2>2 DEF Idle, ProjTypeOK, BeforeCurrent
  <2>3. CASE call' = [call EXCEPT ![c] = [call[c] EXCEPT !.todo = @ \ {d}, !.linked = @ \cup {d}]]
    BY <2>1, <2>3 DEF ProjTypeOK, BeforeCurrent
  <2> QED
    BY <1>6, <2>2, <2>3 DEF CreateLink, Answer
<1> QED
  BY <1>2, <1>3, <1>4, <1>5, <1>6 DEF Reads

\* An update writes the row after the last one, and no other update of the
\* project is left that read the old level.
LEMMA UpdateWriteTrail ==
  ASSUME NEW c \in Call, TrailInv, UpdatesApart, UpdateWrite(c)
  PROVE  (\A q \in Project : Chained(trail[q])') /\ \A d \in Call : BeforeCurrent(d)'
<1>1. /\ call[c] \in [op : {"update"}, project : Project, before : Stored, after : Stored]
      /\ Exists(call[c].project)
  BY CallKinds DEF TrailInv, ProjInv, ProjTypeOK, CallsExist, UpdateWrite
<1>2. PICK p \in Project, old \in Stored, new \in Stored :
        p = call[c].project /\ old = call[c].before /\ new = call[c].after
  BY <1>1
<1> DEFINE entry == [before |-> old, after |-> new]
<1>3. /\ autonomy' = [autonomy EXCEPT ![p] = new]
      /\ trail' = [trail EXCEPT ![p] = Append(@, entry)]
      /\ call' = [call EXCEPT ![c] = Idle]
  BY <1>2 DEF UpdateWrite, Answer
<1>4. entry \in [before : Stored, after : Stored] /\ entry.before = old
  OBVIOUS
<1> HIDE DEF entry
<1>5. /\ trail[p] \in Seq([before : Stored, after : Stored]) /\ trail[p] # <<>>
      /\ Chained(trail[p]) /\ autonomy[p] = trail[p][Len(trail[p])].after
  BY <1>1, <1>2 DEF TrailInv, ProjInv, ProjTypeOK, Audited
<1>6. old = autonomy[p]
  BY <1>1, <1>2 DEF TrailInv, BeforeCurrent
<1>7. Chained(Append(trail[p], entry))
  BY <1>4, <1>5, <1>6, ChainedAppend
<1>8. \A q \in Project : Chained(trail[q])'
  BY <1>3, <1>7 DEF TrailInv, ProjInv, ProjTypeOK, Chained
<1>9. ASSUME NEW d \in Call
      PROVE  BeforeCurrent(d)'
  <2>1. CASE d = c
    BY <1>3, <2>1 DEF TrailInv, ProjInv, ProjTypeOK, BeforeCurrent, Idle
  <2>2. ASSUME d # c, call[d].op = "update"
        PROVE  call[d].project # p /\ call[d].project \in Project
    BY <1>1, <1>2, <2>2 DEF UpdatesApart, TrailInv, ProjInv, CallsExist
  <2> QED
    BY <1>3, <2>1, <2>2 DEF TrailInv, ProjInv, ProjTypeOK, BeforeCurrent
<1> QED
  BY <1>8, <1>9

\* As long as no two updates of one project overlap, its trail tells every level
\* it has had, whatever moves, creations and updates of other projects do: the
\* reading of the row without a lock is the only gap in the audit (updateProject).
THEOREM AuditComplete == ProjSpec /\ []UpdatesApart => []ChangesAudited
<1>1. ProjInit => TrailInv
  BY ProjInitial DEF ProjInit, TrailInv, Chained, BeforeCurrent, Idle
<1>2. TrailInv => ChangesAudited
  BY DEF TrailInv, ProjInv, Audited, Chained, ChangesAudited
<1>3. TrailInv /\ UpdatesApart /\ [ProjNext]_projVars => TrailInv'
  <2> SUFFICES ASSUME TrailInv, UpdatesApart, [ProjNext]_projVars
               PROVE  (\A p \in Project : Chained(trail[p])') /\ \A c \in Call : BeforeCurrent(c)'
    BY ProjStep DEF TrailInv
  <2>1. ASSUME UNCHANGED <<autonomy, trail, call>>
        PROVE  (\A p \in Project : Chained(trail[p])') /\ \A c \in Call : BeforeCurrent(c)'
    BY <2>1 DEF TrailInv, Chained, BeforeCurrent
  <2>2. ASSUME NEW c \in Call, Reads(c) \/ MoveWrite(c) \/ CreateCommit(c)
        PROVE  (\A p \in Project : Chained(trail[p])') /\ \A d \in Call : BeforeCurrent(d)'
    <3>1. UNCHANGED <<autonomy, trail>>
      BY <2>2 DEF Reads, UpdateRead, MoveRead, CreateRead, MoveCheck, CreateLink, rowVars,
                  MoveWrite, CreateCommit
    <3>2. \E r : call' = [call EXCEPT ![c] = r]
      BY <2>2 DEF Reads, UpdateRead, MoveRead, CreateRead, MoveCheck, CreateLink, Answer,
                  MoveWrite, CreateCommit
    <3>3. BeforeCurrent(c)'
      <4>1. CASE Reads(c)
        BY <4>1, ReadsTrail
      <4>2. CASE call' = [call EXCEPT ![c] = Idle]
        BY <4>2 DEF Idle, BeforeCurrent, TrailInv, ProjInv, ProjTypeOK
      <4> QED
        BY <2>2, <4>1, <4>2 DEF MoveWrite, CreateCommit, Answer
    <3>4. \A d \in Call \ {c} : BeforeCurrent(d)'
      BY <3>1, <3>2 DEF BeforeCurrent, TrailInv, ProjInv, ProjTypeOK
    <3> QED
      BY <3>1, <3>3, <3>4 DEF TrailInv, Chained
  <2> QED
    BY <2>1, <2>2, CreateProjectTrail, UpdateWriteTrail
       DEF ProjNext, Reads, CreateClient, projVars
<1> QED
  BY <1>1, <1>2, <1>3, PTL DEF ProjSpec

-----------------------------------------------------------------------------
(***************************************************************************)
(* One move or creation at a time.                                         *)
(***************************************************************************)
Placed(t) == t \in TaskId /\ owner[t] \in Project /\ Exists(owner[t])

\* Both ends of a dependency are tasks whose rows are there, of one client.
LinksInside ==
  \A l \in links :
    /\ Placed(l[1]) /\ Placed(l[2]) /\ client[owner[l[1]]] = client[owner[l[2]]]

\* What a handler has read is still so.
ReadsCurrent(c) ==
  LET n == call[c] IN
  /\ n.op = "create" =>
       /\ owner[n.task] = NoProject /\ n.client = client[n.project]
       /\ \A d \in n.linked : Placed(d) /\ client[owner[d]] = n.client
  /\ n.op = "moving" => \A q \in Linked(n.project) : client[q] = n.to

ApartInv == ProjInv /\ LinksInside /\ \A c \in Call : ReadsCurrent(c)

\* Initially nothing is linked.
LEMMA ApartInitial == ProjInit => ApartInv
  BY ProjInitial DEF ProjInit, ApartInv, LinksInside, ReadsCurrent, Idle

\* A new project has no link, and what handlers have read stays current.
LEMMA CreateProjectApart ==
  ASSUME NEW p \in Project, NEW k \in ClientOrNone, NEW asked \in Level \cup {""}, ApartInv,
         CreateProject(p, k, asked)
  PROVE  LinksInside' /\ \A c \in Call : ReadsCurrent(c)'
<1>1. /\ UNCHANGED <<owner, links, call>> /\ client \in [Project -> ClientOrNone \cup {NoProject}]
      /\ \A q \in Project : Exists(q) => client'[q] = client[q]
  BY DEF CreateProject, ApartInv, ProjInv, ProjTypeOK, Exists
<1>2. \A t \in TaskId : Placed(t) => Placed(t)' /\ client'[owner'[t]] = client[owner[t]]
  BY <1>1 DEF Placed, Exists
<1>3. LinksInside'
  BY <1>1, <1>2 DEF ApartInv, LinksInside, Placed
<1>4. ASSUME NEW c \in Call
      PROVE  ReadsCurrent(c)'
  <2>1. ReadsCurrent(c) /\ call[c] \in Calls /\ call'[c] = call[c]
    BY <1>1 DEF ApartInv, ProjInv, ProjTypeOK
  <2>2. ASSUME call[c].op = "create"
        PROVE  ReadsCurrent(c)'
    <3>1. /\ call[c].linked \subseteq TaskId
          /\ call[c].project \in Project /\ Exists(call[c].project)
      BY <2>1, <2>2, CallKinds DEF ApartInv, ProjInv, CallsExist
    <3> QED
      BY <1>1, <1>2, <2>1, <2>2, <3>1 DEF ReadsCurrent
  <2>3. ASSUME call[c].op = "moving"
        PROVE  ReadsCurrent(c)'
    <3>1. Linked(call[c].project)' = Linked(call[c].project)
      BY <1>1 DEF Linked
    <3>2. ASSUME NEW q \in Linked(call[c].project)
          PROVE  Exists(q) /\ q \in Project
      BY DEF Linked, ApartInv, LinksInside, Placed
    <3> QED
      BY <1>1, <2>1, <2>3, <3>1, <3>2 DEF ReadsCurrent
  <2> QED
    BY <2>1, <2>2, <2>3 DEF ReadsCurrent
<1> QED
  BY <1>3, <1>4

\* What a handler has just read is so.
LEMMA ReadsApart ==
  ASSUME NEW c \in Call, ApartInv, Reads(c)
  PROVE  LinksInside' /\ ReadsCurrent(c)'
<1> USE DEF ApartInv
<1>1. UNCHANGED <<client, owner, links>>
  BY DEF Reads, UpdateRead, MoveRead, CreateRead, MoveCheck, CreateLink, rowVars
<1>2. LinksInside' /\ \A t : Placed(t)' <=> Placed(t)
  BY <1>1 DEF LinksInside, Placed, Exists
<1>3. \A q : Linked(q)' = Linked(q)
  BY <1>1 DEF Linked
<1>4. ASSUME call'[c].op \notin {"create", "moving"}
      PROVE  ReadsCurrent(c)'
  BY <1>4 DEF ReadsCurrent
<1>5. ASSUME NEW p \in Project, NEW asked \in Level \cup {""}, UpdateRead(c, p, asked)
      PROVE  ReadsCurrent(c)'
  BY <1>4, <1>5 DEF UpdateRead, ProjInv, ProjTypeOK
<1>6. ASSUME NEW p \in Project, NEW k \in ClientOrNone, MoveRead(c, p, k)
      PROVE  ReadsCurrent(c)'
  BY <1>4, <1>6 DEF MoveRead, ProjInv, ProjTypeOK
<1>7. ASSUME NEW p \in Project, NEW t \in TaskId, NEW deps \in SUBSET TaskId,
             CreateRead(c, t, p, deps)
      PROVE  ReadsCurrent(c)'
  <2>1. call'[c] = [op |-> "create", task |-> t, project |-> p, client |-> client[p],
                    todo |-> deps, linked |-> {}]
    BY <1>7 DEF CreateRead, ProjInv, ProjTypeOK
  <2>2. owner[t] = NoProject
    BY <1>7 DEF CreateRead
  <2> QED
    BY <1>1, <2>1, <2>2 DEF ReadsCurrent
<1>8. ASSUME MoveCheck(c)
      PROVE  ReadsCurrent(c)'
  <2>1. call[c] \in [op : {"move", "moving"}, project : Project, to : ClientOrNone]
    BY <1>8, CallKinds DEF MoveCheck, ProjInv, ProjTypeOK
  <2>2. CASE \A q \in Linked(call[c].project) : client[q] = call[c].to
    <3>1. call'[c] = [call[c] EXCEPT !.op = "moving"]
      BY <1>8, <2>2 DEF MoveCheck, ProjInv, ProjTypeOK
    <3>2. call'[c].project = call[c].project /\ call'[c].to = call[c].to
          /\ call'[c].op = "moving"
      BY <2>1, <3>1
    <3> QED
      BY <1>1, <1>3, <2>2, <3>2 DEF ReadsCurrent
  <2>3. CASE ~\A q \in Linked(call[c].project) : client[q] = call[c].to
    <3>1. call'[c] = Idle
      BY <1>8, <2>3 DEF MoveCheck, Answer, ProjInv, ProjTypeOK
    <3> QED
      BY <1>4, <3>1 DEF Idle
  <2> QED
    BY <2>2, <2>3
<1>9. ASSUME NEW d \in TaskId, CreateLink(c, d)
      PROVE  ReadsCurrent(c)'
  <2> DEFINE n == call[c]
  <2>1. /\ n \in [op : {"create"}, task : TaskId, project : Project, client : ClientOrNone,
                  todo : SUBSET TaskId, linked : SUBSET TaskId]
        /\ n.op = "create" /\ ReadsCurrent(c)
    BY <1>9, CallKinds DEF CreateLink, ProjInv, ProjTypeOK
  <2>2. CASE owner[d] # NoProject /\ client[owner[d]] = n.client
    <3>1. call'[c] = [n EXCEPT !.todo = @ \ {d}, !.linked = @ \cup {d}]
      BY <1>9, <2>2 DEF CreateLink, ProjInv, ProjTypeOK
    <3>2. /\ call'[c].op = "create" /\ call'[c].task = n.task /\ call'[c].client = n.client
          /\ call'[c].project = n.project /\ call'[c].linked = n.linked \cup {d}
      BY <2>1, <3>1
    <3>3. Placed(d)
      BY <2>1, <2>2, ProjectsAssumption DEF ProjInv, ProjTypeOK, Placed, Exists, ClientOrNone
    <3> QED
      BY <1>1, <1>2, <2>1, <2>2, <3>2, <3>3 DEF ReadsCurrent
  <2>3. CASE ~(owner[d] # NoProject /\ client[owner[d]] = n.client)
    <3>1. call'[c] = Idle
      BY <1>9, <2>3 DEF CreateLink, Answer, ProjInv, ProjTypeOK
    <3> QED
      BY <1>4, <3>1 DEF Idle
  <2> QED
    BY <2>2, <2>3
<1> QED
  BY <1>2, <1>5, <1>6, <1>7, <1>8, <1>9 DEF Reads

\* A project that is moved takes no link to another client along.
LEMMA MoveWriteApart ==
  ASSUME NEW c \in Call, ApartInv, MoveWrite(c)
  PROVE  LinksInside' /\ ReadsCurrent(c)'
<1> DEFINE m == call[c]
<1>1. /\ m \in [op : {"move", "moving"}, project : Project, to : ClientOrNone]
      /\ \A q \in Linked(m.project) : client[q] = m.to
      /\ client' = [client EXCEPT ![m.project] = m.to] /\ UNCHANGED <<owner, links>>
      /\ call'[c] = Idle /\ client \in [Project -> ClientOrNone \cup {NoProject}]
  BY CallKinds DEF MoveWrite, Answer, ApartInv, ReadsCurrent, ProjInv, ProjTypeOK
<1> HIDE DEF m
<1>2. ASSUME NEW l \in links
      PROVE  /\ Placed(l[1])' /\ Placed(l[2])'
             /\ client'[owner'[l[1]]] = client'[owner'[l[2]]]
  <2> DEFINE a == owner[l[1]]  b == owner[l[2]]
  <2>1. /\ Placed(l[1]) /\ Placed(l[2]) /\ client[a] = client[b]
        /\ a \in Project /\ b \in Project
    BY DEF ApartInv, LinksInside, Placed
  <2>2. /\ a # m.project /\ b = m.project => a \in Linked(m.project)
        /\ b # m.project /\ a = m.project => b \in Linked(m.project)
    BY <2>1 DEF Linked
  <2>3. \A q \in Project : client'[q] = IF q = m.project THEN m.to ELSE client[q]
    BY <1>1
  <2>4. client'[a] = client'[b]
    BY <1>1, <2>1, <2>2, <2>3
  <2>5. Exists(a)' /\ Exists(b)'
    BY <1>1, <2>1, <2>3, ProjectsAssumption DEF Placed, Exists, ClientOrNone
  <2> QED
    BY <1>1, <2>1, <2>4, <2>5 DEF Placed, Exists
<1>3. LinksInside'
  BY <1>1, <1>2 DEF LinksInside
<1> QED
  BY <1>1, <1>3 DEF ReadsCurrent, Idle

\* New tasks are linked to projects of the same client.
LEMMA CreateCommitApart ==
  ASSUME NEW c \in Call, ApartInv, CreateCommit(c)
  PROVE  LinksInside' /\ ReadsCurrent(c)'
<1>1. /\ call[c] \in [op : {"create"}, task : TaskId, project : Project,
                      client : ClientOrNone, todo : SUBSET TaskId, linked : SUBSET TaskId]
      /\ call[c].op = "create" /\ ReadsCurrent(c) /\ Exists(call[c].project)
  BY CallKinds DEF CreateCommit, ApartInv, ProjInv, ProjTypeOK, CallsExist
<1>2. PICK t \in TaskId, p \in Project, S \in SUBSET TaskId :
        t = call[c].task /\ p = call[c].project /\ S = call[c].linked
  BY <1>1
<1>3. /\ owner' = [owner EXCEPT ![t] = p] /\ links' = links \cup {<<t, d>> : d \in S}
      /\ call' = [call EXCEPT ![c] = Idle] /\ UNCHANGED client
  BY <1>2 DEF CreateCommit, Answer
<1>4. /\ owner[t] = NoProject /\ Exists(p)
      /\ \A d \in S : Placed(d) /\ client[owner[d]] = client[p]
  BY <1>1, <1>2 DEF ReadsCurrent
<1>5. \A d \in TaskId : Placed(d) => d # t /\ owner'[d] = owner[d] /\ Placed(d)'
  BY <1>3, <1>4, ProjectsAssumption DEF ApartInv, ProjInv, ProjTypeOK, Placed, Exists
<1>6. Placed(t)' /\ owner'[t] = p
  BY <1>3, <1>4 DEF ApartInv, ProjInv, ProjTypeOK, Placed, Exists
<1>7. LinksInside'
  <2> SUFFICES ASSUME NEW l \in links'
               PROVE  /\ Placed(l[1])' /\ Placed(l[2])'
                      /\ client'[owner'[l[1]]] = client'[owner'[l[2]]]
    BY DEF LinksInside
  <2>1. CASE l \in links
    BY <1>3, <1>5, <2>1 DEF ApartInv, LinksInside, Placed
  <2>2. ASSUME NEW d \in S, l = <<t, d>>
        PROVE  /\ Placed(l[1])' /\ Placed(l[2])'
               /\ client'[owner'[l[1]]] = client'[owner'[l[2]]]
    <3>1. l[1] = t /\ l[2] = d /\ d \in TaskId
      BY <2>2
    <3> QED
      BY <1>3, <1>4, <1>5, <1>6, <3>1
  <2> QED
    BY <1>3, <2>1, <2>2
<1>8. call'[c] = Idle
  BY <1>3 DEF ApartInv, ProjInv, ProjTypeOK
<1> QED
  BY <1>7, <1>8 DEF ReadsCurrent, Idle

\* A step of a handler leaves what the others have read as it was, unless both
\* bring tasks and clients together.
LEMMA OthersCurrent ==
  ASSUME ApartInv, LinkersApart, NEW c \in Call, NEW d \in Call \ {c},
         Reads(c) \/ UpdateWrite(c) \/ MoveWrite(c) \/ CreateCommit(c)
  PROVE  ReadsCurrent(d)'
<1>1. call'[d] = call[d]
  <2>1. \E r : call' = [call EXCEPT ![c] = r]
    BY DEF Reads, UpdateRead, MoveRead, CreateRead, MoveCheck, CreateLink, Answer,
           UpdateWrite, MoveWrite, CreateCommit
  <2> QED
    BY <2>1 DEF ApartInv, ProjInv, ProjTypeOK
<1>2. CASE Reads(c) \/ UpdateWrite(c)
  <2>1. UNCHANGED <<client, owner, links>>
    BY <1>2 DEF Reads, UpdateRead, MoveRead, CreateRead, MoveCheck, CreateLink, rowVars, UpdateWrite
  <2> QED
    BY <1>1, <2>1 DEF ApartInv, ReadsCurrent, Linked, Placed, Exists
<1>3. CASE MoveWrite(c) \/ CreateCommit(c)
  <2>1. call[c].op \in {"moving", "create"}
    BY <1>3 DEF MoveWrite, CreateCommit
  <2>2. call[d].op \notin {"moving", "create"}
    BY <2>1 DEF LinkersApart
  <2> QED
    BY <1>1, <2>2 DEF ReadsCurrent
<1> QED
  BY <1>2, <1>3

\* As long as no two handlers that move projects or create tasks overlap, no
\* dependency joins two clients' tasks: the checks of createTask and moveProject
\* are complete, and only their overlap breaks the rule.
THEOREM ApartAlone == ProjSpec /\ []LinkersApart => []ClientsApart
<1>1. ApartInv => ClientsApart
  BY DEF ApartInv, LinksInside, ClientsApart
<1>2. ApartInv /\ LinkersApart /\ [ProjNext]_projVars => ApartInv'
  <2> SUFFICES ASSUME ApartInv, LinkersApart, [ProjNext]_projVars
               PROVE  LinksInside' /\ \A c \in Call : ReadsCurrent(c)'
    BY ProjStep DEF ApartInv
  <2>1. CASE UNCHANGED projVars
    BY <2>1 DEF projVars, ApartInv, LinksInside, ReadsCurrent, Linked, Placed, Exists
  <2>2. ASSUME NEW k \in Client, NEW level \in Level, CreateClient(k, level)
        PROVE  LinksInside' /\ \A c \in Call : ReadsCurrent(c)'
    BY <2>2 DEF CreateClient, ApartInv, LinksInside, ReadsCurrent, Linked, Placed, Exists
  <2>3. ASSUME NEW c \in Call, UpdateWrite(c)
        PROVE  LinksInside' /\ ReadsCurrent(c)'
    BY <2>3 DEF UpdateWrite, Answer, Idle, ApartInv, ProjInv, ProjTypeOK, LinksInside,
                ReadsCurrent, Placed, Exists
  <2>4. ASSUME NEW c \in Call, Reads(c) \/ UpdateWrite(c) \/ MoveWrite(c) \/ CreateCommit(c)
        PROVE  LinksInside' /\ \A d \in Call : ReadsCurrent(d)'
    <3>1. LinksInside' /\ ReadsCurrent(c)'
      BY <2>3, <2>4, ReadsApart, MoveWriteApart, CreateCommitApart
    <3>2. \A d \in Call \ {c} : ReadsCurrent(d)'
      BY <2>4, OthersCurrent
    <3> QED
      BY <3>1, <3>2
  <2> QED
    BY <2>1, <2>2, <2>4, CreateProjectApart DEF ProjNext, Reads
<1> QED
  BY <1>1, <1>2, ApartInitial, PTL DEF ProjSpec
=============================================================================

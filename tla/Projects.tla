------------------------------ MODULE Projects ------------------------------
(***************************************************************************)
(* Clients, projects and the dependencies between their tasks              *)
(* (controlplane/projects.go, createTask in tasks.go), statement by        *)
(* statement.                                                              *)
(*                                                                         *)
(* No handler here locks the project's row, so a transaction (READ         *)
(* COMMITTED) may act on a row another one has changed since.  A call is   *)
(* a handler in progress; what it has written is invisible until its last  *)
(* step, which is its commit.  Repositories only refuse calls and are left *)
(* out.                                                                    *)
(***************************************************************************)
EXTENDS Integers, Sequences

CONSTANTS
  Project, Client, TaskId,
  Level,        \* autonomy levels
  Conservative, \* the one a project without a client starts with
  Call,         \* handlers that may be in progress at the same time
  MaxUpdates,   \* bound: no update of a project begins with this many rows in its trail
  NoClient, NoProject

ASSUME ProjectsAssumption ==
  /\ NoClient \notin Client /\ NoProject \notin Project \cup Client \cup {NoClient}
  /\ Conservative \in Level /\ MaxUpdates \in Nat

VARIABLES
  default,   \* clients.default_autonomy_level, or "none" before the row exists
  client,    \* projects.client_id, or NoProject before the row exists
  autonomy,  \* projects.autonomy_level
  trail,     \* the project.create and project.update rows of audit_log
  owner,     \* tasks.project_id, or NoProject before the row is committed
  links,     \* task_dependencies
  call       \* the local state of each handler in progress

rowVars  == <<default, client, autonomy, trail, owner, links>>
projVars == <<default, client, autonomy, trail, owner, links, call>>

ClientOrNone == Client \cup {NoClient}
Idle   == [op |-> "idle"]
Exists(p) == client[p] # NoProject
Answer(c) == call' = [call EXCEPT ![c] = Idle]

ProjInit ==
  /\ default = [k \in Client |-> "none"]
  /\ client = [p \in Project |-> NoProject]
  /\ autonomy = [p \in Project |-> Conservative]
  /\ trail = [p \in Project |-> <<>>]
  /\ owner = [t \in TaskId |-> NoProject]
  /\ links = {}
  /\ call = [c \in Call |-> Idle]

\* Rows never change clients.default_autonomy_level: one step each.
CreateClient(k, level) ==
  /\ default[k] = "none"
  /\ default' = [default EXCEPT ![k] = level]
  /\ UNCHANGED <<client, autonomy, trail, owner, links, call>>

CreateProject(p, k, asked) ==
  LET level == IF asked # "" THEN asked
               ELSE IF k = NoClient THEN Conservative ELSE default[k]
  IN /\ ~Exists(p)
     /\ k # NoClient => default[k] # "none"
     /\ client' = [client EXCEPT ![p] = k]
     /\ autonomy' = [autonomy EXCEPT ![p] = level]
     /\ trail' = [trail EXCEPT ![p] = <<[before |-> level, after |-> level]>>]
     /\ UNCHANGED <<default, owner, links, call>>

-----------------------------------------------------------------------------
\* updateProject: the row is read without a lock...
UpdateRead(c, p, asked) ==
  /\ call[c] = Idle /\ Exists(p) /\ Len(trail[p]) < MaxUpdates
  /\ call' = [call EXCEPT ![c] =
       [op |-> "update", project |-> p, before |-> autonomy[p],
        after |-> IF asked = "" THEN autonomy[p] ELSE asked]]
  /\ UNCHANGED rowVars

\* ...and both fields are written back, the one the call did not name as read.
UpdateWrite(c) ==
  LET u == call[c] IN
  /\ u.op = "update"
  /\ autonomy' = [autonomy EXCEPT ![u.project] = u.after]
  /\ trail' = [trail EXCEPT ![u.project] =
                 Append(@, [before |-> u.before, after |-> u.after])]
  /\ Answer(c)
  /\ UNCHANGED <<default, client, owner, links>>

\* moveProject: the rows of the project and of the new client are read...
MoveRead(c, p, k) ==
  /\ call[c] = Idle /\ Exists(p)
  /\ k # NoClient => default[k] # "none"
  /\ call' = [call EXCEPT ![c] = [op |-> "move", project |-> p, to |-> k]]
  /\ UNCHANGED rowVars

\* Mutant: only the tasks p's own tasks wait for are looked at.
MutLinked(p) ==
  {q \in Project \ {p} : \E l \in links : owner[l[1]] = p /\ owner[l[2]] = q}

\* The projects at the other end of p's dependencies, whichever end p is.
Linked(p) ==
  {q \in Project \ {p} :
     \E l \in links : {owner[l[1]], owner[l[2]]} = {p, q}}

\* ...one statement looks for a dependency the move would split...
MoveCheck(c) ==
  LET m == call[c] IN
  /\ m.op = "move"
  /\ IF \A q \in Linked(m.project) : client[q] = m.to
     THEN call' = [call EXCEPT ![c] = [m EXCEPT !.op = "moving"]]
     ELSE Answer(c)
  /\ UNCHANGED rowVars

\* ...and the next one moves it.
MoveWrite(c) ==
  LET m == call[c] IN
  /\ m.op = "moving"
  /\ client' = [client EXCEPT ![m.project] = m.to]
  /\ Answer(c)
  /\ UNCHANGED <<default, autonomy, trail, owner, links>>

-----------------------------------------------------------------------------
\* createTask: the project's row is read, and with it the client every
\* dependency is compared with; the task's row waits for the commit.
CreateRead(c, t, p, deps) ==
  /\ call[c] = Idle /\ Exists(p)
  /\ owner[t] = NoProject
  /\ \A d \in Call : call[d].op = "create" => call[d].task # t
  /\ t \notin deps
  /\ call' = [call EXCEPT ![c] =
       [op |-> "create", task |-> t, project |-> p, client |-> client[p],
        todo |-> deps, linked |-> {}]]
  /\ UNCHANGED rowVars

\* One INSERT ... SELECT per dependency, in the order of the call.
CreateLink(c, d) ==
  LET n == call[c] IN
  /\ n.op = "create" /\ d \in n.todo
  /\ IF owner[d] # NoProject /\ client[owner[d]] = n.client
     THEN call' = [call EXCEPT ![c] =
            [n EXCEPT !.todo = @ \ {d}, !.linked = @ \cup {d}]]
     ELSE Answer(c)
  /\ UNCHANGED rowVars

CreateCommit(c) ==
  LET n == call[c] IN
  /\ n.op = "create" /\ n.todo = {}
  /\ owner' = [owner EXCEPT ![n.task] = n.project]
  /\ links' = links \cup {<<n.task, d>> : d \in n.linked}
  /\ Answer(c)
  /\ UNCHANGED <<default, client, autonomy, trail>>

ProjNext ==
  \/ \E k \in Client, level \in Level : CreateClient(k, level)
  \/ \E p \in Project, k \in ClientOrNone, asked \in Level \cup {""} :
       CreateProject(p, k, asked)
  \/ \E c \in Call :
       \/ \E p \in Project :
            \/ \E asked \in Level \cup {""} : UpdateRead(c, p, asked)
            \/ \E k \in ClientOrNone : MoveRead(c, p, k)
            \/ \E t \in TaskId, deps \in SUBSET TaskId : CreateRead(c, t, p, deps)
       \/ UpdateWrite(c) \/ MoveCheck(c) \/ MoveWrite(c) \/ CreateCommit(c)
       \/ \E d \in TaskId : CreateLink(c, d)

ProjSpec == ProjInit /\ [][ProjNext]_projVars

-----------------------------------------------------------------------------
(***************************************************************************)
(* Properties.                                                             *)
(***************************************************************************)

\* "A dependency must never link two different clients' work"
\* (AI_SOFTWARE_DEV_EMPIRE.md:474; tasks.go:62, projects.go:171): the refusals
\* of createTask and moveProject together keep every dependency inside one client.
ClientsApart ==
  \A l \in links : client[owner[l[1]]] = client[owner[l[2]]]

\* "Autonomy decides what needs a human ..., so every change is audited with
\* before/after" (projects.go:123): read in order, the rows of a project tell
\* every level it has had, each beginning where the one before it ended and the
\* last one ending in the level in force.  A rename writes the level back too, so
\* it can end a level that somebody else has just set, in a row that names none.
ChangesAudited ==
  \A p \in Project : Exists(p) =>
    /\ \A k \in 2..Len(trail[p]) : trail[p][k].before = trail[p][k - 1].after
    /\ autonomy[p] = trail[p][Len(trail[p])].after

-----------------------------------------------------------------------------
(***************************************************************************)
(* Where the handlers do not meet.                                         *)
(***************************************************************************)

\* No two updates of one project are in progress.
UpdatesApart ==
  \A c, d \in Call :
    /\ call[c].op = "update" /\ call[d].op = "update"
    /\ call[c].project = call[d].project
    => c = d

\* Of the handlers that bring tasks and clients together, one is in progress.
LinkersApart ==
  \A c, d \in Call : {call[c].op, call[d].op} \subseteq {"move", "moving", "create"} => c = d
=============================================================================

SPECIFICATION PartSpec
CONSTANTS
  Task = {t1, t2}
  Worker = {w1, w2}
  NoWorker = NoWorker
  NoTask = NoTask
  Workflow <- MCWorkflow
  MaxTargets = 2
  MaxItems = 3
  Project = {p1, p2}
  Client = {k1}
  TaskId = {s1, s2}
  Level = {"conservative", "high"}
  Conservative = "conservative"
  Call = {c1}
  MaxUpdates = 2
  NoClient = NoClient
  NoProject = NoProject
  Notice = {1, 2}
  Approvals = {1}
  Notifier = {n1, n2}
  BatchLimit = 1
  Day = 2
  MaxBackoff = 2
  MaxFaults = 1
  ProjectScope = {"projects/a", "projects/b"}
  ClientScope = {"clients/x", "clients/y"}
  Stack = {"stacks/go"}
  ClientOf <- MCClientOf
  Key <- MCKey
  Libraries <- MCLibraries
  Dead <- MCDead
  Limit <- MCLimit
  MaxListed = 2
  NoScope = "none"
  AnyScope = "any"
  DocWorker = {d1, d2}
  NoDocWorker = NoDocWorker
  MaxDocAttempts = 2
  MaxDocClaims = 2
  MaxRounds = 1
  MaxDocFaults = 2
INVARIANTS
  ClaimsDisjoint
  FlowTypeOK
  StepsInOrder
  RequestClosed
  ActiveNotStuck
  CurrentIsFirstOpen
  ClientsApart
  NeverLost
  CopiedOnce
  WithinLimit
  NothingSkipped
  NeverAnotherClient
  AnswersLastFeedback
PROPERTIES
  StepsOneByOne
  EveryNoticeEnds
  DocumentRunEnds
CHECK_DEADLOCK FALSE

SPECIFICATION Spec
CONSTANTS
  Task = {1, 2, 3}
  PlanTask = {2, 3}
  PlanDeps <- MCPlanDeps
  Worker = {w1, w2}
  Eligible <- MCEligible
  Commit = {c1, c2}
  Gate = {"merge_protected", "add_dependency"}
  GatedCall <- MCGatedCall
  MaxAttempts = 2
  MaxReviewRounds = 1
  MaxClaims = 3
  MaxApprovals = 2
  NoWorker = NoWorker
  NoCommit = NoCommit
SYMMETRY MCSymmetry
INVARIANTS
  TypeOK
  WaitingIffOpenGate
  OneLiveGate
  MergeStageApproved
  StartedAfterDeps
  HolderIffInFlight
  RequestAgrees
PROPERTIES
  DecisionsAreFinal
  ImplementsHumanGate
CHECK_DEADLOCK FALSE

SPECIFICATION RunSpec
CONSTANTS
  Task = {1, 2}
  PlanTask = {}
  PlanDeps <- MCPlanDeps
  Worker = {w1}
  Eligible <- MCEligible
  Commit = {1, 2}
  Gate = {"merge_protected"}
  GatedCall <- MCGatedCall
  MaxAttempts = 2
  MaxReviewRounds = 0
  MaxClaims = 3
  MaxApprovals = 2
  NoWorker = NoWorker
  NoCommit = NoCommit
  NoTask = NoTask
  Reviewed = {}
  Faults = {"crash"}
INVARIANTS
  MergeShaIsOwn
CHECK_DEADLOCK FALSE

SPECIFICATION FairSpec
CONSTANTS
  Task = {1}
  PlanTask = {}
  PlanDeps <- MCPlanDeps
  Worker = {w1, w2}
  Eligible <- MCEligible
  Commit = {1, 2}
  Gate = {"merge_protected"}
  GatedCall <- MCGatedCall
  MaxAttempts = 2
  MaxReviewRounds = 0
  MaxClaims = 3
  MaxApprovals = 2
  NoWorker = NoWorker
  NoCommit = NoCommit
  NoTask = NoTask
  Reviewed = {}
  Faults = {"crash", "lateHeartbeat"}
INVARIANTS
  AttemptsLeft
PROPERTIES
  EveryClaimEnds
CHECK_DEADLOCK FALSE

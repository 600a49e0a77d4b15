SPECIFICATION RunSpec
CONSTANTS
  Task = {1, 2}
  PlanTask = {1, 2}
  PlanDeps <- MCPlanDeps
  Worker = {w1, w2}
  Eligible <- MCEligible
  Commit = {1, 2, 3}
  Gate = {"merge_protected"}
  GatedCall <- MCGatedCall
  MaxAttempts = 1
  MaxReviewRounds = 1
  MaxClaims = 2
  MaxApprovals = 2
  NoWorker = NoWorker
  NoCommit = NoCommit
  NoTask = NoTask
  Reviewed = {1}
  Faults = {"crash","lateHeartbeat","lostReply"}
SYMMETRY MCSymmetry
INVARIANTS
  MainOnlyApproved
  MergedOnce
  CheckoutHasDeps
  NeverRefused
  AskedIsPushed
  CompletedIsMerged
CHECK_DEADLOCK FALSE

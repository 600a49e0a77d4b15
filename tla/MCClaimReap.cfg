SPECIFICATION ClaimSpec
CONSTANTS
  Task = {t1, t2}
  Worker = {w1, w2}
  NoWorker = NoWorker
  NoTask = NoTask
SYMMETRY MCSymmetry
INVARIANTS
  OfflineHoldsNothing
CHECK_DEADLOCK FALSE

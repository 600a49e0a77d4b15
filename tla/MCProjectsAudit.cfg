SPECIFICATION ProjSpec
CONSTANTS
  Project = {p1, p2}
  Client = {k1, k2}
  TaskId = {t1, t2}
  Level = {"conservative", "high"}
  Conservative = "conservative"
  Call = {c1, c2}
  MaxUpdates = 3
  NoClient = NoClient
  NoProject = NoProject
SYMMETRY MCProjSymmetry
INVARIANTS
  ChangesAudited
CHECK_DEADLOCK FALSE

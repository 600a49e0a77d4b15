SPECIFICATION DocSpec
CONSTANTS
  Workflow <- MCShort
  MaxTargets = 1
  MaxItems = 1
  Doc = {2, 4}
  TypeOf <- MCTypeOf
  StepType <- MCStepType
  ExtraTypes <- MCExtraTypes
  Upstream <- MCUpstream
  Affects <- MCAffects
  Initially = {}
  Content = {1}
  MaxVersion = 2
  MaxApprovals = 3
  MaxUpsets = 3
INVARIANTS
  ChangesAuthorised
CHECK_DEADLOCK FALSE

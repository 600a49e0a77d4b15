SPECIFICATION DocSpec
CONSTANTS
  Workflow <- MCWorkflow
  MaxTargets = 1
  MaxItems = 1
  Doc = {1, 2, 3, 4, 5}
  TypeOf <- MCTypeOf
  StepType <- MCStepType
  ExtraTypes <- MCExtraTypes
  Upstream <- MCUpstream
  Affects <- MCAffects
  Initially = {1}
  Content = {1, 2}
  MaxVersion = 2
  MaxApprovals = 4
  MaxUpsets = 1
INVARIANTS
  DocTypeOK
  RecordedWasReviewed
  NewVersionsAuthorised
  UpstreamFirst
  WaitingHasRequest
  StepOutputsApproved
CHECK_DEADLOCK FALSE

CONSTANTS
  None = None
  Envs <- E
  Inputs <- AllInputs
  Refs <- AllRefs
  ReceiverName <- Name
  EnvWords <- Words
  NeedsSecret = {"pagerduty://mq", "#mq-oncall", "#eu-mq-oncall"}
  MaxRuns = 2
SPECIFICATION Spec
INVARIANTS
  EndpointsAreSeparate
  AlertReachesItsChannel
  NothingDangles
  ChecksAgree
  SiteJsonSeals
PROPERTIES
  RefusalWritesNothing
  SuccessIsComplete
CHECK_DEADLOCK FALSE

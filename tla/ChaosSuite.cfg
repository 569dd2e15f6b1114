CONSTANTS
  Suite <- MixedSuite
  Signals <- BothSignals
  MaxRuns = 2
SPECIFICATION FairSpec
INVARIANTS
  RecoverFollowsInject
PROPERTIES
  InterruptRepairs
  InjectsIntoCleanLab
  ReturnsCleanLab
  RepairIsHonest
  RepairIsComplete
  Terminates
CHECK_DEADLOCK FALSE

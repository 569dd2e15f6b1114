CONSTANT Scenarios <- MCScenarios
SPECIFICATION FairSpec
INVARIANT PassIsQuiet
PROPERTIES
  DetectionIsCaused
  LedgerTellsTheTruth
  KeepsTheContract
CHECK_DEADLOCK FALSE

CONSTANTS
  Suite <- MixedSuite
  Signals <- OneSignal
  MaxRuns = 1
SPECIFICATION CleanSpec
INVARIANT InterruptLeavesCleanLab
CHECK_DEADLOCK FALSE

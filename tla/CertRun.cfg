CONSTANTS
  Outcomes <- Each
  MaxRuns = 2
SPECIFICATION Spec
INVARIANTS
  ReportMatchesExit
  PassIsEarned
PROPERTIES
  FullReportKept
  BoardShowsCompleteRun
CHECK_DEADLOCK FALSE

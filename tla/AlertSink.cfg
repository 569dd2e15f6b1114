CONSTANTS
  MAX_EVENTS = 2
  Names <- MCNames
  Notifications <- MCNotifications
  Absurd <- MCAbsurdOnes
  Summaries = {"", "FAIL"}
  MaxClock = 2
  MaxLog = 5
  MaxRestarts = 1
SPECIFICATION Spec
PROPERTY KeepsTheLedger

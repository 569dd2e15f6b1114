CONSTANTS
  QM1 = QM1
  QM2 = QM2
  None = None
  Qmgrs = {QM1, QM2}
  Gate = 6
  KeepFiring = 6
  Lookback = 30
  ForDown = 2
  ForUnreachable = 2
  ForUnreachableSingle = 3
  ForExporter = 3
  ForPipeline = 3
  ForSilent = 12
  RestartWindow = 4
SPECIFICATION Spec
INVARIANTS
  ExpectedAlerts
CHECK_DEADLOCK FALSE

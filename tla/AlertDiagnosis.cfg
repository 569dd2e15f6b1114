CONSTANTS
  Qmgrs = {QM1}
  Gate = 6
  KeepFiring = 6
  Lookback = 10
  ForDown = 2
  ForUnreachable = 2
  ForUnreachableSingle = 3
  ForExporter = 3
  ForPipeline = 3
  ForSilent = 12
  RestartWindow = 4
  Reconnect = 3
  Outage = 2
  Retry = 5
  MaxFaults = 2
SPECIFICATION FairSpec
INVARIANTS
  OneDiagnosis
  RestartIsNotAFault
PROPERTIES
  NoSilentResolve
  RestartIsTold
  FaultIsNamed
  AllClear

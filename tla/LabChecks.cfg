CONSTANTS
  Slis = {"canary_success"}
  Records = {"ibmmq:canary_success:ratio_5m"}
  Mentioned <- PackAlerts
  AlertKey <- Keys
  Families = {"ibmmq_qmgr_status", "ibmmq_qmgr_commit_total"}
  Dashboards = {"ibmmq-overview", "ibmmq-runbook"}
  Templated = {"ibmmq-runbook"}
  NoHealth = {"alertmanager"}
  MaxTroubles = 2
SPECIFICATION ChecksSpec
PROPERTIES
  PassIsWitnessed
  FailIsJustified
CHECK_DEADLOCK FALSE

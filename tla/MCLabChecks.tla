----------------------------- MODULE MCLabChecks -----------------------------
(***************************************************************************)
(* LabChecks for TLC: a pack of one SLI, one recording rule, one alert     *)
(* that an experiment and a remediation spell differently, two metric      *)
(* families and two boards, one of them templated.  The Alertmanager       *)
(* datasource has no /health (conformance.mjs:104).                        *)
(***************************************************************************)
EXTENDS LabChecks

PackAlerts == [chaos |-> {"MQCanaryFailing"}, remediation |-> {"alert:mq-canary-failing"}]
Keys == [a \in {"MQCanaryFailing", "alert:mq-canary-failing"} |-> "mqcanaryfailing"]

=============================================================================

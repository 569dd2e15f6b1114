--------------------------- MODULE MCAlertDiagnosis ---------------------------
(***************************************************************************)
(* The instance of AlertDiagnosis for TLC: one queue manager and the lab's *)
(* ranges and delays in scrape steps of 10 s; only the lookback is cut     *)
(* from 30 steps to 10, which is still above every range and every `for`   *)
(* that a property measures it against.                                    *)
(***************************************************************************)
EXTENDS AlertDiagnosis

ASSUME LabWindows == GateCoversRestart /\ LookbackCoversPipeline /\ WindowCoversReconnect
=============================================================================

------------------------------- MODULE MCCertRun -------------------------------
(***************************************************************************)
(* The instance of CertRun that TLC checks.                                *)
(***************************************************************************)
EXTENDS CertRun

(* One outcome for each answer the verdict can get from a suite.           *)
Each == {{"PASS"}, {"PASS", "WARN"}, {"WARN", "FAIL"}, {"PASS", "SKIP"}}

=============================================================================

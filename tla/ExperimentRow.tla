----------------------------- MODULE ExperimentRow -----------------------------
(***************************************************************************)
(* What the loop of harness/checks/chaos.mjs promises of one experiment:   *)
(* which way its row takes from the gate to the grade, what the fault may  *)
(* do to the lab meanwhile, and what a throw on the way does to the grade. *)
(* No alerts, no other experiments, no signal handler, no docker.  Both    *)
(* ChaosSuite, for each of its rows, and Experiment implement it; so what  *)
(* ChaosSuite leaves open as a free grade is what Experiment fills in.     *)
(***************************************************************************)

VARIABLES
  stage,      \* how far the loop is with this experiment; "off" = it does not run
  failed,     \* inject() or recover() threw
  grade,      \* row.status
  broken,     \* the fault is in the lab
  orphaned    \* an injection that nobody waited for landed

row == <<stage, failed, grade, broken, orphaned>>

Underway == {"waiting", "injecting", "measuring", "recovering", "settling"}

Init ==
  /\ stage \in {"off", "waiting"}
  /\ failed = FALSE
  /\ grade = "FAIL"
  /\ broken \in BOOLEAN
  /\ orphaned = FALSE

\* A process starts: a suite, where the row is born FAIL, or --recover.
Launch ==
  /\ stage = "off" /\ stage' \in {"off", "waiting"}
  /\ failed' = FALSE /\ grade' = "FAIL" /\ orphaned' = FALSE
  /\ UNCHANGED broken

\* A pre-flight, a gate or a sink that refuses, or no implementation.
PassOver ==
  /\ stage = "waiting" /\ stage' = "done"
  /\ grade' \in {"FAIL", "SKIP"}
  /\ UNCHANGED <<failed, broken, orphaned>>

Try ==
  /\ stage = "waiting" /\ stage' = "injecting"
  /\ UNCHANGED <<failed, grade, broken, orphaned>>

InjectReturns ==
  /\ stage = "injecting" /\ stage' = "measuring"
  /\ broken => broken'
  /\ UNCHANGED <<failed, grade, orphaned>>

InjectThrows ==
  /\ stage = "injecting" /\ stage' = "recovering"
  /\ failed' = TRUE
  /\ broken => broken'
  /\ UNCHANGED <<grade, orphaned>>

Measured ==
  /\ stage = "measuring" /\ stage' = "recovering"
  /\ UNCHANGED <<failed, grade, broken, orphaned>>

Recovers ==
  /\ stage = "recovering" /\ stage' = "settling"
  /\ ~broken'
  /\ UNCHANGED <<failed, grade, orphaned>>

RecoverThrows ==
  /\ stage = "recovering" /\ stage' = "settling"
  /\ failed' = TRUE
  /\ broken' => broken
  /\ UNCHANGED <<grade, orphaned>>

Grade ==
  /\ stage = "settling" /\ stage' = "done"
  /\ grade' \in IF failed THEN {"FAIL"} ELSE {"FAIL", "WARN", "PASS"}
  /\ failed' = FALSE
  /\ UNCHANGED <<broken, orphaned>>

\* The process ends, or is cut short; a handler may have recovered first.
Leave ==
  /\ stage # "off" /\ stage' = "off"
  /\ failed' = FALSE
  /\ broken' => broken
  /\ UNCHANGED <<grade, orphaned>>

\* The lab beside the row: somebody repairs it; the injection under way takes
\* effect; an orphan of this fault or of another lands.
Elsewhere ==
  /\ \/ ~broken' /\ UNCHANGED orphaned
     \/ stage = "injecting" /\ broken' /\ UNCHANGED orphaned
     \/ (broken => broken') /\ orphaned'
  /\ UNCHANGED <<stage, failed, grade>>

Next ==
  \/ Launch \/ PassOver \/ Try \/ InjectReturns \/ InjectThrows \/ Measured
  \/ Recovers \/ RecoverThrows \/ Grade \/ Leave \/ Elsewhere

Spec == Init /\ [][Next]_row

(* An experiment that is under way comes to its end, or its process does.  *)
Concludes == stage \in Underway ~> stage \in {"done", "off"}

LiveSpec == Spec /\ Concludes

(* What the report is read for: a graded row that did not fail names a     *)
(* fault that is gone.                                                     *)
GradedIsMended ==
  stage = "done" /\ grade \in {"PASS", "WARN"} => ~broken \/ orphaned
=============================================================================

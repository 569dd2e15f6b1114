---------------------------- MODULE AlertRulesTests ----------------------------
(***************************************************************************)
(* The promtool cases the site generator renders                           *)
(* (tools/site/templates/tests.mjs) as inputs of AlertRules: each case     *)
(* feeds its series, one sample of 10 s a period, and names the queue      *)
(* managers for which an alert must be firing at an evaluation.  They tie  *)
(* the rules of the model to what the repository's tests say of the YAML.  *)
(***************************************************************************)
EXTENDS AlertRules, SequencesExt

CONSTANTS QM1, QM2, None
ASSUME QmgrsAssumption == QM1 # QM2 /\ Qmgrs = {QM1, QM2} /\ None \notin {0, 1, 2}

VARIABLES case, t, fed
vars == <<rules, case, t, fed>>

\* promtool's "axn": a and n more samples of it.
At(runs, time) ==
  LET samples == FlattenSeq([i \in DOMAIN runs |-> [j \in 1..(runs[i][2] + 1) |-> runs[i][1]]])
  IN  IF time < Len(samples) THEN samples[time + 1] ELSE None

Nothing == << >>
\* The exporter answers one scrape in five.
Flapping ==
  [qmgr |-> QM1, native |-> <<<<1, 20>>>>,
   up |-> [i \in 1..20 |-> <<IF i % 5 = 0 THEN 1 ELSE 0, 0>>],
   status |-> Nothing, uptime |-> Nothing]
Alive(q) ==
  [qmgr |-> q, native |-> <<<<1, 30>>>>, up |-> Nothing, status |-> <<<<2, 30>>>>, uptime |-> Nothing]
ProcessDies(q) ==
  [Alive(q) EXCEPT !.native = <<<<1, 6>>, <<0, 24>>>>, !.status = <<<<2, 6>>, <<0, 24>>>>]
ListenerFault(q) == [Alive(q) EXCEPT !.status = <<<<2, 6>>, <<0, 24>>>>]
Restart(q) ==
  [Alive(q) EXCEPT !.native = <<<<1, 6>>, <<0, 6>>, <<1, 18>>>>,
                   !.status = <<<<2, 6>>, <<0, 9>>, <<2, 15>>>>]
Blip(q) == [Alive(q) EXCEPT !.status = <<<<2, 6>>, <<0, 2>>, <<2, 22>>>>]
UpOnly(q) == [Alive(q) EXCEPT !.status = Nothing, !.up = <<<<1, 20>>>>]
Young5(q) ==
  [Alive(q) EXCEPT !.status = <<<<2, 5>>>>, !.uptime = [i \in 1..6 |-> <<i, 0>>]]

Expects(rule, time, qmgrs) == [rule |-> rule, time |-> time, qmgrs |-> qmgrs]

Shared == {
  [series |-> {Flapping},
   expect |-> {Expects("ExporterDown", 3, {QM1}), Expects("ExporterDown", 4, {QM1}),
               Expects("ExporterDown", 14, {QM1})}] }
DualCases == {
  [series |-> {Alive(QM1), ProcessDies(QM2)},
   expect |-> {Expects("Unreachable", 18, {}), Expects("Down", 18, {QM2})}],
  [series |-> {ListenerFault(QM1)}, expect |-> {Expects("Unreachable", 10, {QM1})}],
  [series |-> {Restart(QM1)},
   expect |-> {Expects("Unreachable", 15, {}), Expects("Unreachable", 18, {})}],
  [series |-> {}, expect |-> {Expects("PipelineDown", 12, Qmgrs), Expects("Down", 12, {})}],
  [series |-> {Alive(QM1)}, expect |-> {Expects("PipelineDown", 12, {})}] }
SingleCases == {
  [series |-> {ListenerFault(QM1)}, expect |-> {Expects("Unreachable", 10, {QM1})}],
  [series |-> {Blip(QM1)},
   expect |-> {Expects("Unreachable", 10, {}), Expects("Unreachable", 18, {})}],
  [series |-> {}, expect |-> {Expects("PipelineDown", 12, Qmgrs), Expects("Silent", 13, Qmgrs)}],
  [series |-> {UpOnly(QM1)}, expect |-> {Expects("PipelineDown", 12, {})}],
  [series |-> {UpOnly(QM1), UpOnly(QM2)}, expect |-> {Expects("Silent", 13, {})}],
  [series |-> {Young5(QM1)},
   expect |-> {Expects("Restarted", 1, {QM1}), Expects("Restarted", 5, {})}] }
Cases == Shared \cup IF vantage = "dual" THEN DualCases ELSE SingleCases

LastSample == 20

Init ==
  /\ RulesInit
  /\ case \in Cases
  /\ t = 0 /\ fed = FALSE

SeriesOf(q) == {s \in case.series : s.qmgr = q}

NextNative(q) ==
  IF \E s \in SeriesOf(q) : At(s.native, t) # None
  THEN NativeSample(native[q], At((CHOOSE s \in SeriesOf(q) : TRUE).native, t))
  ELSE native[q]

NextClient(q) ==
  IF \E s \in SeriesOf(q) : At(s.up, t) # None \/ At(s.status, t) # None
  THEN LET s == CHOOSE s \in SeriesOf(q) : TRUE IN
       ClientSample(At(s.up, t) # 0,
                    IF At(s.status, t) = None THEN 2 ELSE At(s.status, t),
                    IF At(s.uptime, t) = None THEN NoUptime ELSE At(s.uptime, t))
  ELSE client[q]

Feed ==
  /\ ~fed /\ t <= LastSample
  /\ native' = [q \in Qmgrs |-> NextNative(q)]
  /\ client' = [q \in Qmgrs |-> NextClient(q)]
  /\ fed' = TRUE
  /\ UNCHANGED <<vantage, alert, case, t>>

EvaluateCase ==
  /\ fed
  /\ Evaluate
  /\ fed' = FALSE /\ t' = t + 1
  /\ UNCHANGED case

Next == Feed \/ EvaluateCase
Spec == Init /\ [][Next]_vars
-----------------------------------------------------------------------------
\* Every case of the generated test file holds of the rules: exactly the
\* expected alerts are firing after the evaluation at its eval_time.
ExpectedAlerts ==
  \A e \in case.expect :
    t = e.time + 1 /\ ~fed => {q \in Qmgrs : Firing(e.rule, q)} = e.qmgrs
=============================================================================

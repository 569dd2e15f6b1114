------------------------------ MODULE AlertRules ------------------------------
(***************************************************************************)
(* The differential alert rules of ibmmq.alerts.yml and                    *)
(* ibmmq.inventory.yml (tools/site/templates/alerts.mjs,                   *)
(* inventory-rules.mjs), evaluated as Prometheus evaluates them: instant   *)
(* selectors with the five-minute lookback, range selectors, `for` and     *)
(* keep_firing_for.  One period is a scrape step, which is also the        *)
(* evaluation interval; durations are counted in periods, and a sample is  *)
(* kept as its age, which is all the rules can tell.                       *)
(***************************************************************************)
EXTENDS Integers

CONSTANTS
  Qmgrs,      \* queue managers of the environment
  Gate,       \* timing.gate, the range of the native gate
  KeepFiring, \* timing.keepFiring
  Lookback,   \* how long an instant selector sees a sample (5 m)
  ForDown, ForUnreachable, ForUnreachableSingle, ForExporter, ForPipeline, ForSilent,
  RestartWindow  \* IBMMQQueueManagerRestarted: uptime below four scrapes

ASSUME WindowAssumption ==
  /\ Gate \in Nat \ {0} /\ Lookback \in Nat /\ Gate <= Lookback
  /\ KeepFiring \in Nat /\ RestartWindow \in Nat
  /\ {ForDown, ForUnreachable, ForUnreachableSingle, ForExporter, ForPipeline, ForSilent} \subseteq Nat

VARIABLES
  vantage, \* what the site renders: "dual", native and client exporters, or
           \* "single", client only; it never changes
  native,  \* up{job="ibmmq-native"} of each queue manager
  client,  \* the last scrape of its client exporter
  alert    \* per rule and queue manager: evaluations it held, and was kept

rules == <<vantage, native, client, alert>>

Rules ==
  IF vantage = "dual" THEN {"Down", "Unreachable", "ExporterDown", "PipelineDown"}
  ELSE {"Unreachable", "ExporterDown", "PipelineDown", "Restarted", "Silent"}

For(rule) ==
  CASE rule = "Down" -> ForDown
    [] rule = "Unreachable" -> IF vantage = "dual" THEN ForUnreachable ELSE ForUnreachableSingle
    [] rule = "ExporterDown" -> ForExporter
    [] rule = "PipelineDown" -> ForPipeline
    [] rule = "Silent" -> ForSilent
    [] OTHER -> 0
BugKeep(rule) == 0
Keep(rule) == IF rule = "ExporterDown" THEN KeepFiring ELSE 0

Older(age, cap) == IF age < cap THEN age + 1 ELSE cap

NoNative == [val |-> 1, last |-> Lookback, zero |-> Gate]
NoUptime == RestartWindow    \* no uptime series: the comparison selects nothing
NoClient == [answered |-> TRUE, status |-> 2, uptime |-> NoUptime, last |-> Lookback]

\* One scrape as the collector remote-writes it.  A scrape that is not
\* answered writes up = 0 and marks the exporter's own series stale.
NativeSample(series, up) ==
  [val |-> up, last |-> 0, zero |-> IF up = 0 THEN 0 ELSE series.zero]
ClientSample(answered, status, uptime) ==
  [answered |-> answered, status |-> status, uptime |-> uptime, last |-> 0]

Seen(series) == series.last < Lookback
Reports(q) == Seen(client[q]) /\ client[q].answered

\* min_over_time(up{job="ibmmq-native"}[gate]) == 1, joined on (qmgr)
BugNativeGate(q) == native[q].last < Gate
NativeGate(q) == native[q].last < Gate /\ native[q].zero >= Gate

\* absent_over_time(up{job=...}[gate])
BugAbsent == \A q \in Qmgrs : ~Seen(native[q])
Absent ==
  \A q \in Qmgrs : (IF vantage = "dual" THEN native[q].last ELSE client[q].last) >= Gate

BugYoung(q) == client[q].uptime < RestartWindow - 2
Young(q) == client[q].uptime < RestartWindow

\* ibmmq:inventory:qmgr unless on (qmgr) up{job="ibmmq-exporter"}
Silent(q) == ~Seen(client[q])

BugExpr(rule, q) ==
  \/ rule = "Down" /\ Seen(native[q]) /\ native[q].val = 0
  \/ rule = "Unreachable" /\ Reports(q) /\ client[q].status # 2
  \/ rule = "ExporterDown" /\ Seen(client[q]) /\ ~client[q].answered
  \/ rule = "PipelineDown" /\ Absent
Expr(rule, q) ==
  \/ /\ rule = "Down"
     /\ Seen(native[q]) /\ native[q].val = 0
  \/ /\ rule = "Unreachable"
     /\ Reports(q) /\ client[q].status # 2
     /\ vantage = "dual" => NativeGate(q)
  \/ /\ rule = "ExporterDown"
     /\ Seen(client[q]) /\ ~client[q].answered
  \/ /\ rule = "PipelineDown"
     /\ Absent
  \/ /\ rule = "Restarted"
     /\ Reports(q) /\ Young(q)
  \/ /\ rule = "Silent"
     /\ Silent(q)

Inactive == [run |-> 0, quiet |-> 0]
Firing(rule, q) == rule \in Rules /\ alert[rule][q].run > For(rule)

\* One alert at one evaluation: it fires once its expression has held for
\* `for`, and keep_firing_for bridges evaluations at which it does not hold.
BugAdvance(rule, q) ==
  LET a == alert[rule][q] IN
  IF Expr(rule, q) THEN [run |-> Older(a.run, For(rule) + 1), quiet |-> 0]
  ELSE IF Firing(rule, q) /\ Keep(rule) > 0 THEN a
  ELSE Inactive
Advance(rule, q) ==
  LET a == alert[rule][q] IN
  IF Expr(rule, q) THEN [run |-> Older(a.run, For(rule) + 1), quiet |-> 0]
  ELSE IF Firing(rule, q) /\ a.quiet < Keep(rule) THEN [a EXCEPT !.quiet = @ + 1]
  ELSE Inactive

\* The rule group is evaluated, and the period ends.
Evaluate ==
  /\ alert' = [rule \in Rules |-> [q \in Qmgrs |-> Advance(rule, q)]]
  /\ native' = [q \in Qmgrs |-> [native[q] EXCEPT !.last = Older(@, Lookback),
                                                   !.zero = Older(@, Gate)]]
  /\ client' = [q \in Qmgrs |-> [client[q] EXCEPT !.last = Older(@, Lookback)]]
  /\ UNCHANGED vantage

RulesInit ==
  /\ vantage \in {"dual", "single"}
  /\ native = [q \in Qmgrs |-> NoNative]
  /\ client = [q \in Qmgrs |-> NoClient]
  /\ alert = [rule \in Rules |-> [q \in Qmgrs |-> Inactive]]

RulesTypeOK ==
  /\ vantage \in {"dual", "single"}
  /\ native \in [Qmgrs -> [val : {0, 1}, last : 0..Lookback, zero : 0..Gate]]
  /\ client \in [Qmgrs -> [answered : BOOLEAN, status : {0, 2},
                           uptime : Nat, last : 0..Lookback]]
  /\ alert \in [Rules -> [Qmgrs -> [run : Nat, quiet : 0..KeepFiring]]]
  /\ \A rule \in Rules, q \in Qmgrs : alert[rule][q].run <= For(rule) + 1

Resolves(rule, q) == Firing(rule, q) /\ ~Firing(rule, q)'
=============================================================================

------------------------------ MODULE LabChecks ------------------------------
(***************************************************************************)
(* The read-only suites of the certification: harness/checks/              *)
(* conformance.mjs (C1..C10) and synthetic.mjs (S1..S6).  Each row is the  *)
(* verdict on several answers, asked one after another over HTTP           *)
(* (lib/http.mjs) of services that come and go meanwhile, about data that  *)
(* comes, goes and gets worse.  A query that cannot be answered is an      *)
(* empty answer, never an exception.                                       *)
(*                                                                         *)
(* What a query is about is an item: its answer is "good", "poor" (there   *)
(* are data and they are over a limit, unhealthy, firing) or "none".       *)
(***************************************************************************)
EXTENDS Integers, SequencesExt

CONSTANTS
  Slis, Records,              \* SLIs and recording rules of the pack
  Mentioned,                  \* alerts its experiments, remediations and policy name
  AlertKey,                   \* how a name is compared: no prefix, dashes or case
  Families,                   \* the metric families of C6
  Dashboards, Templated,      \* boards of the pack, and those without a source file
  NoHealth,                   \* datasources whose plugin has no /health
  MaxTroubles                 \* bound on what goes wrong, before and during the run

Components ==
  {"prometheus", "alertmanager", "alert-sink", "loki", "tempo", "grafana", "otel-collector"}
Backend ==
  [prom |-> "prometheus", loki |-> "loki", tempo |-> "tempo", alertmanager |-> "alertmanager"]

ASSUME PackAssumption ==
  /\ Templated \subseteq Dashboards
  /\ \A from \in DOMAIN Mentioned : Mentioned[from] \subseteq DOMAIN AlertKey
  /\ NoHealth \subseteq DOMAIN Backend
  /\ MaxTroubles \in Nat
  /\ IsFiniteSet(Slis) /\ IsFiniteSet(Records) /\ IsFiniteSet(Families) /\ IsFiniteSet(Dashboards)

\* Two spellings of one alert are one reference.
Referenced == {AlertKey[a] : a \in UNION {Mentioned[from] : from \in DOMAIN Mentioned}}

Of(kind, names) == {<<kind, n>> : n \in names}
Services == Of("service", Components)
Metrics == {"native", "exporter", "sent", "failed", "attempts", "success", "p99",
            "produced", "consumed", "put errors", "headroom", "age"}
Firing == Of("firing", {"symptom", "fast", "slow", "forecast"})
RulesApi == Of("rule", Records) \cup Of("alert", Referenced)

\* Data that may be missing although their service answers, and data that
\* may be there and bad.
Data ==
  Of("metric", Metrics \ {"put errors", "failed"}) \cup Of("sli", Slis) \cup Of("series", Records)
    \cup RulesApi \cup Of("family", Families) \cup Of("board", Dashboards \ Templated)
    \cup Of("datasource", DOMAIN Backend) \cup Of("log", {"ibmmq", "apps"})
    \cup Of("trace", {"services", "spans", "links"})
Values ==
  Firing \cup Of("metric", Metrics \ {"sent"}) \cup Of("alert", Referenced) \cup Of("trace", {"links"})
Items == Services \cup Data \cup Values

VARIABLES
  missing, poor,   \* items that are down or without data, and items over their limit
  troubles,        \* how many went wrong so far
  block, todo,     \* position in Blocks, and the queries it still sends
  ans,             \* answers of this block so far
  rows,            \* the verdicts of the block just judged
  held, lapsed     \* history: items good, not good, at some moment of this block

world == <<missing, poor, troubles>>
ChecksVars == <<world, block, todo, ans, rows, held, lapsed>>
-----------------------------------------------------------------------------
\* What an answer rests on besides the item itself.
Needs(x) ==
  CASE x[1] = "service" -> {}
    [] x[1] = "board" -> {"grafana"}
    [] x[1] \in {"datasource", "health"} -> {"grafana", Backend[x[2]]}
    [] x[1] = "log" -> {"loki"}
    [] x[1] = "trace" -> {"tempo"}
    [] OTHER -> {"prometheus"}

\* /health of a datasource whose plugin does not implement it answers 500.
Look(x) ==
  IF x \in missing \/ Of("service", Needs(x)) \cap missing # {} THEN "none"
  ELSE IF x[1] = "health" THEN
         IF x[2] \in NoHealth \/ <<"datasource", x[2]>> \in missing THEN "none" ELSE "good"
  ELSE IF x \in poor THEN "poor" ELSE "good"

Good == {x \in Items : Look(x) = "good"}
Bad == Items \ Good

\* The queries of a block in the order they are sent; each reads its items at
\* one moment.  C5 is judged from the rules C4 read, S1..S3 and S5..S6 from
\* queries sent before the first of them is judged; C1 pings in parallel.
Each(kind, order) == [i \in DOMAIN order |-> {<<kind, order[i]>>}]
Blocks == <<
  [rows |-> {"C1"}, asks |-> << >>],
  [rows |-> {"C2"}, asks |-> Each("metric", <<"native", "exporter">>)],
  [rows |-> {"C3"}, asks |-> Each("sli", SetToSeq(Slis))],
  [rows |-> {"C4", "C5"}, asks |-> << RulesApi >>],
  [rows |-> {"C6"}, asks |-> Each("family", SetToSeq(Families))],
  [rows |-> {"C7"}, asks |-> Each("board", SetToSeq(Dashboards \ Templated))
                               \o Each("health", <<"prom", "loki", "tempo", "alertmanager">>)],
  [rows |-> {"C8"}, asks |-> Each("log", <<"ibmmq", "apps">>)],
  [rows |-> {"C9"}, asks |-> Each("trace", <<"services", "spans">>)],
  [rows |-> {"C10"}, asks |-> Each("metric", <<"failed", "sent">>)],
  [rows |-> {"S1", "S2", "S3"}, asks |-> Each("metric", <<"attempts", "success", "p99">>)],
  [rows |-> {"S4"},
   asks |-> Each("metric", <<"produced", "consumed", "put errors", "headroom", "age">>)],
  [rows |-> {"S5", "S6"}, asks |-> << Firing >>] >>
Running == block <= Len(Blocks)

\* What the rows are about.
Subject(r) ==
  CASE r = "C1" -> Services
    [] r = "C2" -> Of("metric", {"native", "exporter"})
    [] r = "C3" -> Of("sli", Slis)
    [] r = "C4" -> Of("rule", Records) \cup Of("series", Records)
    [] r = "C5" -> Of("alert", Referenced)
    [] r = "C6" -> Of("family", Families)
    [] r = "C7" -> Of("board", Dashboards \ Templated) \cup Of("datasource", DOMAIN Backend)
    [] r = "C8" -> Of("log", {"ibmmq", "apps"})
    [] r = "C9" -> Of("trace", {"services", "spans", "links"})
    [] r = "C10" -> Of("metric", {"sent", "failed"})
    [] r \in {"S1", "S2", "S3"} ->
         Of("metric", {CASE r = "S1" -> "attempts" [] r = "S2" -> "success" [] OTHER -> "p99"})
    [] r = "S4" -> Of("metric", {"produced", "consumed", "put errors", "headroom", "age"})
    [] OTHER -> Firing

\* Data change around the blocks that read them; elsewhere nobody looks.
Concerned ==
  Services \cup UNION {UNION {Subject(r) : r \in Blocks[b].rows} :
                         b \in DOMAIN Blocks \cap {block, block + 1}}

ChecksInit ==
  /\ missing \in {{}} \cup {{s} : s \in Services} /\ poor = {}
  /\ troubles = Cardinality(missing) /\ troubles <= MaxTroubles
  /\ block = 1 /\ todo = << >>
  /\ ans = << >>
  /\ rows = << >>
  /\ held = Good /\ lapsed = Bad
-----------------------------------------------------------------------------
\* Around the harness.
Witness == held' = held \cup Good' /\ lapsed' = lapsed \cup Bad'

Vanish(x) ==
  /\ Running /\ x \in Concerned /\ troubles < MaxTroubles
  /\ x \notin missing
  /\ missing' = missing \cup {x} /\ troubles' = troubles + 1
  /\ UNCHANGED <<poor, block, todo, ans, rows>>
  /\ Witness

Worsen(x) ==
  /\ Running /\ x \in Concerned /\ troubles < MaxTroubles
  /\ x \notin poor
  /\ poor' = poor \cup {x} /\ troubles' = troubles + 1
  /\ UNCHANGED <<missing, block, todo, ans, rows>>
  /\ Witness

Mend(x) ==
  /\ Running /\ x \in Concerned
  /\ x \in missing \cup poor
  /\ missing' = missing \ {x} /\ poor' = poor \ {x}
  /\ UNCHANGED <<troubles, block, todo, ans, rows>>
  /\ Witness
-----------------------------------------------------------------------------
Note(items) ==
  [x \in items \cup DOMAIN ans |-> IF x \in items THEN Look(x) ELSE ans[x]]

\* C1 waits for every component, all in parallel, for up to six minutes: a
\* wait ends with a ping that is answered, or with one that is not when the
\* time is up.
Ping(s) ==
  /\ block = 1
  /\ s \notin DOMAIN ans
  /\ ans' = Note({s})
  /\ UNCHANGED <<world, block, todo, rows, held, lapsed>>

\* Some queries depend on the answer to the one before: only a rule that is
\* loaded is queried, a datasource that is not healthy is asked through the
\* proxy, and the spans of the traces that were found are fetched.
BugFollowUps(query, seen) ==
  LET loaded == {r \in Records : <<"rule", r>> \in query /\ seen[<<"rule", r>>] # "none"} IN
  IF loaded # {} THEN Each("series", SetToSeq(loaded))
  ELSE IF <<"trace", "spans">> \in query /\ seen[<<"trace", "spans">>] = "good"
       THEN << {<<"trace", "links">>} >>
  ELSE << >>
FollowUps(query, seen) ==
  LET loaded == {r \in Records : <<"rule", r>> \in query /\ seen[<<"rule", r>>] # "none"}
      unsure == {d \in DOMAIN Backend : <<"health", d>> \in query /\ seen[<<"health", d>>] # "good"}
  IN IF loaded # {} THEN Each("series", SetToSeq(loaded))
     ELSE IF unsure # {} THEN Each("datasource", SetToSeq(unsure))
     ELSE IF <<"trace", "spans">> \in query /\ seen[<<"trace", "spans">>] = "good"
          THEN << {<<"trace", "links">>} >>
     ELSE << >>

Ask ==
  /\ todo # << >>
  /\ LET seen == [x \in Head(todo) |-> Look(x)] IN
       /\ ans' = Note(Head(todo))
       /\ todo' = FollowUps(Head(todo), seen) \o Tail(todo)
  /\ UNCHANGED <<world, block, rows, held, lapsed>>

Answer(x) == IF x \in DOMAIN ans THEN ans[x] ELSE "none"
Metric(m) == Answer(<<"metric", m>>)
AllGood(items) == \A x \in items : Answer(x) = "good"
Status(fails, warns) == IF fails THEN "FAIL" ELSE IF warns THEN "WARN" ELSE "PASS"
-----------------------------------------------------------------------------
\* The rules of the rows.
BugRecordsOk == \A r \in Records : Answer(<<"rule", r>>) # "none"
RecordsOk == \A r \in Records : Answer(<<"rule", r>>) # "none" /\ Answer(<<"series", r>>) = "good"

DatasourceOk(d) == Answer(<<"health", d>>) = "good" \/ Answer(<<"datasource", d>>) = "good"

Flowing == Metric("produced") = "good" /\ Metric("consumed") = "good"
BackedUp == Metric("headroom") = "poor" \/ Metric("age") = "poor"

Logs == {s \in {"ibmmq", "apps"} : Answer(<<"log", s>>) = "good"}

\* The firing alerts of a query that failed are none.
Fires(k) == Answer(<<"firing", k>>) = "poor"

Verdict(r) ==
  CASE r = "C1" -> Status(~AllGood(Services), FALSE)
    [] r = "C2" -> Status(~AllGood(Of("metric", {"native", "exporter"})), FALSE)
    [] r = "C3" -> Status(~AllGood(Of("sli", Slis)), FALSE)
    [] r = "C4" -> Status(~RecordsOk, FALSE)
    [] r = "C5" -> Status(~AllGood(Of("alert", Referenced)), FALSE)
    [] r = "C6" -> Status(~AllGood(Of("family", Families)), FALSE)
    [] r = "C7" -> Status(~AllGood(Of("board", Dashboards \ Templated))
                            \/ \E d \in DOMAIN Backend : ~DatasourceOk(d), FALSE)
    [] r = "C8" -> Status(Logs = {}, Cardinality(Logs) = 1)
    [] r = "C9" -> Status(Answer(<<"trace", "services">>) # "good",
                          Answer(<<"trace", "links">>) # "good")
    [] r = "C10" -> Status(FALSE, Metric("sent") # "good" \/ Metric("failed") = "poor")
    [] r = "S1" -> Status(Metric("attempts") # "good", FALSE)
    [] r = "S2" -> Status(Metric("success") # "good", FALSE)
    [] r = "S3" -> Status(Metric("p99") = "poor", Metric("p99") = "none")
    [] r = "S4" -> Status(~Flowing \/ BackedUp, Metric("put errors") = "poor")
    [] r = "S5" -> Status(Fires("symptom"), FALSE)
    [] r = "S6" -> Status(Fires("fast"), Fires("slow") \/ Fires("forecast"))

Conclude ==
  /\ Running
  /\ todo = << >>
  /\ block = 1 => Services \subseteq DOMAIN ans
  /\ rows' = [r \in Blocks[block].rows |-> Verdict(r)]
  /\ block' = block + 1
  /\ todo' = IF block < Len(Blocks) THEN Blocks[block + 1].asks ELSE << >>
  /\ ans' = << >>
  /\ held' = Good /\ lapsed' = Bad
  /\ UNCHANGED world

ChecksNext ==
  \/ \E x \in Services \cup Data : Vanish(x)
  \/ \E x \in Values : Worsen(x)
  \/ \E x \in Items : Mend(x)
  \/ \E s \in Services : Ping(s)
  \/ Ask \/ Conclude

ChecksSpec == ChecksInit /\ [][ChecksNext]_ChecksVars
-----------------------------------------------------------------------------
\* Rows that take an unanswered query for good news do so about these.
Silent == Firing \cup Of("metric", {"failed", "put errors", "headroom", "age"})

\* A PASS is earned: everything the row is about was there and good at some
\* moment between the row's first query and its verdict, whatever came and
\* went meanwhile - except what a failed query reports as absent trouble.
PassIsWitnessed ==
  [][Conclude => \A r \in Blocks[block].rows :
       rows'[r] = "PASS" => Subject(r) \ Silent \subseteq held]_ChecksVars

\* A FAIL is deserved: something this very row is about was not good at some
\* moment between the row's first query and its verdict, so a lab that stays
\* healthy is never failed and trouble elsewhere is not blamed here.
FailIsJustified ==
  [][Conclude => \A r \in Blocks[block].rows :
       rows'[r] = "FAIL" => Subject(r) \cap lapsed # {}]_ChecksVars
=============================================================================

---------------------------- MODULE AlertDiagnosis ----------------------------
(***************************************************************************)
(* The alert rules over a lab that fails: the queue-manager process and    *)
(* its native endpoint, the listener and channels the client exporter      *)
(* connects through, the exporter process (mq_prometheus with keepRunning) *)
(* and the collector that scrapes both jobs and remote-writes the samples. *)
(* The two jobs are scraped at different phases of the period, and faults  *)
(* fall between them.                                                      *)
(***************************************************************************)
EXTENDS AlertRules

CONSTANTS
  Reconnect, \* periods the exporter may need to reconnect once it could
  Outage,    \* periods a stopped queue manager stays down at the least
  Retry,     \* an exporter without queue manager answers one scrape in Retry
  MaxFaults  \* bound on the faults of a behaviour

ASSUME EnvironmentAssumption ==
  /\ Reconnect \in Nat /\ Outage \in Nat /\ Retry \in Nat /\ Retry >= 2 /\ MaxFaults \in Nat

VARIABLES
  process,   \* the queue manager runs
  listener,  \* clients can connect to it (listener, SVRCONN, CHLAUTH, CONNAUTH)
  exporter,  \* mq_prometheus runs
  linked,    \* it is connected to the queue manager
  slack,     \* periods it may still need to connect
  mute,      \* unanswered scrapes since its last answer
  since,     \* periods since the process started or stopped
  stopped,   \* history: the process stopped under a running exporter, and
             \* no sample was connected since
  back,      \* history: the last sample was the first one after such a stop
  excused,   \* history: its listener broke, or the collector stopped
  collector, \* the collector runs
  todo,      \* scrape jobs still due in this period
  nativeFirst, faults

lab == <<process, listener, exporter, linked, slack, mute, since>>
history == <<stopped, back, excused>>
clock == <<todo, nativeFirst>>
vars == <<rules, lab, history, collector, clock, faults>>

Jobs == IF vantage = "dual" THEN {"native", "client"} ELSE {"client"}
SinceCap == IF Gate > RestartWindow THEN Gate ELSE RestartWindow

TypeOK ==
  /\ RulesTypeOK
  /\ process \in [Qmgrs -> BOOLEAN]
  /\ listener \in [Qmgrs -> BOOLEAN]
  /\ exporter \in [Qmgrs -> BOOLEAN]
  /\ linked \in [Qmgrs -> BOOLEAN]
  /\ slack \in [Qmgrs -> 0..Reconnect]
  /\ mute \in [Qmgrs -> 0..Retry - 1]
  /\ since \in [Qmgrs -> 0..SinceCap]
  /\ stopped \in [Qmgrs -> BOOLEAN]
  /\ back \in [Qmgrs -> BOOLEAN]
  /\ excused \subseteq Qmgrs
  /\ collector \in BOOLEAN
  /\ todo \subseteq Jobs
  /\ nativeFirst \in BOOLEAN
  /\ faults \in 0..MaxFaults
  /\ \A q \in Qmgrs : linked[q] => process[q] /\ listener[q] /\ exporter[q]

All(value) == [q \in Qmgrs |-> value]

Init ==
  /\ RulesInit
  /\ process = All(TRUE) /\ listener = All(TRUE) /\ exporter = All(TRUE) /\ linked = All(TRUE)
  /\ slack = All(0) /\ mute = All(1) /\ since = All(SinceCap)
  /\ stopped = All(FALSE) /\ back = All(FALSE) /\ excused = {}
  /\ collector = TRUE
  /\ todo = Jobs /\ nativeFirst \in BOOLEAN
  /\ faults = 0

Connectable(q) == process[q] /\ listener[q] /\ exporter[q]
Healthy(q) == Connectable(q) /\ collector

Fault == faults < MaxFaults /\ faults' = faults + 1

StopQmgr(q) ==
  /\ Fault /\ process[q]
  /\ process' = [process EXCEPT ![q] = FALSE]
  /\ linked' = [linked EXCEPT ![q] = FALSE]
  /\ since' = [since EXCEPT ![q] = 0]
  /\ stopped' = [stopped EXCEPT ![q] = exporter[q]]
  /\ UNCHANGED <<rules, listener, exporter, slack, mute, back, excused, collector, clock>>

StartQmgr(q) ==
  /\ ~process[q] /\ since[q] >= Outage
  /\ process' = [process EXCEPT ![q] = TRUE]
  /\ slack' = [slack EXCEPT ![q] = Reconnect]
  /\ since' = [since EXCEPT ![q] = 0]
  /\ UNCHANGED <<rules, listener, exporter, linked, mute, history, collector, clock, faults>>

BreakListener(q) ==
  /\ Fault /\ listener[q]
  /\ listener' = [listener EXCEPT ![q] = FALSE]
  /\ linked' = [linked EXCEPT ![q] = FALSE]
  /\ excused' = excused \cup {q}
  /\ UNCHANGED <<rules, process, exporter, slack, mute, since, stopped, back, collector, clock>>

FixListener(q) ==
  /\ ~listener[q]
  /\ listener' = [listener EXCEPT ![q] = TRUE]
  /\ slack' = [slack EXCEPT ![q] = Reconnect]
  /\ UNCHANGED <<rules, process, exporter, linked, mute, since, history, collector, clock, faults>>

StopExporter(q) ==
  /\ Fault /\ exporter[q]
  /\ exporter' = [exporter EXCEPT ![q] = FALSE]
  /\ linked' = [linked EXCEPT ![q] = FALSE]
  /\ stopped' = [stopped EXCEPT ![q] = FALSE]
  /\ UNCHANGED <<rules, process, listener, slack, mute, since, back, excused, collector, clock>>

\* It connects before it serves a scrape, when it can.
StartExporter(q) ==
  /\ ~exporter[q]
  /\ exporter' = [exporter EXCEPT ![q] = TRUE]
  /\ linked' = [linked EXCEPT ![q] = process[q] /\ listener[q]]
  /\ UNCHANGED <<rules, process, listener, slack, mute, since, history, collector, clock, faults>>

\* keepRunning: the exporter retries until the queue manager takes it.
Reconnects(q) ==
  /\ Connectable(q) /\ ~linked[q]
  /\ linked' = [linked EXCEPT ![q] = TRUE]
  /\ UNCHANGED <<rules, process, listener, exporter, slack, mute, since, history, collector, clock, faults>>

StopCollector ==
  /\ Fault /\ collector
  /\ collector' = FALSE
  /\ excused' = Qmgrs
  /\ UNCHANGED <<rules, lab, stopped, back, clock>>

StartCollector ==
  /\ ~collector
  /\ collector' = TRUE
  /\ UNCHANGED <<rules, lab, history, clock, faults>>

ScrapeNative ==
  /\ "native" \in todo
  /\ nativeFirst \/ "client" \notin todo
  /\ todo' = todo \ {"native"}
  /\ native' = IF collector
               THEN [q \in Qmgrs |-> NativeSample(native[q], IF process[q] THEN 1 ELSE 0)]
               ELSE native
  /\ UNCHANGED <<vantage, client, alert, lab, history, collector, nativeFirst, faults>>

\* What an exporter may do with a scrape: without its queue manager it is
\* busy retrying and answers now and then, never twice in a row.
MayAnswer(q) ==
  IF ~exporter[q] THEN {FALSE}
  ELSE IF process[q] THEN {TRUE}
  ELSE IF mute[q] = 0 THEN {FALSE}
  ELSE IF mute[q] = Retry - 1 THEN {TRUE}
  ELSE BOOLEAN

\* What it knows of the queue manager's uptime: nothing without a connection.
Uptime(q) == IF linked[q] THEN since[q] ELSE NoUptime

ScrapeClient ==
  /\ "client" \in todo
  /\ ~nativeFirst \/ "native" \notin todo
  /\ \A q \in Qmgrs : Connectable(q) /\ ~linked[q] => slack[q] > 0
  /\ todo' = todo \ {"client"}
  /\ \/ /\ collector
        /\ \E answers \in [Qmgrs -> BOOLEAN] :
             /\ \A q \in Qmgrs : answers[q] \in MayAnswer(q)
             /\ client' = [q \in Qmgrs |->
                  ClientSample(answers[q], IF linked[q] THEN 2 ELSE 0, Uptime(q))]
             /\ mute' = [q \in Qmgrs |->
                  IF process[q] THEN 1 ELSE IF answers[q] THEN 0 ELSE Older(mute[q], Retry - 1)]
        /\ back' = [q \in Qmgrs |-> linked[q] /\ stopped[q]]
        /\ stopped' = [q \in Qmgrs |-> stopped[q] /\ ~linked[q]]
     \/ /\ ~collector
        /\ UNCHANGED <<client, mute, stopped, back>>
  /\ UNCHANGED <<vantage, excused, native, alert, process, listener, exporter, linked, slack, since,
                 collector, nativeFirst, faults>>

EvaluateRules ==
  /\ todo = {}
  /\ Evaluate
  /\ todo' = Jobs
  /\ slack' = [q \in Qmgrs |-> IF Connectable(q) /\ slack[q] > 0 THEN slack[q] - 1 ELSE slack[q]]
  /\ since' = [q \in Qmgrs |-> Older(since[q], SinceCap)]
  /\ UNCHANGED <<process, listener, exporter, linked, mute, history, collector, nativeFirst, faults>>

Monitor == ScrapeNative \/ ScrapeClient \/ EvaluateRules

Next ==
  \/ Monitor
  \/ \E q \in Qmgrs :
       \/ StopQmgr(q) \/ StartQmgr(q)
       \/ BreakListener(q) \/ FixListener(q)
       \/ StopExporter(q) \/ StartExporter(q)
       \/ Reconnects(q)
  \/ StopCollector \/ StartCollector

Spec == Init /\ [][Next]_vars

\* The collector's scrape loop and the rule evaluation are timers; the
\* exporter keeps retrying.  Faults and their repairs are not fair.
FairSpec ==
  /\ Spec
  /\ WF_vars(Monitor)
  /\ \A q \in Qmgrs : WF_vars(Reconnects(q))
-----------------------------------------------------------------------------
\* The diagnosis is differential: at no evaluation is a queue manager found
\* stopped and running-but-unreachable at once, however old the two samples
\* are (alerts.mjs, `on (qmgr)` and the gate), so neither alert is ever
\* pending or firing while the other is.
OneDiagnosis ==
  vantage = "dual" =>
    \A q \in Qmgrs : ~(alert["Down"][q].run > 0 /\ alert["Unreachable"][q].run > 0)

\* What the windows are for: the gate outlasts the exporter's reconnect
\* after a restart, which itself is longer than a scrape (alerts.mjs:82-85).
GateCoversRestart == Gate > Reconnect /\ Gate > 1 /\ Outage > 1 /\ ForUnreachable > 0
\* A sample is seen until the alert on their absence has had its time.
LookbackCoversPipeline == Lookback - Gate >= ForPipeline
\* A restarted queue manager is young until the exporter is back (:61-65).
WindowCoversReconnect == RestartWindow > Reconnect /\ RestartWindow > 1

\* Restarts alone, of a queue manager or of its exporter, never page
\* "listener fault" (the gate; alerts.mjs:82-85): Unreachable fires only for
\* a queue manager whose listener broke or whose samples were lost.
RestartIsNotAFault ==
  vantage = "dual" => \A q \in Qmgrs : Firing("Unreachable", q) => q \in excused

\* An outage alert that resolves says that the endpoint answers again, or
\* hands over to the alert that names the blind pipeline.
NoSilentResolve ==
  [][vantage = "dual" => \A q \in Qmgrs :
       Resolves("Down", q) => native[q].val = 1 \/ Firing("PipelineDown", q)']_vars

\* Single vantage: the first evaluation after the exporter is connected to
\* a restarted queue manager says that it restarted (alerts.mjs:61-65), so
\* the window of four scrapes covers the time it takes to reconnect.
RestartIsTold ==
  [][vantage = "single" => \A q \in Qmgrs :
       back[q] /\ client[q].last = 0 /\ q \notin excused /\ client'[q].last = 1
         => Firing("Restarted", q)']_vars

\* Each lasting fault is named in the end by its own alert - also one that
\* falls while alerts of another are pending or fire.  Where no native
\* endpoint says that the queue manager stopped, the alert on its exporter
\* is what is left: once the retrying exporter left Retry - 1 scrapes in a
\* row unanswered, keep_firing_for carries it over those it answers
\* (alerts.mjs:33-39).  One that always answers earlier keeps restarting
\* the `for` of this alert as the unanswered scrapes do that of Unreachable
\* (:24-29): with a client only, such an outage is not named at all.
LongMute(q) == mute[q] = Retry - 1

FaultIsNamed ==
  /\ \A q \in Qmgrs :
       /\ vantage = "dual" =>
            (<>[](~process[q] /\ collector) => <>[]Firing("Down", q))
       /\ <>[](process[q] /\ ~listener[q] /\ exporter[q] /\ collector)
            => <>[]Firing("Unreachable", q)
       /\ <>[](~exporter[q] /\ collector) => <>[]Firing("ExporterDown", q)
       /\ <>[](~process[q] /\ exporter[q] /\ collector) /\ []<>LongMute(q)
            => <>[]Firing("ExporterDown", q)
  /\ <>[]~collector => \A q \in Qmgrs : <>[]Firing("PipelineDown", q)

\* A lab that stays healthy ends with no alert firing.
AllClear ==
  <>[](\A q \in Qmgrs : Healthy(q)) =>
    <>[](\A rule \in Rules, q \in Qmgrs : ~Firing(rule, q))
=============================================================================

# Verification of the MQ observability pack

TLA+ models of the program logic of this repository, the instances TLC checks,
and the theorems TLAPS proves about them. The repository is a *lab*: an IBM MQ
queue manager, canary / producer / consumer containers, a telemetry stack that
raises alerts, a certification harness that breaks the lab on purpose, measures
how fast the alerts come, repairs it and issues a verdict; and a generator that
turns a registry of queue managers into the configuration of real sites. What
can go wrong there is concurrency and failure: a signal beside an `await`, a
docker child that outlives its parent, a webhook that comes late, a sample that
is older than its neighbour, a handle that went stale. The models are about
that; dashboards and report layout are not.

## 1. Inventory

| Part | State it keeps | Operations | Talks to | Status |
|---|---|---|---|---|
| **Chaos suite** `harness/checks/chaos.mjs` | `inflight`, one row per experiment, the signal listeners | `preflight`, the loop (gate, stamp, inject, detect, hold, recover, resolve, grade), `onSignal`, `recoverAll` | docker and runmqsc, Prometheus, alert-sink (ledger, clock) | modelled |
| **Certification run** `harness/run.mjs`, `lib/report.mjs` | `result`, three report files in `reports/` or `reports/quick/`, the exit code | command line, suites, `verdictOf`, write, `publish`, `fail`, `--publish` | the suites, the file system, alert-sink | partly |
| **Conformance, synthetic** `harness/checks/` | none | sixteen rows of queries, one verdict each | seven services | modelled |
| **Alert sink** `harness/alert-sink/server.mjs` | `events` (in memory, a ring), `results` | POST /webhook, GET and DELETE /events, /healthz, POST /results, GET /metrics | Alertmanager, harness, collector | modelled |
| **Session and roles** `canary/src/index.mjs`, `mq.mjs` | `hConn`, `hObj`, `uses`, `stopping`; the messages on two queues | `ensure`, `drop`, `recycle`, three endless loops, the signal handler and its 6 s timer | the queue manager (MQI calls) | partly |
| **Alert rules** `stack/prometheus/rules`, `tools/site/templates/alerts.mjs`, `inventory-rules.mjs` | Prometheus's: samples, `for`, `keep_firing_for` | scrape, evaluate | collector, Alertmanager | partly |
| **Site generator** `tools/gen-site.mjs`, `tools/site/` | the output directory | inventory, refusals, rendering, self-checks, writing | registry, file system | partly |
| **docker / runmqsc**, **HTTP**, **pack** helpers `harness/lib/` | none | `stop`, `start`, `runmqsc`, `composePs`; `waitFor`, `promQuery`, `sinkEvents`; `alertKey` | docker, services | partly |
| **Alert routing** `stack/alertmanager` | Alertmanager's | routes, receivers | sink, on-call channels | partly |
| **Burn-rate rules, dashboards, rule tools**, service configuration | none | one pass over text | file system | not modelled |

How the parts interact: the harness is one Node process; its concurrency is the
event loop (the suite, up to two signal handlers) plus the docker children it
starts, which go on when it dies. The lab outlives every process, so a run
inherits what an earlier one left. Prometheus, Alertmanager and the sink move
by themselves; the suites only poll. Each canary role is one Node process in
which the role's loop and the signal handler share one `Session` object; the
roles meet at the queues. The collector scrapes two jobs at different phases,
and the alert rules join what it got. The generator is one process that may be
killed while it writes over the output of an earlier one.

What makes each part correct:

- *Chaos suite:* every injection is followed by a recovery, whatever throws,
  times out or is interrupted; no fault is injected on top of another; a PASS
  names a fault that is gone, an alert that this fault raised and that stopped
  afterwards; `--recover` tells the truth, and one pass is enough.
- *Certification run:* exit code and files agree, a partial run never replaces
  the full report or the boards, a PASS rests on checks that passed. A row of
  the read-only suites passes on what was there and fails on what was not.
- *Session and roles:* no conversation leaks, the session returns after any
  outage, the process ends after SIGTERM. An order is processed at most once and
  in order, a lost one has a reason, a large one is not in the way, probes do
  not pile up.
- *Sink:* events leave it oldest first and only when it is full or restarts; a
  reader gets everything since its instant that is held; 200 means stored.
- *Alert rules:* a stopped queue manager and an unreachable one are told apart
  although their evidence has different ages; each lasting fault is named, a
  restart is not an outage, an alert does not resolve because it went blind.
- *Site generator:* what is accepted is scraped and paged without collisions,
  what is refused leaves no trace, `site.json` does not vouch for older files.

`PROJECT.json` lists every part with its status, and under `hazards` each of
these behaviours at its line, with the properties that watch it.

## 2. Modules

| Module | Models | Checked by |
|---|---|---|
| `ChaosSuite` | loop, lab, docker children, signal handlers, `--recover`; each row implements `ExperimentRow` | `MCChaosSuite`, `ChaosSuiteProofs` |
| `ExperimentRow` | what the loop promises of one row, from the gate to the grade | abstract specification |
| `Experiment` | the measurement inside one experiment, beside Prometheus, Alertmanager, sink; implements `ExperimentRow` | `MCExperiment`, `ExperimentProofs` |
| `CertRun` | command line to exit code, report files, boards | `MCCertRun`, `CertificationProofs` |
| `LabChecks` | the rows of the read-only suites over services and data that come and go | `MCLabChecks`, `CertificationProofs` |
| `Session` | the MQ session under a role's loop and the signal handler | `MCSession`, `SessionProofs` |
| `MessageFlow` | orders and probes on their queues | TLC, `FlowProofs` |
| `Ledger` | what a sender and a reader may expect of the sink | abstract specification |
| `AlertSink` | the sink itself; implements `Ledger` | `MCAlertSink`, `AlertSinkProofs` |
| `AlertRules` | samples and the differential rules, as Prometheus evaluates them | extended by the next two |
| `AlertDiagnosis` | the rules over a lab that fails and recovers | `MCAlertDiagnosis`, `AlertProofs` |
| `AlertRulesTests` | the promtool cases the generator emits, fed to the rules | TLC |
| `SiteInventory`, `SitePartition` | registry to inventory and its refusals; targets, rules, pack parts, routes, self-checks | operators of the next |
| `SiteBuild` | invocations of `gen-site` on one output directory | `MCSiteBuild`, `SiteProofs` |

One action is one segment of JavaScript between two awaits, with
every assignment of that segment in it, so that whatever else runs in the
process or around it falls between actions exactly where the event loop lets it.
A definition whose name starts with `Bug` is a faulty variant of the definition
after it; it is not part of any specification, and substituting it must break
the property that `mutants` in `PROJECT.json` names.

### ChaosSuite

`dirty` is the set of faults the lab shows, `pending` the injections in docker's
hands. A command for a fault that lives inside the queue manager's container
(`InsideMq`) reaches it only while that container runs (`Reachable`); a failed
command may have done its work or part of it (`Spoilt`, `Patched`); `qmgr-down`
and `queue-full` poll after the command and may time out (`Polled`).

| Code | Definition |
|---|---|
| `preflight` :159-167, refusal :177-182 | `PreflightProbe`, `PreflightPasses`, `PreflightRefuses` |
| loop head :196-213 | `SkipExperiment`, `SteadyState`, `SteadyStateTimesOut` |
| `sinkNow`, `inject` :217-223 | `StampThrows`, `Inject`, `InjectReturns`, `InjectThrows` |
| detection and hold :226-244 | `Measure` (one step here; `Experiment` refines it) |
| `finally` :248-255 | `CallRecover`, `RecoverActs`, `RecoverThrows`, `RecoverVerified`, `RecoverTimesOut` |
| resolution and grade :259-287 | `Grade` |
| `onSignal` :186-193, `removeListener` :290 | `SignalRecovers`, `SignalExits`, `Handler...`, `SuiteReturns` |
| `recoverAll` :142-156, exit in run.mjs :59-65 | `StartRepair`, `ProbeClean` ... `RepairEnds` |
| SIGKILL; docker itself | `Kill`; `Lands`, `OrphanDies` |

`process.once` is why a handler goes from `armed` to a running state and never
back, why SIGINT and SIGTERM each have one, and why a second signal of the same
kind is `Kill`. While a handler waits the loop goes on; that is in the code, and
in the model. `owed`, `late` and `mishap` are history variables: they are
written and never read by an action.

### Experiment

One row, from the gate to its grade, with alerts that fire, clear and flap, a
sink that is down or comes back empty, and a Prometheus that does not answer.
An *instance* is an alert name with a label set, what a fingerprint identifies.
Alertmanager fixes what a notification says when it flushes (`Flush`); it is
delivered any time later, whatever the alert does by then, again when the reply
is lost, or never (`Deliver`). Time is abstracted to the eras between the two
instants the harness reads, which is all the `since` filter of `/events` can
distinguish: an event belongs to the era it was received in. Of the events of
one instance and status the newest is kept, which decides every query. Detection
credits whichever instance of the name has an event (`Detect`), resolution waits
for that very instance (`ResolvedOf`). The swallowed exceptions of `waitFor` and
the empty answers of `promQuery` and `sinkEvents` are modelled as what they are:
an answer "nothing". A scenario says which of the disturbances may happen and
bounds the flushes. `belated` remembers which instances had a notification on
its way when an instant was read; like `began`, `burned`, `lulled` and `quiet` it
is history. The post-recovery gate, the last sample and the grade are one step,
and `row.events` (`:272`), which nothing reads, is left out.

### ExperimentRow

`ChaosSuite` has every row and no alerts: it measures in one step and grades
freely. `Experiment` has the alerts and one row only. `ExperimentRow` is what
both promise of a row, so that what is shown of either may be read together:
the way from the gate to the grade (`stage`) leads from `inject()` only through
`recover()`; only the injection, while it is under way, or an orphan breaks the
lab (`broken`, `orphaned`); a throw of either command (`failed`) leaves
the grade FAIL and no other. In `Experiment` the mapping reads `pc` (`Stage`); in
`ChaosSuite` it reads `pc`, the index of the loop and the row's own fault in
`dirty` (`RowStage`, `RowFailed`, `RowOf(n)`), with the other rows, the handlers,
`--recover` and docker as what happens `Elsewhere`.

### CertRun and LabChecks

`CertRun`: any command line, any outcome of the suites, writes that throw at
each of the three files, rejections nobody catches, kills at each step (a file
being written may then be torn, a summary being posted may have arrived), a sink
that refuses, forgets, or is re-published to with `--publish`. A check is
its status; a report is the run it belongs to, its verdict and whether it was
partial.

`LabChecks` is where the statuses of the read-only suites come from. `Blocks`
lists what each row asks, in the order the code asks it; between two queries
services and data may `Vanish`, `Worsen` or `Mend`. A query that cannot be
answered is the answer "none". `held` and `lapsed` are history: what was good
at some moment of the current row, and what was not; `Note` is the answers of
one query read at one moment. At most `MaxTroubles` things go wrong, and data change only around the rows that read them.

### Session and MessageFlow

`Session`: `pc` is what the role's loop awaits, `hand` what the signal handler
awaits; `arg` and `harg` are the handles those calls were given, which may be
stale when the call returns. `Turns` says when the event loop can run anything
else: not during `GetSync`, and not in an iteration that ends without a pause. A
conversation is live at the queue manager until MQDISC, a queue manager stop or
the end of the process.

`MessageFlow` leaves that aside and follows the messages: a put or a get whose
reply is lost with its connection (`PutLost`, `GetLost`, `DiscardLost`), a consumer killed with
an order in hand, the two-step discard of an oversized order (`Get`, `Discard`),
probes that expire (`Aged`), a queue manager that stops and forgets what is not
persistent. One consumer, as the compose file starts; a tick is the 5 s GET wait
of the canary.

### Ledger and AlertSink

`Ledger` has no clock, buffer or process: a log that only grows, the
number of its oldest records that are forgotten, and what one may be told of it.
`AlertSink` has one action for each segment of a request handler; the loop over
`payload.alerts` is one `Store` for each alert, and no other request is served
within it, but a restart can fall there. Refused bodies, repeated notifications
and DELETE are actions of their own. The refinement mapping takes `floor` to
`Len(log) - Len(events)`. The clock is assumed monotone.

### AlertRules, AlertDiagnosis, AlertRulesTests

A sample is kept as its age in scrape periods (10 s, which is also the
evaluation interval), and of a range only the age of its last zero: all the
rules can tell. Prometheus 3's left-open ranges and staleness markers are
modelled. `AlertDiagnosis` drives them with a queue manager, its listener, its
client exporter and the collector, each failing and repaired between two
scrapes whose order is fixed in a behaviour (`nativeFirst`), in both vantages.
Its assumptions on the world around the code, each from a comment in it: the
exporter reconnects within `Reconnect` = 3 periods, a stopped queue manager
stays down for `Outage` = 2, and an exporter without its queue manager
answers at least one scrape in `Retry` = 5, never two in a row
(`alerts.mjs:36-38`, the promtool case). `Lookback` is cut to 10 periods in that
run, still longer than every range.

### SiteInventory, SitePartition, SiteBuild

The first two are pure: what `toInventory` makes of rows, what `checkInventory`
and the generic core refuse, and what the templates make of an accepted
inventory. A receiver name is the sequence of its words, so that the prefix of
the fleet file is concatenation and two references can derive one name; the name
of an environment is such words too (`EnvWords`), because it may have hyphens.
`InputAssumption` says what the schema of the adapter lets through: numbers
for ports, a monitoring host for each environment, text or nothing for the rest.
`SiteBuild` adds time: an invocation reads, refuses or renders in memory, and
writes path by path; it may throw or be killed at each, and the next one finds
what is there with another registry. `left` are the environments it has still
to write, the one in hand included, `written` the number of that one's files it
has written, `fleet` whether the fleet's file is still to come. `disk` holds for each
path the number of the invocation that wrote it last, `listed` what the
`site.json` of an environment lists.

## 3. Runs and bounds

| Run | Instance | What it shows |
|---|---|---|
| `chaos` | a polled container fault, an experiment without implementation, a fault inside the container; both signals; 2 processes; 32 initial labs | all guarantees of the suite, the handler and `--recover`; each process ends |
| `chaos_interrupt` | the same suite, one signal, 1 process on a clean lab | finding 1 |
| `experiment` | 2 alerts, or 1 alert of two queues, with every service answering (2 flushes each); 1 alert with outages, sink restarts and aftermath (3 flushes) | what a detection, a resolution and a PASS mean; `Experiment` implements `ExperimentRow`: `inject()` meets `recover()` and a grade |
| `session` | 3 roles, 4 conversation names | no leak, at most two conversations, comes back, ends |
| `session_deaf` | the same | finding 2 |
| `orders` | 4 orders of either size, queue depth 2, 3 faults; probes every 2 ticks that live 4 | order, explained loss, drained queue, few probes |
| `cert` | 2 processes, 4 outcomes per suite | files, exit code, boards and verdict agree |
| `checks` | a pack of one SLI and one recording rule, an alert spelled in two ways, 2 troubles | what a PASS and a FAIL of a row rest on |
| `sink` | buffer of 2 below a notification's length, 5 events, 1 restart | `AlertSink` implements `Ledger` |
| `alerts` | one queue manager, both vantages, the ranges of the lab, 2 faults | diagnosis, resolution and naming |
| `alert_tests` | 2 queue managers, the twelve promtool cases of the two vantages | the modelled rules give what the generated tests expect |
| `site` | 3 environments (`prod` and `prod-eu` dual, `eu-staging` single) on one monitoring host, a thousand registries of one or two of them and some of all, every choice of receivers, names that merge, a shared floating address, 2 invocations | what is accepted, what is written |

Why the bounds are enough. *Two processes* (`chaos`, `cert`): the hazards across
processes need a process that dies (suite or `--recover`) and one that meets
what it left; a third would only meet what the second could have met, since the
initial labs already contain every combination of faults, and an interrupted
write can mix files of at most two runs. *Three experiments*: one of each kind
the suite treats differently, so every pair of a fault and its successor occurs.
*One or two alerts*: alerts interact only through `AllFired` and `AllResolved`;
two show a mixed row, and one alert of two queues the credited instance beside
another. *Two or three flushes*: a firing one and a resolved one carry a row to
PASS, either may be late; the third is a repeat. *Four conversations*: a connect always finds a name that
no live conversation and no handle in use has. *Four orders, depth 2*: one in
hand, two queued, one refused; *three faults*: a lost reply, a kill and a stop
in any order. *Two troubles*: one before and one during a row, or two that hit
two queries of one row. *A buffer of 2*: shorter and longer notifications, and
full before the second one. *Two alert faults*: one under which another falls,
or a restart after a repair. *Two invocations*: what one leaves is met by
another. *Three environments*: one whose name is told apart from the first and
one whose name goes on from it, so that both exceptions of section 6 occur. The bounds that appear in guards are `MaxRuns`, `MaxOrders`,
`MaxFaults`, `MaxTroubles`, `MaxClock`, `MaxLog`, `MaxRestarts` and the
`maxFlushes` of a scenario.

Deadlock is not checked where a system stops for good: after `MaxRuns`
in `ChaosSuite`, `CertRun` and `SiteBuild`, after the grade in `Experiment`, at
the end of the suites in `LabChecks` and of a case in `AlertRulesTests`, and in
`MessageFlow` when the bounds are used up. `Session`, `AlertSink` and
`AlertDiagnosis` run for ever, and there deadlock is checked.

## 4. Fairness

- `ChaosSuite`: weak fairness of the main program, of `--recover` and of each
  running handler: Node runs a promise that is settled, and every `waitFor` has
  a timeout. It assumes that a docker child ends; `pexec` sets no timeout, so a
  docker that hangs forever would hang the suite (listed as a hazard).
- `Experiment`: weak fairness of the harness only. Prometheus, Alertmanager and
  the sink owe nothing.
- `Session`: weak fairness of the loop (MQ calls return, pauses end). Strong
  fairness of the start of the handler and of the 6 s timer: they are enabled
  only while the event loop turns, which it may do for moments only. The
  handler's own MQ calls need not return. `Ends` has the premise that the loop
  keeps turning, because finding 2 is that it may not.
- `MessageFlow`: weak fairness of the consumer. `QueueDrains` holds of a queue
  manager that answers from some moment on.
- `AlertDiagnosis`: weak fairness of scrapes and evaluations, which are timers,
  and of the exporter's retries. Faults and repairs are not fair: `FaultIsNamed`
  is about those that last, `AllClear` about a lab that stays healthy.

## 5. What is proved

Every theorem holds for all values of the constants under the assumptions the
modules name. Every safety and action property of the passing runs and every refinement is a
theorem but one (`ExpectedAlerts`, a finite table). The type invariants are theorems
where a proof module exists and are not checked again by the runs, except as a
part of what the proofs use. The assumptions that name finite sets, ranges or
the shape of an input are evaluated by TLC on each run.

**ChaosSuite** (`ChaosSuiteProofs`): every safety property of the run, for every
suite of distinct experiment names, any set of signals, any number of processes.
None of them is inductive: `RepairIsHonest`, say, is about the last step of
`--recover` and needs to know what each earlier probe left. `Inductive` follows
the lab instead:

- `Places`: the current index names an implemented experiment whenever one is
  running, and from `inject()` to the end of `recover()` it is the one in `inflight`.
- `Owing`: what was injected and not recovered is `inflight`; at rest it can
  only be left by a process that was cut short.
- `ProbedSoFar`, `CleanBetween`: the pre-flight accumulates clean faults, and
  from then on, unless a `recover()` failed or an orphan landed, the selected
  faults in the lab are none between experiments and at most the current one during one.
- `UntriedAhead`, `UngradedAhead`: rows from the index on are as they were born;
  without it a later recovery could turn a failed row good again.
- `GradedRepaired`, `RecoveredRepaired`: the fault of a PASS or WARN row is gone.
- `RepairedSoFar`, `Blameless`: the faults `--recover` has passed are gone, and
  its result turns bad only through a failed command or an orphan. The second
  needs the first: past the queue manager every command can reach its target.
- `Handling`: handlers exist only beside the loop, with a captured fault.

Each action has a lemma `Keeps<Action>`; `StepKeeps` joins them.

Two results stand on it. `RowsInContract` is the refinement of `ExperimentRow`
by every row at once (`RowsKeepTheContract`). Each action has a lemma
`...InContract` that says which step of which row it is; `OthersAside` and
`ElsewhereInContract` take care of the rows that only look on. It needs
one fact more (`Untroubled`: nothing threw before `inject()` returned). No run
repeats it; its liveness half is `Terminates`. `GradedRowsAreMended` is the
invariant of the abstract row, for each.

`StepsAreCounted` and `ProcessAlwaysAdvances` are the part of `Terminates`
that needs no fairness: `StepsLeft`, read off the index and the place in the
loop (`Rank`), is a natural number bounded by the length of the suite and zero
only without a process; every step of the suite or of `--recover` lowers it, and
no handler, kill or docker child raises it. So a process makes finitely
many steps of its own; that it makes them is fairness, and stays with TLC.

**Experiment** (`ExperimentProofs`): `PassIsQuiet`, `DetectionIsCaused`,
`LedgerTellsTheTruth` for any list of alerts and any scenario. The strengthening
says what a notification and an event are evidence of: what was flushed or
received as firing in an era burned in that era or was on its way when it began,
and likewise for resolved (`Remembered`, `Relieved`); in a calm lab nothing but
the fault starts an alert (`Undisturbed`); one instance is credited per alert
(`Credited`, from the distinct names of the list), so that a resolution is of
that one; `Order` ties the eras to the phases, and after `recover()` what does
not fire is quiet (`Settled`). `ContractKept` is the safety half of
`KeepsTheContract`: each action, with what the outages and webhooks do around it,
is a step of `ExperimentRow` or none. From the abstract row alone
`GradedRowIsMended` then follows: a settling row that did not fail is mended
(`Mended`). `StepsAreCounted` and `HarnessAlwaysAdvances` do for the harness
what the theorems of these names do for a process: here the count depends on the
place in the loop over the alerts, and what is around the harness leaves it.

**CertRun** (`CertificationProofs`): all four properties. The strengthening speaks of
the run under way: what it has written so far is its own report (`Written`),
only a complete run publishes (`Complete`), a verdict of PASS still has its
checks (`Graded`).

**LabChecks** (`CertificationProofs`, its second half): `PassIsWitnessed` and
`FailIsJustified`, for any pack and any number of troubles. `Knows` follows the
answers of one row: each is evidence of its item at some moment of the row
(`Evidence`; a good `/health` is evidence of the datasource), every query of the
row was sent or is still to be (`Sent`), and so was what depends on its answer,
while links are looked for only once spans were found (`FollowedUp`). The
lemmas before it say what `Blocks` asks (`BlocksOpen`, `ListAsked`), that an
order of a finite set covers it (`OrderCovers`), and what an answer makes the
harness ask next (`FollowUpsFollow`); `PassRests` and `FailRests` go through
the sixteen verdicts. `PackAssumption` adds to the shape of the pack only that
its lists are finite.

**Session** (`SessionProofs`): before the handler's `drop()` is through `hConn`
names every conversation, after it all but one; a disconnect under way is the
one of `hConn` unless the handler cleared it; a connect is awaited only without
a connection. From it `NothingOrphaned` and `TwoAtMost`.

**AlertSink** (`AlertSinkProofs`): `SinkKeepsTheLedger`, the refinement, for
every capacity and all notifications: the buffer is the end of the log
(`EndOfLog`), what was pushed since `/healthz` answered is stamped no earlier
than the answer (`AfterTheMark`, which needs `Past`), and the alerts stored of
the notification in service are the last of the log (`StoredAtEnd`).

**MessageFlow** (`FlowProofs`): `ProcessedInOrder`, `LossIsExplained` and
`ProbesStayFew`, for any depth, number of orders, faults and probes. What was
processed, what is in hand and what is queued are three ascending stretches,
one after the other (`Increasing`, `InHand`), and an order leaves them only
where the books record it (`Explained`). Each probe but the youngest was
followed by a sleep or a kill, so the age of a probe pays for those put after
it (`Paid`), and an age stays below the expiry.

**AlertDiagnosis** (`AlertProofs`): four properties, for all queue managers, phases
and numbers of faults. `DiagnosisIsDifferential` needs no more than a gate no
longer than the lookback: while the last native sample is a zero, the last zero
is no older than it (`Fresh`), so the gate is shut whenever the other rule sees
the zero. The other three depend on how the windows compare with the lab, and
say so in a hypothesis each; `LabWindows` in `MCAlertDiagnosis` makes TLC
evaluate all three on the values of the rendered rules:

- `RestartsDoNotPage` (`GateCoversRestart`: the gate is longer than the
  exporter's reconnect, what `alerts.mjs:82-85` derives it from, and a restart
  longer than a scrape). A sample without a connection is either behind the
  gate or the stop of this very period (`SampleIsExplained`, from `StopIsSeen`
  and `ZeroIsRecent`), and the latter lasts one evaluation (`OneEvaluation`).
- `OutagesDoNotFade` (`LookbackCoversPipeline`: Prometheus's 5 min outlast gate
  and `for` of the absence alert). Native series are of one age (`SameAge`), and
  while a zero is the last sample, the absence alert has held since the gate ran
  out (`AbsenceHeld`), so it fires before the zero leaves the lookback.
- `RestartsAreTold` (`WindowCoversReconnect`: the window of `alerts.mjs:61-65`
  is longer than the reconnect). The age of a restart and the time left to
  reconnect stay within one bound (`BackInTime`, `StillDue`), so the first
  connected sample is a young one (`YoungSample`).

**SiteBuild** (`SiteProofs`): all properties, for every input the schema lets through
and any number of invocations. Of the files: the environments that are done and
the first files of the one in hand are of this invocation (`Written`), none is
newer (`NoneNewer`), the others are as they were (`Untouched`); from the
rendering on the input is an accepted one (`Accepted`). Hence `SiteJsonIsLast`,
`RefusedWritesNothing`, `SuccessRenewsAll`. Of the contents: an
accepted input has one wired queue manager for each row group
(`SelectedIsWired`), whose names, ports and hosts the refusals keep apart
(`NamesAreUnique`, `PortsAreFree`, `HostsAreOfOneEnvironment`), so endpoints are
separate (a native one across environments only without `Floating`) and the
self-checks of the rendered files agree
(`EndpointsStaySeparate`, `ChecksAlwaysAgree`); the removals for one vantage
leave nothing that refers to what is gone (`NothingEverDangles`); and
the words of a derived receiver name tell channels and environments apart
(`BlockHoldsOneChannel`, `PrefixTellsEnvironments`: `AlertsReachTheirChannels`).

Only model-checked: the liveness properties (`Terminates`, the liveness half of
`KeepsTheContract`, `ComesBack`, `Ends`, `QueueDrains`, `FaultIsNamed`, `AllClear`), as fairness and
ENABLED are out of the prover's reach; `ExpectedAlerts`, a finite table of
cases; and the two runs that show a finding.

## 6. Findings

With a run:

1. *A signal during `inject()`* (`chaos.mjs:189`). The handler recovers a lab
   that is still healthy and exits 130, then the fault lands. `InterruptRepairs`
   is what holds.
2. *The consumer on an empty queue does not hear SIGTERM* (`index.mjs:153`).

Seen while modelling; the properties name these cases as exceptions:

- A failed `recover()` does not stop the suite (`chaos.mjs:252`), although a
  lab that is not clean is refused (`:9`). `InjectsIntoCleanLab` holds as long
  as every recovery worked.
- A firing webhook that was on its way at the injection instant - flushed
  before, or sent again because its reply was lost - is received after it and
  credited as the detection: `since` compares the time of receipt
  (`chaos.mjs:228`, `server.mjs:101`), not `startsAt`. In the same way a late
  resolved webhook of the credited instance ends the wait for its resolution
  (`:263`); the post-recovery gate then still asks Prometheus. `DetectionIsCaused`
  and `LedgerTellsTheTruth` except exactly these (`belated`).
- A hypothesis sample without data is no obstacle to PASS (`chaos.mjs:277`).
- The recovery instant falls back to the host clock (`chaos.mjs:249`), which the
  comment at `:17-20` rules out; `LedgerTellsTheTruth` says what is left.
- The gate reads an unreachable Prometheus as "nothing firing" (`chaos.mjs:121`);
  `row.events` may lack the events a row was judged from after a sink restart
  (`:272`); the loop goes on beside the handler, so exit 130 may leave a later
  injection (`:186`).
- `--only ,` requests nothing, runs nothing and exits 0 (`run.mjs:55`); "every
  run also publishes" (`run.mjs:12`) is not so for partial runs and for ERROR;
  a promise nobody awaits that rejects ends the process between injection and
  recovery (`run.mjs:101`).
- Rows that take no answer for good news: S5 and S6 (`synthetic.mjs:43`), C10,
  and in S4 headroom, age and put errors. `PassIsWitnessed` excepts them (`Silent`).
- The role's loop does not look at `stopping` and may reconnect while the handler
  flushes, so that `process.exit` leaves a conversation for the queue manager to
  report as broken (`index.mjs:188`).
- The discard of an oversized order takes the head of the queue at that time
  (`index.mjs:171`). With one consumer that is the oversized one;
  `LossIsExplained` would not hold with two.
- The gate of `Unreachable` spans one minute of samples, which is a
  scrape less than a minute of time (`alerts.mjs:83-89`).
- In single vantage the alerts that are to name a stopped queue manager both
  wait on its exporter (`alerts.mjs:24-43`): each unanswered scrape restarts the
  `for` of `Unreachable`, each answered one that of `ExporterDown`. An exporter
  that leaves `Retry` - 1 scrapes in a row unanswered again and again gets the
  outage named by `ExporterDown`, which keeps firing in between; one that
  answers more often, though never twice in a row, leaves it unnamed.
  `FaultIsNamed` states the first (`LongMute`) and excepts the second.
- "Receivers are prefixed by environment so names never collide"
  (`alertmanager.mjs:70-71`): the prefix ends in a hyphen, and a name may have
  one. `prod` with a receiver `#eu-mq-oncall` and `prod-eu`
  with `#mq-oncall` both render `prod-eu-mq-oncall`. `AlertReachesItsChannel`
  excepts such pairs (`NamesApart`). `Fleet3` of `MCSiteBuild` has one: without
  `NamesApart(e)` the run fails.
- Two references of one inventory may derive one receiver name
  (`webhook://pagerduty-mq`, `pagerduty://mq`). Only the block of the first is
  rendered (`alertmanager.mjs:28-30`): the other channel is never told, and its
  missing secret, which `receiverBlock` refuses (`lib.mjs:96,99`), is not noticed.
- An address is one queue manager's per environment only (`inventory.mjs:409-416`,
  native ports likewise, `ibmmq.mjs:110`), so two dual environments may be given
  one floating address and port and scrape one native exporter under two names.
  `EndpointsAreSeparate` excepts exactly this (`Floating`); `Shared` of
  `MCSiteBuild` is such a pair, and without the exception the run fails.
- The header of `server.mjs` names `mq_alert_webhooks_total`; the metric exposed
  is `mq_alert_webhooks`.

## 7. Plan

Done: everything in section 2. Left, most useful first:

1. Two harness processes side by side on one lab. Nothing in the code excludes
   it; a composition of two `ChaosSuite`s would show what breaks first.
2. An abstract *conversation* that `Session` implements, and the proof that it does.
3. `DockerOps`: the runmqsc trailer and tolerated message ids as operators.
4. The counted text anchors of the generator, and the drift checks of
   `tools/check-rules.mjs`.

## 8. Not modelled

Dashboards, burn-rate rules, pin and drift checks and the other `tools/` (single
passes over text, no state between steps); the counted text anchors and the text
of rendered files, the exceptions of the lab's own partition and files that an
earlier invocation left of an environment that is gone; the Kafka and Grafana
reference packs; the rest of `vendor/observogram` (third party); service
configuration, Dockerfiles and CI; the formatting of `/metrics` and of reports;
symptom alerts and recording rules, each a threshold on one series; parsing of
runmqsc output; grouping and inhibition inside Alertmanager, which appear in
`Experiment` as late and repeated webhooks; two harness processes at the same
time (section 7).

------------------------------ MODULE Experiment ------------------------------
(***************************************************************************)
(* One chaos experiment as harness/checks/chaos.mjs measures it: the gate  *)
(* on Prometheus, the instants read from the alert-sink's clock, detection *)
(* and resolution through the webhook ledger, the hypothesis samples and   *)
(* the grade - beside the actors it observes and does not control:         *)
(* Prometheus (alerts fire, resolve, flap; the server may be unreachable), *)
(* Alertmanager (a notification says what an alert was when it was flushed *)
(* and is delivered any time later, more than once or not at all) and the  *)
(* alert-sink (harness/alert-sink/server.mjs: an in-memory ledger).        *)
(*                                                                         *)
(* Time is abstracted to eras: every instant the harness reads starts a    *)
(* new one, and an event belongs to the era it was received in, which is   *)
(* all that the `since` filter of /events can tell; so of the events with  *)
(* one alert name, fingerprint and status only the newest decides whether  *)
(* a query finds one.                                                      *)
(***************************************************************************)
EXTENDS Integers, Sequences, FiniteSets

(* A scenario: the experiment's expected_alerts in pack order; the label   *)
(* sets (queues, say) each of them may be raised for; whether Prometheus   *)
(* may stop answering queries; whether the alert-sink may stop answering   *)
(* or restart; whether what happened before the experiment may still raise *)
(* alerts; and, as a bound for TLC, how many notifications Alertmanager     *)
(* flushes.                                                                *)
CONSTANT Scenarios

ASSUME ScenariosAssumption ==
  \A s \in Scenarios :
    /\ s.expected \in Seq(STRING)
    /\ \A k, l \in DOMAIN s.expected : s.expected[k] = s.expected[l] => k = l
    /\ s.prints \subseteq STRING
    /\ s.maxFlushes \in Nat
    /\ {s.promOutages, s.sinkOutages, s.aftermath} \subseteq BOOLEAN

VARIABLES
  scenario,     \* never changes
  (* the systems around the harness *)
  faulted,      \* the fault is in the lab
  touched,      \* something happened that may (still) raise alerts
  firing,       \* instances Prometheus holds firing
  flushed,      \* notifications fixed by Alertmanager that may still arrive
  flushes,      \* how many there were
  ledger,       \* the events the alert-sink holds, of each instance and status the newest
  promUp, sinkUp,
  (* the harness *)
  pc,
  i,            \* position in Expected
  era,          \* instants read so far
  recoveredAt,  \* the instant resolution is counted from
  hostClock,    \* the recovery instant came from Date.now()
  fired,        \* row.alerts: the instances credited, one for each alert that fired
  resolved,     \* row.alerts: resolvedAfterMs
  blemished,    \* what keeps it from PASS: ~withinTarget, post.timedOut, a hypothesis note
  threw,        \* an 'experiment error' or 'recover error' note
  status,
  (* history *)
  began,        \* instances that started to fire since the last instant was read
  burned,       \* instances that were firing at some moment since that instant
  lulled,       \* instances that were not firing at some moment since that instant
  belated,      \* instances of which a notification was on its way at that instant
  quiet         \* instances not firing at some moment since recover() returned

Expected == scenario.expected
Alerts == {Expected[k] : k \in DOMAIN Expected}

(* What Prometheus fires and a fingerprint tells apart: an alert name with *)
(* a label set.                                                            *)
Instances == [alert : Alerts, print : scenario.prints]
Named(X) == {x.alert : x \in X}

Eras == 0..2
Notices == [of : Instances, status : {"firing", "resolved"}]
Events == [of : Instances, status : {"firing", "resolved"}, era : Eras]

Saying(st, N) == {n.of : n \in {m \in N : m.status = st}}

(* Every service answers throughout, and only the experiment raises alerts. *)
Calm == ~scenario.promOutages /\ ~scenario.sinkOutages /\ ~scenario.aftermath

recent == <<began, burned, lulled, belated>>
seen == <<recent, quiet>>
alerting == <<firing, flushed, flushes, ledger>>
world == <<faulted, touched, alerting, promUp, sinkUp, seen>>
row == <<fired, resolved, blemished, threw, status>>
clock == <<era, recoveredAt, hostClock>>
vars == <<scenario, world, pc, i, clock, row>>

InjectedAt == 1     \* the era the injection instant starts

Phases == {"gate", "stamp", "inject", "detect", "restamp", "recover", "resolve",
           "graded", "abandoned"}

TypeOK ==
  /\ scenario \in Scenarios
  /\ {faulted, touched, promUp, sinkUp} \subseteq BOOLEAN
  /\ flushed \subseteq Notices
  /\ flushes \in 0..scenario.maxFlushes
  /\ ledger \subseteq Events
  /\ pc \in Phases
  /\ i \in 1..(Len(Expected) + 1)
  /\ era \in Eras
  /\ recoveredAt \in Eras
  /\ {firing, fired, began, burned, lulled, belated, quiet} \subseteq SUBSET Instances
  /\ resolved \subseteq Alerts
  /\ {hostClock, blemished, threw} \subseteq BOOLEAN
  /\ status \in {"FAIL", "WARN", "PASS"}

(* An earlier experiment may have left alerts firing; what it left in      *)
(* Alertmanager and in the ledger arrives before the gate.                 *)
Init ==
  /\ scenario \in Scenarios
  /\ faulted = FALSE
  /\ touched \in IF scenario.aftermath THEN BOOLEAN ELSE {FALSE}
  /\ firing \in SUBSET Instances
  /\ flushed = {}
  /\ flushes = 0
  /\ ledger = {}
  /\ promUp = TRUE
  /\ sinkUp = TRUE
  /\ pc = "gate"
  /\ i = 1
  /\ era = 0
  /\ recoveredAt = 0
  /\ hostClock = FALSE
  /\ fired = {} /\ resolved = {}
  /\ blemished = FALSE
  /\ threw = FALSE
  /\ status = "FAIL"
  /\ began = {} /\ burned = {} /\ lulled = {} /\ belated = {} /\ quiet = {}

-----------------------------------------------------------------------------
(* What the harness sees.                                                  *)

(* promQuery() answers an empty result when Prometheus cannot be asked.    *)
FiringNow == IF promUp THEN firing ELSE {}

(* Fault for a mutant: the ledger is read without its `since`.             *)
BugSinkEvents(since) == IF sinkUp THEN ledger ELSE {}

(* sinkEvents() answers [] when the sink cannot be asked.                  *)
SinkEvents(since) == IF sinkUp THEN {e \in ledger : e.era >= since} ELSE {}

(* The instances of an alert the sink has such an event of.                *)
Shows(a, st, since) ==
  {x \in Instances : x.alert = a
                       /\ \E e \in SinkEvents(since) : e.of = x /\ e.status = st}

(* sampleHypothesis(): holds is TRUE, FALSE or null; null without data.    *)
Samples == IF promUp THEN {"holds", "fails", "null"} ELSE {"null"}

Contradicts(wanted) == {h \notin {wanted, "null"} : h \in Samples}

Sample(wanted) ==
  \E c \in Contradicts(wanted) : blemished' = (blemished \/ c)

Goto(phase) == pc' = phase /\ i' = 1

-----------------------------------------------------------------------------
(* Before the injection.                                                   *)

(* The gate, then hypothesis.before.                                       *)
SteadyState ==
  /\ pc = "gate"
  /\ FiringNow = {}
  /\ Sample("holds")
  /\ Goto("stamp")
  /\ UNCHANGED <<world, clock, fired, resolved, threw, status>>

SteadyStateTimesOut ==
  /\ pc = "gate"
  /\ FiringNow # {}
  /\ Goto("abandoned")
  /\ UNCHANGED <<world, clock, row>>

(* injectedAt = await sinkNow(), then inject() is called.                  *)
Stamp ==
  /\ pc = "stamp"
  /\ sinkUp
  /\ era' = InjectedAt
  /\ began' = {}
  /\ burned' = firing
  /\ belated' = Saying("firing", flushed)
  /\ Goto("inject")
  /\ UNCHANGED <<faulted, touched, alerting, promUp, sinkUp, lulled, quiet, recoveredAt,
                 hostClock, row>>

(* Five unanswered /healthz: nothing is injected, the row stays FAIL.      *)
StampThrows ==
  /\ pc = "stamp"
  /\ ~sinkUp
  /\ threw' = TRUE
  /\ Goto("abandoned")
  /\ UNCHANGED <<world, clock, fired, resolved, blemished, status>>

-----------------------------------------------------------------------------
(* The fault and its detection.                                            *)

Inject ==
  /\ pc = "inject"
  /\ faulted' = TRUE
  /\ touched' = TRUE
  /\ Goto("detect")
  /\ UNCHANGED <<alerting, promUp, sinkUp, seen, clock, row>>

(* Fault for a mutant: an inject() that threw is not recovered.            *)
BugInjectThrows ==
  /\ pc = "inject"
  /\ faulted' \in BOOLEAN
  /\ touched' = (touched \/ faulted')
  /\ threw' = TRUE
  /\ Goto("abandoned")
  /\ UNCHANGED <<alerting, promUp, sinkUp, seen, clock,
                 fired, resolved, blemished, status>>

InjectThrows ==
  /\ pc = "inject"
  /\ faulted' \in BOOLEAN
  /\ touched' = (touched \/ faulted')
  /\ threw' = TRUE
  /\ Goto("restamp")
  /\ UNCHANGED <<alerting, promUp, sinkUp, seen, clock,
                 fired, resolved, blemished, status>>

(* One turn of the loop over expected: waitFor() ends with the event, or   *)
(* with a time-out on a poll that found none.  The first event found is    *)
(* credited, whichever instance it is of.                                  *)
Detect ==
  /\ pc = "detect"
  /\ i <= Len(Expected)
  /\ \E x \in Shows(Expected[i], "firing", InjectedAt) : fired' = fired \cup {x}
  /\ blemished' \in {blemished, TRUE}
  /\ i' = i + 1
  /\ UNCHANGED <<world, pc, clock, resolved, threw, status>>

DetectTimesOut ==
  /\ pc = "detect"
  /\ i <= Len(Expected)
  /\ Shows(Expected[i], "firing", InjectedAt) = {}
  /\ blemished' = TRUE
  /\ i' = i + 1
  /\ UNCHANGED <<world, pc, clock, fired, resolved, threw, status>>

(* The rest of the hold, then hypothesis.during.                           *)
Hold ==
  /\ pc = "detect"
  /\ i > Len(Expected)
  /\ Sample("fails")
  /\ Goto("restamp")
  /\ UNCHANGED <<world, clock, fired, resolved, threw, status>>

-----------------------------------------------------------------------------
(* Recovery: recoveredAt = await sinkNow().catch(() => Date.now()), read   *)
(* before recover() is called.  The host clock may be behind the sink's    *)
(* by any amount, so the filter may reach back.                            *)
Restamp ==
  /\ pc = "restamp"
  /\ era' = era + 1
  /\ hostClock' = ~sinkUp
  /\ recoveredAt' \in IF sinkUp THEN {era + 1} ELSE 0..(era + 1)
  /\ began' = {} /\ burned' = {}
  /\ lulled' = Instances \ firing
  /\ belated' = Saying("resolved", flushed)
  /\ Goto("recover")
  /\ UNCHANGED <<faulted, touched, alerting, promUp, sinkUp, quiet, row>>

Recover ==
  /\ pc = "recover"
  /\ faulted' = FALSE
  /\ quiet' = Instances \ firing
  /\ Goto("resolve")
  /\ UNCHANGED <<touched, alerting, promUp, sinkUp, recent, clock, row>>

RecoverThrows ==
  /\ pc = "recover"
  /\ faulted' \in {faulted, FALSE}
  /\ quiet' = Instances \ firing
  /\ threw' = TRUE
  /\ Goto("resolve")
  /\ UNCHANGED <<touched, alerting, promUp, sinkUp, recent, clock,
                 fired, resolved, blemished, status>>

(* Fault for a mutant: any resolved event of the alert's name counts.      *)
BugResolvedOf(a) ==
  IF a \in Named(fired) THEN Shows(a, "resolved", recoveredAt) ELSE {}

(* The instances credited for an alert that the sink has resolved events   *)
(* of: the name and the fingerprint have to agree.                         *)
ResolvedOf(a) == fired \cap Shows(a, "resolved", recoveredAt)

(* One turn of the loop over row.alerts; an alert that did not fire is     *)
(* passed over.                                                            *)
Resolve ==
  /\ pc = "resolve"
  /\ i <= Len(Expected)
  /\ resolved' = resolved \cup (IF ResolvedOf(Expected[i]) = {} THEN {} ELSE {Expected[i]})
  /\ i' = i + 1
  /\ UNCHANGED <<world, pc, clock, fired, blemished, threw, status>>

(* row.alerts is complete unless inject() threw, which fails the row.      *)
AllFired == Alerts \subseteq Named(fired)
AllResolved == Named(fired) \subseteq resolved

Verdict(blemish) ==
  IF ~AllFired \/ ~AllResolved \/ threw THEN "FAIL"
  ELSE IF blemish THEN "WARN" ELSE "PASS"

(* Fault for a mutant: the post-recovery time-out is dropped, not graded.  *)
BugGrade ==
  /\ pc = "resolve"
  /\ i > Len(Expected)
  /\ Sample("holds")
  /\ status' = Verdict(blemished')
  /\ Goto("graded")
  /\ UNCHANGED <<world, clock, fired, resolved, threw>>

(* The post-recovery steady state, hypothesis.after, and the grade.        *)
Grade ==
  /\ pc = "resolve"
  /\ i > Len(Expected)
  /\ \E c \in Contradicts("holds") : blemished' = (blemished \/ FiringNow # {} \/ c)
  /\ status' = Verdict(blemished')
  /\ Goto("graded")
  /\ UNCHANGED <<world, clock, fired, resolved, threw>>

-----------------------------------------------------------------------------
(* Around the harness.                                                     *)

harness == <<pc, i, clock, row>>

(* What happens after the row is written is not observed by it.            *)
Watched == pc \notin {"graded", "abandoned"}

(* Prometheus: an alert is raised by the fault or by what is left of it    *)
(* (rule windows and `for` lag behind), and may resolve or flap.           *)
Fire(x) ==
  /\ Watched
  /\ touched
  /\ x \notin firing
  /\ firing' = firing \cup {x}
  /\ began' = IF era = InjectedAt THEN began \cup {x} ELSE began
  /\ burned' = IF era = InjectedAt THEN burned \cup {x} ELSE burned
  /\ UNCHANGED <<faulted, touched, flushed, flushes, ledger, promUp, sinkUp, lulled, belated,
                 quiet, harness>>

Clear(x) ==
  /\ Watched
  /\ x \in firing
  /\ firing' = firing \ {x}
  /\ lulled' = IF era > InjectedAt THEN lulled \cup {x} ELSE lulled
  /\ quiet' = IF pc = "resolve" THEN quiet \cup {x} ELSE quiet
  /\ UNCHANGED <<faulted, touched, flushed, flushes, ledger, promUp, sinkUp, began, burned,
                 belated, harness>>

(* Alertmanager fixes the status of a notification when it flushes a       *)
(* group.  A flush that Prometheus's news had not reached yet repeats one  *)
(* that was before it.  That a resolved one only follows a firing one is   *)
(* not relied on.                                                          *)
Flush(n) ==
  /\ Watched
  /\ flushes < scenario.maxFlushes
  /\ n \notin flushed
  /\ n.status = IF n.of \in firing THEN "firing" ELSE "resolved"
  /\ flushed' = flushed \cup {n}
  /\ flushes' = flushes + 1
  /\ UNCHANGED <<faulted, touched, firing, ledger, promUp, sinkUp, seen, harness>>

(* The webhook arrives, whatever the alert does by then; unless the sink's *)
(* answer arrives too, it will be sent again.  One that is given up is one *)
(* that does not arrive.                                                   *)
Deliver(n) ==
  /\ Watched
  /\ sinkUp
  /\ n \in flushed
  /\ ledger' = {e \in ledger : <<e.of, e.status>> # <<n.of, n.status>>}
                 \cup {[of |-> n.of, status |-> n.status, era |-> era]}
  /\ flushed' \in {flushed, flushed \ {n}}
  /\ UNCHANGED <<faulted, touched, firing, flushes, promUp, sinkUp, seen, harness>>

PromToggles ==
  /\ Watched
  /\ scenario.promOutages
  /\ promUp' = ~promUp
  /\ UNCHANGED <<faulted, touched, alerting, sinkUp, seen, harness>>

SinkStops ==
  /\ Watched
  /\ scenario.sinkOutages
  /\ sinkUp
  /\ sinkUp' = FALSE
  /\ UNCHANGED <<faulted, touched, alerting, promUp, seen, harness>>

(* The sink answers again, with its ledger or, after a restart, empty.     *)
SinkReturns ==
  /\ Watched
  /\ ~sinkUp
  /\ sinkUp' = TRUE
  /\ ledger' \in {ledger, {}}
  /\ UNCHANGED <<faulted, touched, firing, flushed, flushes, promUp, seen, harness>>

Around ==
  \/ \E x \in Instances : Fire(x) \/ Clear(x)
  \/ \E n \in Notices : Flush(n) \/ Deliver(n)
  \/ PromToggles \/ SinkStops \/ SinkReturns

Harness ==
  \/ SteadyState \/ SteadyStateTimesOut \/ Stamp \/ StampThrows
  \/ Inject \/ InjectThrows \/ Detect \/ DetectTimesOut \/ Hold
  \/ Restamp \/ Recover \/ RecoverThrows \/ Resolve \/ Grade

Next == (Harness \/ Around) /\ UNCHANGED scenario

Spec == Init /\ [][Next]_vars

(* The harness goes on whatever the systems around it do.                  *)
FairSpec == Spec /\ WF_vars(Harness /\ UNCHANGED scenario)

-----------------------------------------------------------------------------
(* Properties.                                                             *)

(* While Prometheus can be asked, a PASS means that every instance of      *)
(* every expected alert, not only the one whose resolved webhook was       *)
(* waited for, stopped firing after recover() returned: a resolved webhook *)
(* that is late, or of an alert that flapped between the recovery instant  *)
(* and the recovery, does not carry the row alone, the post-recovery       *)
(* steady state has to agree.                                              *)
PassIsQuiet == Calm /\ status = "PASS" => Instances \subseteq quiet

(* While Prometheus can be asked and nothing but this experiment raises    *)
(* alerts, what a row credits as a detection began to fire after the       *)
(* injection instant - or its webhook was on its way at that instant,      *)
(* which neither the gate on Prometheus nor the `since` of /events can     *)
(* tell.  A repeat of an earlier alert that was flushed later is not       *)
(* credited.                                                               *)
DetectionIsCaused ==
  [][Calm => fired' \ fired \subseteq began \cup belated]_vars

(* Through late, repeated and lost webhooks, sink restarts and outages,    *)
(* and with Prometheus blind or not: a credited instance was firing after  *)
(* the injection instant, and if its alert counts as resolved on the       *)
(* sink's clock, that very instance was not firing at some moment after    *)
(* the recovery instant - but for webhooks on their way at that instant.   *)
LedgerTellsTheTruth ==
  [][/\ fired' \ fired \subseteq burned \cup belated
     /\ ~hostClock => \A x \in fired : x.alert \in resolved' \ resolved =>
                        x \in lulled \cup belated]_vars

-----------------------------------------------------------------------------
(* The row as ExperimentRow sees it.                                       *)

Stage ==
  CASE pc \in {"gate", "stamp"} -> "waiting"
    [] pc = "inject" -> "injecting"
    [] pc = "detect" -> "measuring"
    [] pc \in {"restamp", "recover"} -> "recovering"
    [] pc = "resolve" -> "settling"
    [] OTHER -> "done"

Row == INSTANCE ExperimentRow WITH
         stage <- Stage,
         failed <- threw /\ Stage \in {"recovering", "settling"},
         grade <- status,
         broken <- faulted,
         orphaned <- FALSE

(* Whatever the sink, Prometheus and Alertmanager do meanwhile, the        *)
(* experiment is one that ChaosSuite may count on: once inject() was       *)
(* called - also when it threw, with half of the fault in the lab - it     *)
(* comes to its recover() and to a grade, and a throw of either makes that *)
(* grade FAIL.                                                             *)
KeepsTheContract == Row!LiveSpec

=============================================================================

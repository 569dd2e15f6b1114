------------------------------ MODULE ChaosSuite ------------------------------
(***************************************************************************)
(* The chaos suite of the certification harness (harness/checks/chaos.mjs) *)
(* and the lab it breaks and repairs: the loop over the pack's             *)
(* experiments, the docker / runmqsc commands behind inject(), recover()   *)
(* and clean(), the SIGINT / SIGTERM handler that runs beside the loop,    *)
(* the death of the process at any await, and `--recover`.                 *)
(*                                                                         *)
(* One action is one segment of JavaScript between two awaits.  What an    *)
(* experiment measures (alerts, webhooks, hypothesis samples) is the       *)
(* business of module Experiment; here it is the phase "measure" and a     *)
(* free choice of grade.                                                   *)
(***************************************************************************)
EXTENDS Integers, Sequences, FiniteSets

CONSTANTS
  Suite,      \* the pack experiments this run selected, in pack order
  Signals,    \* the signals the operator may send (a subset of SIGINT, SIGTERM)
  MaxRuns     \* bound: how many harness processes are started one after another

ASSUME SuiteAssumption ==
  /\ Suite \in Seq(STRING)
  /\ \A i, j \in DOMAIN Suite : Suite[i] = Suite[j] => i = j
ASSUME SignalsAssumption == Signals \subseteq {"SIGINT", "SIGTERM"}
ASSUME MaxRunsAssumption == MaxRuns \in Nat

(* Fault for a mutant: the queue manager is repaired last.                 *)
BugRepairOrder ==
  <<"listener-stopped", "queue-full", "consumer-stall", "dlq-poison", "qmgr-down">>

(* The faults map, in its textual order, which is the order --recover uses. *)
RepairOrder ==
  <<"qmgr-down", "listener-stopped", "queue-full", "consumer-stall", "dlq-poison">>

Faults ==
  {"qmgr-down", "listener-stopped", "queue-full", "consumer-stall", "dlq-poison"}

(* Faults whose commands are `compose exec mq ...`: they fail while the    *)
(* queue manager's container is stopped.                                   *)
InsideMq == {"listener-stopped", "queue-full", "dlq-poison"}

(* Faults whose recover() polls the lab after its command and throws when  *)
(* the poll times out.                                                     *)
Polled == {"qmgr-down", "queue-full"}

None == "none"
Selected == {Suite[i] : i \in DOMAIN Suite} \cap Faults

VARIABLES
  dirty,      \* faults the lab shows a trace of
  pending,    \* injections whose docker child has neither landed nor died
  pc,         \* where the harness process awaits; "idle" = no process
  k,          \* index of the current experiment (or of the current repair)
  inflight,   \* the variable the signal handler reads
  status,     \* row.status of every row of the run
  recovered,  \* row.recovered: untried, ok, failed
  threw,      \* the current row has an 'experiment error' note
  sound,      \* every probe (and repair) of this process was good so far
  handler,    \* per signal: unset, armed, or what its handler awaits
  target,     \* per signal: the fault its handler captured
  exit,       \* how the last process ended
  runs,       \* processes started
  owed,       \* history: injections attempted and not yet followed by recover()
  late,       \* history: an orphaned injection landed since this process began
  mishap      \* history: a repair command failed although the lab allowed it

vars == <<dirty, pending, pc, k, inflight, status, recovered, threw, sound,
          handler, target, exit, runs, owed, late, mishap>>

lab == <<dirty, pending>>
rows == <<status, recovered, threw>>
signalling == <<handler, target>>
history == <<owed, late, mishap>>

Cur == Suite[k]
Busy == pc # "idle"

Phases == {"idle", "preflight", "gate", "stamp", "inject", "measure", "finally",
           "recover", "verify", "settle", "report",
           "probe", "repair", "reverify", "reprobe"}
HandlerStates == {"unset", "armed", "recover", "verify"}
Exits == {"none", "returned", "130", "130-unrepaired", "killed", "repaired", "unrepaired"}

(* A command or a probe for f can reach what it acts on.                   *)
Reachable(f) == f \in InsideMq => "qmgr-down" \notin dirty

(* clean(f) returns null.                                                  *)
Clean(f) == f \notin dirty /\ Reachable(f)

(* What a command that failed half-way may have left behind.               *)
Spoilt(f) == IF Reachable(f) THEN {dirty, dirty \cup {f}} ELSE {dirty}
Patched(f) == IF Reachable(f) THEN {dirty, dirty \ {f}} ELSE {dirty}

TypeOK ==
  /\ dirty \subseteq Faults
  /\ pending \subseteq Faults
  /\ pc \in Phases
  /\ k \in Nat \ {0}
  /\ inflight \in Faults \cup {None}
  /\ status \in [DOMAIN Suite -> {"FAIL", "SKIP", "WARN", "PASS"}]
  /\ recovered \in [DOMAIN Suite -> {"untried", "ok", "failed"}]
  /\ threw \in BOOLEAN
  /\ sound \in BOOLEAN
  /\ handler \in [Signals -> HandlerStates]
  /\ target \in [Signals -> Faults \cup {None}]
  /\ exit \in Exits
  /\ runs \in 0..MaxRuns
  /\ owed \subseteq Faults
  /\ late \in BOOLEAN
  /\ mishap \in BOOLEAN

(* Rows are born FAIL and keep it until they are graded.                   *)
UngradedRows == [i \in DOMAIN Suite |-> "FAIL"]
UntriedRows == [i \in DOMAIN Suite |-> "untried"]

Init ==
  /\ dirty \in SUBSET Faults
  /\ pending = {}
  /\ pc = "idle"
  /\ k = 1
  /\ inflight = None
  /\ status = UngradedRows
  /\ recovered = UntriedRows
  /\ threw = FALSE
  /\ sound = TRUE
  /\ handler = [s \in Signals |-> "unset"]
  /\ target = [s \in Signals |-> None]
  /\ exit = "none"
  /\ runs = 0
  /\ owed = {}
  /\ late = FALSE
  /\ mishap = FALSE

-----------------------------------------------------------------------------
(* Leaving the process.  Docker children it started live on.               *)

Leave(code) ==
  /\ pc' = "idle"
  /\ exit' = code
  /\ inflight' = None
  /\ handler' = [s \in Signals |-> "unset"]
  /\ target' = [s \in Signals |-> None]
  /\ UNCHANGED <<k, sound, rows, runs>>

Start(phase) ==
  /\ pc = "idle"
  /\ runs < MaxRuns
  /\ runs' = runs + 1
  /\ pc' = phase
  /\ k' = 1
  /\ sound' = TRUE
  /\ status' = UngradedRows
  /\ recovered' = UntriedRows
  /\ threw' = FALSE
  /\ exit' = "none"
  /\ owed' = {}
  /\ late' = FALSE
  /\ mishap' = FALSE
  /\ UNCHANGED <<lab, inflight, signalling>>

-----------------------------------------------------------------------------
(* The pre-flight: one clean() per selected experiment that has an         *)
(* implementation.  A probe that throws, or that docker fails, is dirt.    *)

StartSuite == Start("preflight")

PreflightProbe ==
  /\ pc = "preflight"
  /\ k <= Len(Suite)
  /\ \/ (Cur \in Faults => Clean(Cur)) /\ sound' = sound
     \/ Cur \in Faults /\ sound' = FALSE
  /\ k' = k + 1
  /\ UNCHANGED <<lab, pc, inflight, rows, signalling, exit, runs, history>>

(* Fault for a mutant: the result of the pre-flight is not looked at.      *)
BugPreflightPasses ==
  /\ pc = "preflight"
  /\ k > Len(Suite)
  /\ pc' = "gate"
  /\ k' = 1
  /\ handler' = [s \in Signals |-> "armed"]
  /\ UNCHANGED <<lab, inflight, rows, sound, target, exit, runs, history>>

PreflightPasses ==
  /\ pc = "preflight"
  /\ k > Len(Suite)
  /\ sound
  /\ pc' = "gate"
  /\ k' = 1
  /\ handler' = [s \in Signals |-> "armed"]
  /\ UNCHANGED <<lab, inflight, rows, sound, target, exit, runs, history>>

(* Every row keeps the status FAIL; nothing is injected.                   *)
PreflightRefuses ==
  /\ pc = "preflight"
  /\ k > Len(Suite)
  /\ ~sound
  /\ pc' = "report"
  /\ UNCHANGED <<lab, k, inflight, rows, sound, signalling, exit, runs, history>>

-----------------------------------------------------------------------------
(* The loop over the experiments.                                          *)

(* Fault for a mutant: the loop never moves on.                            *)
BugNextExperiment ==
  /\ pc' = "gate"
  /\ k' = k

NextExperiment ==
  /\ pc' = "gate"
  /\ k' = k + 1

SkipExperiment ==
  /\ pc = "gate"
  /\ k <= Len(Suite)
  /\ Cur \notin Faults
  /\ status' = [status EXCEPT ![k] = "SKIP"]
  /\ NextExperiment
  /\ UNCHANGED <<lab, inflight, recovered, threw, sound, signalling, exit, runs, history>>

SteadyState ==
  /\ pc = "gate"
  /\ k <= Len(Suite)
  /\ Cur \in Faults
  /\ pc' = "stamp"
  /\ UNCHANGED <<lab, k, inflight, rows, sound, signalling, exit, runs, history>>

SteadyStateTimesOut ==
  /\ pc = "gate"
  /\ k <= Len(Suite)
  /\ Cur \in Faults
  /\ NextExperiment
  /\ UNCHANGED <<lab, inflight, rows, sound, signalling, exit, runs, history>>

(* sinkNow() threw before anything was injected: `continue`.               *)
StampThrows ==
  /\ pc = "stamp"
  /\ NextExperiment
  /\ UNCHANGED <<lab, inflight, rows, sound, signalling, exit, runs, history>>

Inject ==
  /\ pc = "stamp"
  /\ pc' = "inject"
  /\ inflight' = Cur
  /\ threw' = FALSE
  /\ pending' = pending \cup {Cur}
  /\ owed' = owed \cup {Cur}
  /\ UNCHANGED <<dirty, k, status, recovered, sound, signalling, exit, runs, late, mishap>>

InjectReturns ==
  /\ pc = "inject"
  /\ Cur \notin pending
  /\ pc' = "measure"
  /\ UNCHANGED <<lab, k, inflight, rows, sound, signalling, exit, runs, history>>

(* Fault for a mutant: recover() is not in a finally block.                *)
BugInjectThrows ==
  /\ pc = "inject"
  /\ pending' = pending \ {Cur}
  /\ dirty' \in Spoilt(Cur)
  /\ threw' = TRUE
  /\ pc' = "settle"
  /\ UNCHANGED <<k, inflight, status, recovered, sound, signalling, exit, runs, history>>

InjectThrows ==
  /\ pc = "inject"
  /\ pending' = pending \ {Cur}
  /\ dirty' \in Spoilt(Cur)
  /\ threw' = TRUE
  /\ pc' = "finally"
  /\ UNCHANGED <<k, inflight, status, recovered, sound, signalling, exit, runs, history>>

(* Detection, hold and the sample during the fault; module Experiment.     *)
Measure ==
  /\ pc = "measure"
  /\ pc' = "finally"
  /\ UNCHANGED <<lab, k, inflight, rows, sound, signalling, exit, runs, history>>

(* The finally block, once the recovery instant is read.                   *)
CallRecover ==
  /\ pc = "finally"
  /\ pc' = "recover"
  /\ owed' = owed \ {Cur}
  /\ UNCHANGED <<lab, k, inflight, rows, sound, signalling, exit, runs, late, mishap>>

RecoverDone(outcome) ==
  /\ pc' = "settle"
  /\ recovered' = [recovered EXCEPT ![k] = outcome]
  /\ inflight' = None

RecoverActs ==
  /\ pc = "recover"
  /\ Reachable(Cur)
  /\ dirty' = dirty \ {Cur}
  /\ IF Cur \in Polled
     THEN pc' = "verify" /\ UNCHANGED <<recovered, inflight>>
     ELSE RecoverDone("ok")
  /\ UNCHANGED <<pending, k, status, threw, sound, signalling, exit, runs, history>>

RecoverThrows ==
  /\ pc = "recover"
  /\ dirty' \in Patched(Cur)
  /\ RecoverDone("failed")
  /\ UNCHANGED <<pending, k, status, threw, sound, signalling, exit, runs, history>>

RecoverVerified ==
  /\ pc = "verify"
  /\ Clean(Cur)
  /\ RecoverDone("ok")
  /\ UNCHANGED <<lab, k, status, threw, sound, signalling, exit, runs, history>>

RecoverTimesOut ==
  /\ pc = "verify"
  /\ RecoverDone("failed")
  /\ UNCHANGED <<lab, k, status, threw, sound, signalling, exit, runs, history>>

Grades == IF threw \/ recovered[k] = "failed" THEN {"FAIL"} ELSE {"FAIL", "WARN", "PASS"}

(* Resolution, post-recovery steady state and grading.                     *)
Grade ==
  /\ pc = "settle"
  /\ \E g \in Grades : status' = [status EXCEPT ![k] = g]
  /\ NextExperiment
  /\ UNCHANGED <<lab, inflight, recovered, threw, sound, signalling, exit, runs, history>>

(* The outer finally removes the listeners; a handler already running      *)
(* goes on beside the report.                                              *)
SuiteReturns ==
  /\ pc = "gate"
  /\ k > Len(Suite)
  /\ pc' = "report"
  /\ handler' = [s \in Signals |-> IF handler[s] = "armed" THEN "unset" ELSE handler[s]]
  /\ UNCHANGED <<lab, k, inflight, rows, sound, target, exit, runs, history>>

Report ==
  /\ pc = "report"
  /\ Leave("returned")
  /\ UNCHANGED <<lab, history>>

-----------------------------------------------------------------------------
(* onSignal: registered with process.once, one per signal.                 *)

SignalRecovers(s) ==
  /\ handler[s] = "armed"
  /\ inflight # None
  /\ handler' = [handler EXCEPT ![s] = "recover"]
  /\ target' = [target EXCEPT ![s] = inflight]
  /\ owed' = owed \ {inflight}
  /\ UNCHANGED <<lab, pc, k, inflight, rows, sound, exit, runs, late, mishap>>

(* Fault for a mutant: the handler exits without looking at inflight.      *)
BugSignalExits(s) ==
  /\ handler[s] = "armed"
  /\ Leave("130")
  /\ UNCHANGED <<lab, history>>

SignalExits(s) ==
  /\ handler[s] = "armed"
  /\ inflight = None
  /\ Leave("130")
  /\ UNCHANGED <<lab, history>>

HandlerActs(s) ==
  /\ handler[s] = "recover"
  /\ Reachable(target[s])
  /\ dirty' = dirty \ {target[s]}
  /\ IF target[s] \in Polled
     THEN /\ handler' = [handler EXCEPT ![s] = "verify"]
          /\ UNCHANGED <<pc, k, inflight, rows, sound, target, exit, runs>>
     ELSE Leave("130")
  /\ UNCHANGED <<pending, history>>

HandlerThrows(s) ==
  /\ handler[s] = "recover"
  /\ dirty' \in Patched(target[s])
  /\ Leave("130-unrepaired")
  /\ UNCHANGED <<pending, history>>

HandlerVerified(s) ==
  /\ handler[s] = "verify"
  /\ Clean(target[s])
  /\ Leave("130")
  /\ UNCHANGED <<lab, history>>

HandlerTimesOut(s) ==
  /\ handler[s] = "verify"
  /\ Leave("130-unrepaired")
  /\ UNCHANGED <<lab, history>>

(* SIGKILL; or a signal whose listener is not registered (pre-flight,      *)
(* report, --recover) or was already consumed by process.once.             *)
Kill ==
  /\ Busy
  /\ Leave("killed")
  /\ UNCHANGED <<lab, history>>

-----------------------------------------------------------------------------
(* Docker: an injection takes effect some time after it was issued, also   *)
(* when the process that issued it is gone; an orphan may also just die.   *)

Awaited(f) == pc = "inject" /\ Cur = f

Lands(f) ==
  /\ f \in pending
  /\ Reachable(f)
  /\ pending' = pending \ {f}
  /\ dirty' = dirty \cup {f}
  /\ late' = (late \/ ~Awaited(f))
  /\ UNCHANGED <<pc, k, inflight, rows, sound, signalling, exit, runs, owed, mishap>>

OrphanDies(f) ==
  /\ f \in pending
  /\ ~Awaited(f)
  /\ pending' = pending \ {f}
  /\ UNCHANGED <<dirty, pc, k, inflight, rows, sound, signalling, exit, runs, history>>

-----------------------------------------------------------------------------
(* node harness/run.mjs --recover: every fault of the map, in map order;   *)
(* an exception is caught per fault and makes the result not ok.           *)

StartRepair == Start("probe")

Fix == RepairOrder[k]
NextRepair == pc' = "probe" /\ k' = k + 1

ProbeClean ==
  /\ pc = "probe"
  /\ k <= Len(RepairOrder)
  /\ Clean(Fix)
  /\ pc' = "reprobe"
  /\ UNCHANGED <<lab, k, inflight, rows, sound, signalling, exit, runs, history>>

(* A container fault is probed with composePs(), which answers [] when     *)
(* docker fails: the service is then "absent", that is dirty.              *)
ReportsDirt(f) ==
  \/ f \in dirty /\ Reachable(f) /\ mishap' = mishap
  \/ f \notin InsideMq /\ mishap' = TRUE

ProbeDirty ==
  /\ pc = "probe"
  /\ k <= Len(RepairOrder)
  /\ ReportsDirt(Fix)
  /\ pc' = "repair"
  /\ UNCHANGED <<lab, k, inflight, rows, sound, signalling, exit, runs, owed, late>>

(* Fault for a mutant: an exception caught per fault counts as ok.         *)
BugRepairThrows ==
  /\ \/ pc \in {"probe", "reprobe"} /\ k <= Len(RepairOrder) /\ Fix \in InsideMq
     \/ pc \in {"repair", "reverify"}
  /\ dirty' \in IF pc = "repair" THEN Patched(Fix) ELSE {dirty}
  /\ mishap' = (mishap \/ IF pc = "reverify" THEN Clean(Fix) ELSE Reachable(Fix))
  /\ NextRepair
  /\ UNCHANGED <<pending, inflight, rows, sound, signalling, exit, runs, owed, late>>

(* clean() or recover() threw: forced when the command cannot reach the    *)
(* queue manager, otherwise a mishap of docker or runmqsc.                 *)
RepairThrows ==
  /\ \/ pc \in {"probe", "reprobe"} /\ k <= Len(RepairOrder) /\ Fix \in InsideMq
     \/ pc \in {"repair", "reverify"}
  /\ dirty' \in IF pc = "repair" THEN Patched(Fix) ELSE {dirty}
  /\ mishap' = (mishap \/ IF pc = "reverify" THEN Clean(Fix) ELSE Reachable(Fix))
  /\ sound' = FALSE
  /\ NextRepair
  /\ UNCHANGED <<pending, inflight, rows, signalling, exit, runs, owed, late>>

RepairActs ==
  /\ pc = "repair"
  /\ Reachable(Fix)
  /\ dirty' = dirty \ {Fix}
  /\ pc' = IF Fix \in Polled THEN "reverify" ELSE "reprobe"
  /\ UNCHANGED <<pending, k, inflight, rows, sound, signalling, exit, runs, history>>

RepairVerified ==
  /\ pc = "reverify"
  /\ Clean(Fix)
  /\ pc' = "reprobe"
  /\ UNCHANGED <<lab, k, inflight, rows, sound, signalling, exit, runs, history>>

ReprobeClean ==
  /\ pc = "reprobe"
  /\ Clean(Fix)
  /\ NextRepair
  /\ UNCHANGED <<lab, inflight, rows, sound, signalling, exit, runs, history>>

ReprobeDirty ==
  /\ pc = "reprobe"
  /\ ReportsDirt(Fix)
  /\ sound' = FALSE
  /\ NextRepair
  /\ UNCHANGED <<lab, inflight, rows, signalling, exit, runs, owed, late>>

RepairEnds ==
  /\ pc = "probe"
  /\ k > Len(RepairOrder)
  /\ Leave(IF sound THEN "repaired" ELSE "unrepaired")
  /\ UNCHANGED <<lab, history>>

-----------------------------------------------------------------------------
Main ==
  \/ PreflightProbe \/ PreflightPasses \/ PreflightRefuses
  \/ SkipExperiment \/ SteadyState \/ SteadyStateTimesOut
  \/ StampThrows \/ Inject \/ InjectReturns \/ InjectThrows \/ Measure
  \/ CallRecover \/ RecoverActs \/ RecoverThrows \/ RecoverVerified \/ RecoverTimesOut
  \/ Grade \/ SuiteReturns \/ Report

Repair ==
  \/ ProbeClean \/ ProbeDirty \/ RepairThrows \/ RepairActs \/ RepairVerified
  \/ ReprobeClean \/ ReprobeDirty \/ RepairEnds

Handler(s) ==
  \/ SignalRecovers(s) \/ SignalExits(s)
  \/ HandlerActs(s) \/ HandlerThrows(s) \/ HandlerVerified(s) \/ HandlerTimesOut(s)

Docker == \E f \in Faults : Lands(f) \/ OrphanDies(f)

Next ==
  \/ StartSuite \/ StartRepair
  \/ Main \/ Repair \/ Kill \/ Docker
  \/ \E s \in Signals : Handler(s)

Spec == Init /\ [][Next]_vars

(* The event loop of the harness runs, and no docker child it awaits hangs *)
(* for ever (pexec sets no timeout of its own, so this is assumed).        *)
Settles(s) ==
  HandlerActs(s) \/ HandlerThrows(s) \/ HandlerVerified(s) \/ HandlerTimesOut(s)

FairSpec ==
  /\ Spec
  /\ WF_vars(Main)
  /\ WF_vars(Repair)
  /\ \A s \in Signals : WF_vars(Settles(s))

-----------------------------------------------------------------------------
(* Properties.                                                             *)

(* "recover() always runs once inject() was attempted": an injection that  *)
(* has not been followed by recover() is the one the signal handler would  *)
(* recover, or its process was cut short.  A suite that returned, or whose *)
(* loop moved on to another experiment, owes nothing.                      *)
RecoverFollowsInject ==
  owed # {} =>
    \/ Busy /\ owed = {inflight}
    \/ exit \in {"killed", "130", "130-unrepaired"}

(* No row of this run says that its recover() failed.                      *)
AllRecovered == \A i \in DOMAIN Suite : recovered[i] # "failed"

(* What the handler does guarantee: when it exits 130 with its recover()   *)
(* done, with no injection still in docker's hands and with the loop not   *)
(* gone on to another experiment, no selected fault is left in the lab.    *)
InterruptRepairs ==
  [][ (/\ exit' = "130" /\ exit # "130"
       /\ pending = {} /\ ~late /\ AllRecovered
       /\ \A s \in Signals : target[s] # None => inflight \in {None, target[s]})
      => dirty' \cap Selected = {} ]_vars

(* The pre-flight and the recovery of each row together: as long as every  *)
(* recover() of the run worked and no orphan of an earlier process landed, *)
(* no experiment injects into a lab that shows a selected fault.           *)
InjectsIntoCleanLab ==
  [][ Inject /\ AllRecovered /\ ~late => dirty \cap Selected = {} ]_vars

(* A suite that returns with no failed recover() leaves the faults it      *)
(* selected clean, whatever threw or timed out on the way.                 *)
ReturnsCleanLab ==
  [][ (Report /\ sound /\ AllRecovered /\ ~late) => dirty \cap Selected = {} ]_vars

(* A row graded PASS or WARN names an experiment whose fault is gone when  *)
(* the report is written.                                                  *)
PassMeansRepaired ==
  [][ Report /\ ~late =>
        \A i \in DOMAIN Suite :
          status[i] \in {"PASS", "WARN"} => Suite[i] \notin dirty ]_vars

(* --recover exits 0 ("lab clean") only on a clean lab, unless an orphaned *)
(* injection landed behind its back.                                       *)
RepairIsHonest ==
  [][ (RepairEnds /\ exit' = "repaired" /\ ~late) => dirty = {} ]_vars

(* One pass of --recover is enough: whatever faults are combined in the    *)
(* lab, it says "NOT clean" only when a command failed or an orphan        *)
(* landed.  The queue manager comes first because the other faults are     *)
(* probed and repaired inside its container.                               *)
RepairIsComplete ==
  [][ (RepairEnds /\ exit' = "unrepaired") => mishap \/ late ]_vars

(* Every process ends: each wait of the suite, the handler and --recover   *)
(* is bounded.                                                             *)
Terminates == Busy ~> ~Busy

-----------------------------------------------------------------------------
(* Each row of the suite as ExperimentRow sees it.                         *)

RowStage(n) ==
  IF ~Busy \/ pc \in {"probe", "repair", "reverify", "reprobe"} THEN "off"
  ELSE IF pc = "report" \/ (pc # "preflight" /\ n < k) THEN "done"
  ELSE IF n > k \/ pc \in {"preflight", "gate", "stamp"} THEN "waiting"
  ELSE CASE pc = "inject" -> "injecting"
         [] pc = "measure" -> "measuring"
         [] pc \in {"finally", "recover", "verify"} -> "recovering"
         [] OTHER -> "settling"

RowFailed(n) ==
  /\ RowStage(n) \in {"recovering", "settling"}
  /\ threw \/ recovered[n] = "failed"

RowOf(n) == INSTANCE ExperimentRow WITH
              stage <- RowStage(n),
              failed <- RowFailed(n),
              grade <- status[n],
              broken <- Suite[n] \in dirty,
              orphaned <- late

(* However the rows share the loop, the lab, the handlers and docker's     *)
(* orphans, each by itself is an experiment as ExperimentRow has it: none  *)
(* gets from inject() to a grade past recover(), none dirties the lab but  *)
(* in its own injection, and none is graded on what another did.           *)
RowsKeepTheContract ==
  /\ \A n \in DOMAIN Suite : RowOf(n)!Init
  /\ [][\A n \in DOMAIN Suite : [RowOf(n)!Next]_(RowOf(n)!row)]_vars

-----------------------------------------------------------------------------
(* What the documentation says, which the code does not keep.              *)

(* chaos.mjs: "SIGINT/SIGTERM recover the in-flight experiment before      *)
(* exiting 130" - so after a handler that reported success nothing of the  *)
(* experiment appears in the lab.                                          *)
InterruptLeavesCleanLab ==
  (exit = "130" /\ pc = "idle" /\ AllRecovered) => dirty \cap Selected = {}

=============================================================================

--------------------------- MODULE ChaosSuiteProofs ---------------------------
(***************************************************************************)
(* What the chaos suite guarantees for every selection of experiments, any *)
(* signals and any number of processes started one after another.  The     *)
(* invariant follows the lab through a run: before the injections, during  *)
(* one, after its recovery, and through --recover.                         *)
(***************************************************************************)
EXTENDS ChaosSuite, TLAPS

(* From the call of inject() to the end of recover().                      *)
Holding == {"inject", "measure", "finally", "recover", "verify"}

Experimenting == Holding \cup {"stamp", "settle"}

Repairing == {"repair", "reverify", "reprobe"}

Places ==
  /\ pc \in Experimenting => k \in DOMAIN Suite /\ Cur \in Faults
  /\ pc \in Holding => inflight = Cur
  /\ pc \in Repairing => k \in 1..5

(* What is owed is owed by the experiment in flight, until its recover().  *)
Owing ==
  /\ Busy => owed \subseteq {inflight}
  /\ pc \notin {"idle", "inject", "measure", "finally"} => owed = {}
  /\ pc = "idle" /\ owed # {} => exit \in {"killed", "130", "130-unrepaired"}

(* The faults --recover has passed with good probes are gone.              *)
RepairedSoFar ==
  pc \in Repairing \cup {"probe"} /\ sound /\ ~late =>
    \A j \in 1..5 : j < k => RepairOrder[j] \notin dirty

(* --recover loses its good result only to a failed command or an orphan:  *)
(* past the first fault of the map every command reaches its target, and   *)
(* what was repaired stays so.                                             *)
Blameless ==
  pc \in Repairing \cup {"probe"} /\ ~mishap /\ ~late =>
    sound /\ (pc \in {"reverify", "reprobe"} => Clean(Fix))

(* The handlers live with the loop, which a bad pre-flight never enters; a *)
(* running one has captured a fault.                                       *)
Handling ==
  \A s \in Signals :
    /\ handler[s] # "unset" => pc \in Experimenting \cup {"gate", "report"} /\ sound
    /\ handler[s] = "armed" => pc # "report"
    /\ handler[s] \in {"recover", "verify"} => target[s] # None

(* A row has its final status only once the loop is past it.               *)
UngradedAhead ==
  /\ pc = "preflight" => \A i \in DOMAIN Suite : status[i] = "FAIL"
  /\ pc \in Experimenting \cup {"gate"} =>
       \A i \in DOMAIN Suite : i >= k => status[i] = "FAIL"

(* A recovery fails only in a row the loop has reached.                    *)
UntriedAhead ==
  /\ pc = "preflight" => AllRecovered
  /\ pc \in (Experimenting \ {"settle"}) \cup {"gate"} =>
       \A i \in DOMAIN Suite : i >= k => recovered[i] # "failed"
  /\ pc = "settle" => \A i \in DOMAIN Suite : i > k => recovered[i] # "failed"

(* A graded row's fault is gone.                                           *)
GradedRepaired ==
  ~late => \A i \in DOMAIN Suite : status[i] \in {"PASS", "WARN"} => Suite[i] \notin dirty

RecoveredRepaired ==
  pc = "settle" /\ ~late /\ recovered[k] # "failed" => Cur \notin dirty

(* The selected faults the pre-flight has probed.                          *)
ProbedSoFar ==
  pc = "preflight" /\ sound /\ ~late =>
    \A j \in DOMAIN Suite : j < k => Suite[j] \notin dirty

(* Between two experiments none of the selected faults is in the lab, and  *)
(* during one at most its own.                                             *)
CleanBetween ==
  /\ pc \in {"gate", "stamp", "settle"} /\ AllRecovered /\ ~late => dirty \cap Selected = {}
  /\ pc = "report" /\ sound /\ AllRecovered /\ ~late => dirty \cap Selected = {}
  /\ pc \in Holding /\ AllRecovered /\ ~late => dirty \cap Selected \subseteq {Cur}

Inductive ==
  /\ TypeOK
  /\ Places
  /\ Owing
  /\ RepairedSoFar
  /\ Blameless
  /\ Handling
  /\ UngradedAhead
  /\ UntriedAhead
  /\ GradedRepaired
  /\ RecoveredRepaired
  /\ ProbedSoFar
  /\ CleanBetween

-----------------------------------------------------------------------------
(* The rows are numbered from 1, as the experiments of the suite.          *)
LEMMA SuiteRows == DOMAIN Suite = 1..Len(Suite) /\ Len(Suite) \in Nat
  BY SuiteAssumption

USE SuiteAssumption, SignalsAssumption, MaxRunsAssumption
USE DEF Holding, Experimenting, Repairing, Cur, Busy, Clean, Reachable, Fix, RepairOrder,
       Faults, InsideMq, Polled, Selected, AllRecovered, None, lab, rows, signalling, history

-----------------------------------------------------------------------------
(* Starting a process resets its rows and its history.                     *)
LEMMA KeepsStartSuite ==
  ASSUME Inductive, StartSuite
  PROVE  Inductive'
<1> USE DEF Inductive, TypeOK, Places, StartSuite, Start
<1>1. TypeOK'
  <2>1. sound' \in BOOLEAN /\ threw' \in BOOLEAN /\ late' \in BOOLEAN /\ mishap' \in BOOLEAN
    BY Zenon
  <2>2. runs' \in 0..MaxRuns
    OBVIOUS
  <2>3. /\ status' \in [DOMAIN Suite -> {"FAIL", "SKIP", "WARN", "PASS"}]
        /\ recovered' \in [DOMAIN Suite -> {"untried", "ok", "failed"}]
    BY DEF UngradedRows, UntriedRows
  <2> QED
    BY <2>1, <2>2, <2>3 DEF Phases, HandlerStates, Exits
<1>2. Places' /\ Owing'
  BY DEF Owing
<1>3. RepairedSoFar' /\ ProbedSoFar'
  BY DEF RepairedSoFar, ProbedSoFar
<1>4. UntriedAhead'
  BY DEF UntriedAhead, UngradedRows, UntriedRows
<1>5. UngradedAhead' /\ GradedRepaired' /\ RecoveredRepaired'
  BY DEF UngradedAhead, GradedRepaired, RecoveredRepaired, UngradedRows, UntriedRows
<1>6. CleanBetween'
  BY DEF UntriedAhead, RecoveredRepaired, ProbedSoFar, CleanBetween
<1>7. Blameless'
  BY DEF Blameless, RepairedSoFar
<1>8. Handling'
  BY DEF Handling
<1> QED
  BY <1>1, <1>2, <1>3, <1>4, <1>5, <1>6, <1>7, <1>8

LEMMA KeepsStartRepair ==
  ASSUME Inductive, StartRepair
  PROVE  Inductive'
<1> USE DEF Inductive, TypeOK, Places, StartRepair, Start
<1>1. TypeOK'
  <2>1. sound' \in BOOLEAN /\ threw' \in BOOLEAN /\ late' \in BOOLEAN /\ mishap' \in BOOLEAN
    BY Zenon
  <2>2. runs' \in 0..MaxRuns
    OBVIOUS
  <2>3. /\ status' \in [DOMAIN Suite -> {"FAIL", "SKIP", "WARN", "PASS"}]
        /\ recovered' \in [DOMAIN Suite -> {"untried", "ok", "failed"}]
    BY DEF UngradedRows, UntriedRows
  <2> QED
    BY <2>1, <2>2, <2>3 DEF Phases, HandlerStates, Exits
<1>2. Places' /\ Owing'
  BY DEF Owing
<1>3. RepairedSoFar' /\ ProbedSoFar'
  BY DEF RepairedSoFar, ProbedSoFar
<1>4. UntriedAhead'
  BY DEF UntriedAhead, UngradedRows, UntriedRows
<1>5. UngradedAhead' /\ GradedRepaired' /\ RecoveredRepaired'
  BY DEF UngradedAhead, GradedRepaired, RecoveredRepaired, UngradedRows, UntriedRows
<1>6. CleanBetween'
  BY DEF UntriedAhead, RecoveredRepaired, ProbedSoFar, CleanBetween
<1>7. Blameless'
  BY DEF Blameless, RepairedSoFar
<1>8. Handling'
  BY DEF Handling
<1> QED
  BY <1>1, <1>2, <1>3, <1>4, <1>5, <1>6, <1>7, <1>8

-----------------------------------------------------------------------------
(* The pre-flight.  A good probe adds one fault to those seen clean; the   *)
(* last one covers the whole selection, which is where the loop begins.    *)
LEMMA KeepsPreflightProbe ==
  ASSUME Inductive, PreflightProbe
  PROVE  Inductive'
<1> USE DEF Inductive, TypeOK, Places, PreflightProbe
<1>1. TypeOK'
  <2>1. sound' \in BOOLEAN
    BY Zenon
  <2> QED
    BY <2>1 DEF Phases, HandlerStates, Exits
<1>2. Places' /\ Owing'
  BY DEF Owing
<1>2a. ProbedSoFar'
  <2> SUFFICES ASSUME sound', ~late', NEW j \in DOMAIN Suite, j < k + 1
               PROVE  Suite[j] \notin dirty
    BY DEF ProbedSoFar
  <2>1. CASE j = k
    BY <2>1 DEF ProbedSoFar
  <2>2. CASE j < k
    BY <2>2 DEF ProbedSoFar
  <2> QED
    BY <2>1, <2>2
<1>3. RepairedSoFar' /\ ProbedSoFar'
  BY <1>2a DEF RepairedSoFar
<1>4. UntriedAhead'
  BY DEF UntriedAhead
<1>5. UngradedAhead' /\ GradedRepaired' /\ RecoveredRepaired'
  BY DEF UngradedAhead, GradedRepaired, RecoveredRepaired
<1>6. CleanBetween'
  BY DEF UntriedAhead, RecoveredRepaired, ProbedSoFar, CleanBetween
<1>7. Blameless'
  BY DEF Blameless, RepairedSoFar
<1>8. Handling'
  BY DEF Handling
<1> QED
  BY <1>1, <1>2, <1>3, <1>4, <1>5, <1>6, <1>7, <1>8

LEMMA KeepsPreflightPasses ==
  ASSUME Inductive, PreflightPasses
  PROVE  Inductive'
<1> USE DEF Inductive, TypeOK, Places, PreflightPasses
<1>1. TypeOK'
  BY DEF Phases, HandlerStates, Exits
<1>2. Places' /\ Owing'
  BY DEF Owing
<1>3. RepairedSoFar' /\ ProbedSoFar'
  BY DEF RepairedSoFar, ProbedSoFar
<1>4. UntriedAhead'
  BY DEF UntriedAhead
<1>5. UngradedAhead' /\ GradedRepaired' /\ RecoveredRepaired'
  BY DEF UngradedAhead, GradedRepaired, RecoveredRepaired
<1>6. CleanBetween'
  BY DEF UntriedAhead, RecoveredRepaired, ProbedSoFar, CleanBetween
<1>7. Blameless'
  BY DEF Blameless, RepairedSoFar
<1>8. Handling'
  BY DEF Handling
<1> QED
  BY <1>1, <1>2, <1>3, <1>4, <1>5, <1>6, <1>7, <1>8

LEMMA KeepsPreflightRefuses ==
  ASSUME Inductive, PreflightRefuses
  PROVE  Inductive'
<1> USE DEF Inductive, TypeOK, Places, PreflightRefuses
<1>1. TypeOK'
  BY DEF Phases, HandlerStates, Exits
<1>2. Places' /\ Owing'
  BY DEF Owing
<1>3. RepairedSoFar' /\ ProbedSoFar'
  BY DEF RepairedSoFar, ProbedSoFar
<1>4. UntriedAhead'
  BY DEF UntriedAhead
<1>5. UngradedAhead' /\ GradedRepaired' /\ RecoveredRepaired'
  BY DEF UngradedAhead, GradedRepaired, RecoveredRepaired
<1>6. CleanBetween'
  BY DEF UntriedAhead, RecoveredRepaired, ProbedSoFar, CleanBetween
<1>7. Blameless'
  BY DEF Blameless, RepairedSoFar
<1>8. Handling'
  BY DEF Handling
<1> QED
  BY <1>1, <1>2, <1>3, <1>4, <1>5, <1>6, <1>7, <1>8

-----------------------------------------------------------------------------
(* The head of the loop: nothing is injected, and the rows from k on are   *)
(* still to be graded.                                                     *)
LEMMA KeepsSkipExperiment ==
  ASSUME Inductive, SkipExperiment
  PROVE  Inductive'
<1> USE DEF Inductive, TypeOK, Places, SkipExperiment, NextExperiment
<1>1. TypeOK'
  <2>1. status' \in [DOMAIN Suite -> {"FAIL", "SKIP", "WARN", "PASS"}]
    OBVIOUS
  <2> QED
    BY <2>1 DEF Phases, HandlerStates, Exits
<1>2. Places' /\ Owing'
  BY DEF Owing
<1>3. RepairedSoFar' /\ ProbedSoFar'
  BY DEF RepairedSoFar, ProbedSoFar
<1>4. UntriedAhead'
  BY SuiteRows DEF UntriedAhead
<1>3a. \A i \in DOMAIN Suite : i # k => status'[i] = status[i]
  OBVIOUS
<1>3b. k \in DOMAIN Suite
  BY SuiteRows
<1>3c. status'[k] = "SKIP"
  BY <1>3b
<1>5. UngradedAhead' /\ GradedRepaired' /\ RecoveredRepaired'
  BY <1>3a, <1>3c, SuiteRows DEF UngradedAhead, GradedRepaired, RecoveredRepaired
<1>6. CleanBetween'
  BY DEF UntriedAhead, RecoveredRepaired, ProbedSoFar, CleanBetween
<1>7. Blameless'
  BY DEF Blameless, RepairedSoFar
<1>8. Handling'
  BY DEF Handling
<1> QED
  BY <1>1, <1>2, <1>3, <1>4, <1>5, <1>6, <1>7, <1>8

LEMMA KeepsSteadyState ==
  ASSUME Inductive, SteadyState
  PROVE  Inductive'
<1> USE DEF Inductive, TypeOK, Places, SteadyState
<1>1. TypeOK'
  BY DEF Phases, HandlerStates, Exits
<1>2. Places' /\ Owing'
  BY DEF Owing
<1>3. RepairedSoFar' /\ ProbedSoFar'
  BY DEF RepairedSoFar, ProbedSoFar
<1>4. UntriedAhead'
  BY DEF UntriedAhead
<1>5. UngradedAhead' /\ GradedRepaired' /\ RecoveredRepaired'
  BY DEF UngradedAhead, GradedRepaired, RecoveredRepaired
<1>6. CleanBetween'
  BY DEF UntriedAhead, RecoveredRepaired, ProbedSoFar, CleanBetween
<1>7. Blameless'
  BY DEF Blameless, RepairedSoFar
<1>8. Handling'
  BY DEF Handling
<1> QED
  BY <1>1, <1>2, <1>3, <1>4, <1>5, <1>6, <1>7, <1>8

LEMMA KeepsSteadyStateTimesOut ==
  ASSUME Inductive, SteadyStateTimesOut
  PROVE  Inductive'
<1> USE DEF Inductive, TypeOK, Places, SteadyStateTimesOut, NextExperiment
<1>1. TypeOK'
  BY DEF Phases, HandlerStates, Exits
<1>2. Places' /\ Owing'
  BY DEF Owing
<1>3. RepairedSoFar' /\ ProbedSoFar'
  BY DEF RepairedSoFar, ProbedSoFar
<1>4. UntriedAhead'
  BY DEF UntriedAhead
<1>5. UngradedAhead' /\ GradedRepaired' /\ RecoveredRepaired'
  BY DEF UngradedAhead, GradedRepaired, RecoveredRepaired
<1>6. CleanBetween'
  BY DEF UntriedAhead, RecoveredRepaired, ProbedSoFar, CleanBetween
<1>7. Blameless'
  BY DEF Blameless, RepairedSoFar
<1>8. Handling'
  BY DEF Handling
<1> QED
  BY <1>1, <1>2, <1>3, <1>4, <1>5, <1>6, <1>7, <1>8

LEMMA KeepsStampThrows ==
  ASSUME Inductive, StampThrows
  PROVE  Inductive'
<1> USE DEF Inductive, TypeOK, Places, StampThrows, NextExperiment
<1>1. TypeOK'
  BY DEF Phases, HandlerStates, Exits
<1>2. Places' /\ Owing'
  BY DEF Owing
<1>3. RepairedSoFar' /\ ProbedSoFar'
  BY DEF RepairedSoFar, ProbedSoFar
<1>4. UntriedAhead'
  BY DEF UntriedAhead
<1>5. UngradedAhead' /\ GradedRepaired' /\ RecoveredRepaired'
  BY DEF UngradedAhead, GradedRepaired, RecoveredRepaired
<1>6. CleanBetween'
  BY DEF UntriedAhead, RecoveredRepaired, ProbedSoFar, CleanBetween
<1>7. Blameless'
  BY DEF Blameless, RepairedSoFar
<1>8. Handling'
  BY DEF Handling
<1> QED
  BY <1>1, <1>2, <1>3, <1>4, <1>5, <1>6, <1>7, <1>8

-----------------------------------------------------------------------------
(* From inject() to the call of recover().  At most the fault of the       *)
(* current row enters the lab, and its row is not graded yet.              *)
LEMMA KeepsInject ==
  ASSUME Inductive, Inject
  PROVE  Inductive'
<1> USE DEF Inductive, TypeOK, Places, Inject
<1>1. TypeOK'
  BY DEF Phases, HandlerStates, Exits
<1>2. Places' /\ Owing'
  BY DEF Owing
<1>3. RepairedSoFar' /\ ProbedSoFar'
  BY DEF RepairedSoFar, ProbedSoFar
<1>4. UntriedAhead'
  BY DEF UntriedAhead
<1>5. UngradedAhead' /\ GradedRepaired' /\ RecoveredRepaired'
  BY DEF UngradedAhead, GradedRepaired, RecoveredRepaired
<1>6. CleanBetween'
  BY DEF UntriedAhead, RecoveredRepaired, ProbedSoFar, CleanBetween
<1>7. Blameless'
  BY DEF Blameless, RepairedSoFar
<1>8. Handling'
  BY DEF Handling
<1> QED
  BY <1>1, <1>2, <1>3, <1>4, <1>5, <1>6, <1>7, <1>8

LEMMA KeepsInjectReturns ==
  ASSUME Inductive, InjectReturns
  PROVE  Inductive'
<1> USE DEF Inductive, TypeOK, Places, InjectReturns
<1>1. TypeOK'
  BY DEF Phases, HandlerStates, Exits
<1>2. Places' /\ Owing'
  BY DEF Owing
<1>3. RepairedSoFar' /\ ProbedSoFar'
  BY DEF RepairedSoFar, ProbedSoFar
<1>4. UntriedAhead'
  BY DEF UntriedAhead
<1>5. UngradedAhead' /\ GradedRepaired' /\ RecoveredRepaired'
  BY DEF UngradedAhead, GradedRepaired, RecoveredRepaired
<1>6. CleanBetween'
  BY DEF UntriedAhead, RecoveredRepaired, ProbedSoFar, CleanBetween
<1>7. Blameless'
  BY DEF Blameless, RepairedSoFar
<1>8. Handling'
  BY DEF Handling
<1> QED
  BY <1>1, <1>2, <1>3, <1>4, <1>5, <1>6, <1>7, <1>8

LEMMA KeepsInjectThrows ==
  ASSUME Inductive, InjectThrows
  PROVE  Inductive'
<1> USE DEF Inductive, TypeOK, Places, InjectThrows, Spoilt
<1>1. TypeOK'
  BY ZenonT(30) DEF Phases, HandlerStates, Exits
<1>2. Places' /\ Owing'
  BY DEF Owing
<1>3. RepairedSoFar' /\ ProbedSoFar'
  BY DEF RepairedSoFar, ProbedSoFar
<1>4. UntriedAhead'
  BY DEF UntriedAhead
<1>5. UngradedAhead' /\ GradedRepaired' /\ RecoveredRepaired'
  BY DEF UngradedAhead, GradedRepaired, RecoveredRepaired
<1>6. CleanBetween'
  BY DEF UntriedAhead, RecoveredRepaired, ProbedSoFar, CleanBetween
<1>7. Blameless'
  BY DEF Blameless, RepairedSoFar
<1>8. Handling'
  BY DEF Handling
<1> QED
  BY <1>1, <1>2, <1>3, <1>4, <1>5, <1>6, <1>7, <1>8

LEMMA KeepsMeasure ==
  ASSUME Inductive, Measure
  PROVE  Inductive'
<1> USE DEF Inductive, TypeOK, Places, Measure
<1>1. TypeOK'
  BY DEF Phases, HandlerStates, Exits
<1>2. Places' /\ Owing'
  BY DEF Owing
<1>3. RepairedSoFar' /\ ProbedSoFar'
  BY DEF RepairedSoFar, ProbedSoFar
<1>4. UntriedAhead'
  BY DEF UntriedAhead
<1>5. UngradedAhead' /\ GradedRepaired' /\ RecoveredRepaired'
  BY DEF UngradedAhead, GradedRepaired, RecoveredRepaired
<1>6. CleanBetween'
  BY DEF UntriedAhead, RecoveredRepaired, ProbedSoFar, CleanBetween
<1>7. Blameless'
  BY DEF Blameless, RepairedSoFar
<1>8. Handling'
  BY DEF Handling
<1> QED
  BY <1>1, <1>2, <1>3, <1>4, <1>5, <1>6, <1>7, <1>8

LEMMA KeepsCallRecover ==
  ASSUME Inductive, CallRecover
  PROVE  Inductive'
<1> USE DEF Inductive, TypeOK, Places, CallRecover
<1>1. TypeOK'
  BY ZenonT(30) DEF Phases, HandlerStates, Exits
<1>2. Places' /\ Owing'
  BY DEF Owing
<1>3. RepairedSoFar' /\ ProbedSoFar'
  BY DEF RepairedSoFar, ProbedSoFar
<1>4. UntriedAhead'
  BY DEF UntriedAhead
<1>5. UngradedAhead' /\ GradedRepaired' /\ RecoveredRepaired'
  BY DEF UngradedAhead, GradedRepaired, RecoveredRepaired
<1>6. CleanBetween'
  BY DEF UntriedAhead, RecoveredRepaired, ProbedSoFar, CleanBetween
<1>7. Blameless'
  BY DEF Blameless, RepairedSoFar
<1>8. Handling'
  BY DEF Handling
<1> QED
  BY <1>1, <1>2, <1>3, <1>4, <1>5, <1>6, <1>7, <1>8

-----------------------------------------------------------------------------
(* recover().  What was owed is paid; either the fault is gone or the row  *)
(* says that recovery failed.                                              *)
LEMMA KeepsRecoverActs ==
  ASSUME Inductive, RecoverActs
  PROVE  Inductive'
<1> USE DEF Inductive, TypeOK, Places, RecoverActs, RecoverDone
<1>1. TypeOK'
  BY ZenonT(30) DEF Phases, HandlerStates, Exits
<1>2. Places' /\ Owing'
  BY DEF Owing
<1>3. RepairedSoFar' /\ ProbedSoFar'
  BY DEF RepairedSoFar, ProbedSoFar
<1>4. UntriedAhead'
  BY SuiteRows DEF UntriedAhead
<1>5. UngradedAhead' /\ GradedRepaired' /\ RecoveredRepaired'
  BY DEF UngradedAhead, GradedRepaired, RecoveredRepaired
<1>6. CleanBetween'
  <2>1. AllRecovered' => AllRecovered
    BY DEF UntriedAhead
  <2>2. Cur \notin dirty'
    OBVIOUS
  <2> QED
    BY <2>1, <2>2 DEF CleanBetween
<1>7. Blameless'
  BY DEF Blameless, RepairedSoFar
<1>8. Handling'
  BY DEF Handling
<1> QED
  BY <1>1, <1>2, <1>3, <1>4, <1>5, <1>6, <1>7, <1>8

LEMMA KeepsRecoverThrows ==
  ASSUME Inductive, RecoverThrows
  PROVE  Inductive'
<1> USE DEF Inductive, TypeOK, Places, RecoverThrows, Patched, RecoverDone
<1>1. TypeOK'
  BY DEF Phases, HandlerStates, Exits
<1>2. Places' /\ Owing'
  BY DEF Owing
<1>3. RepairedSoFar' /\ ProbedSoFar'
  BY DEF RepairedSoFar, ProbedSoFar
<1>4. UntriedAhead'
  BY SuiteRows DEF UntriedAhead
<1>5. UngradedAhead' /\ GradedRepaired' /\ RecoveredRepaired'
  BY DEF UngradedAhead, GradedRepaired, RecoveredRepaired
<1>6. CleanBetween'
  BY DEF UntriedAhead, RecoveredRepaired, ProbedSoFar, CleanBetween
<1>7. Blameless'
  BY DEF Blameless, RepairedSoFar
<1>8. Handling'
  BY DEF Handling
<1> QED
  BY <1>1, <1>2, <1>3, <1>4, <1>5, <1>6, <1>7, <1>8

LEMMA KeepsRecoverVerified ==
  ASSUME Inductive, RecoverVerified
  PROVE  Inductive'
<1> USE DEF Inductive, TypeOK, Places, RecoverVerified, RecoverDone
<1>1. TypeOK'
  BY DEF Phases, HandlerStates, Exits
<1>2. Places' /\ Owing'
  BY DEF Owing
<1>3. RepairedSoFar' /\ ProbedSoFar'
  BY DEF RepairedSoFar, ProbedSoFar
<1>4. UntriedAhead'
  BY SuiteRows DEF UntriedAhead
<1>5. UngradedAhead' /\ GradedRepaired' /\ RecoveredRepaired'
  BY DEF UngradedAhead, GradedRepaired, RecoveredRepaired
<1>6. CleanBetween'
  <2>1. AllRecovered' => AllRecovered
    BY DEF UntriedAhead
  <2>2. Cur \notin dirty'
    OBVIOUS
  <2> QED
    BY <2>1, <2>2 DEF CleanBetween
<1>7. Blameless'
  BY DEF Blameless, RepairedSoFar
<1>8. Handling'
  BY DEF Handling
<1> QED
  BY <1>1, <1>2, <1>3, <1>4, <1>5, <1>6, <1>7, <1>8

LEMMA KeepsRecoverTimesOut ==
  ASSUME Inductive, RecoverTimesOut
  PROVE  Inductive'
<1> USE DEF Inductive, TypeOK, Places, RecoverTimesOut, RecoverDone
<1>1. TypeOK'
  BY DEF Phases, HandlerStates, Exits
<1>2. Places' /\ Owing'
  BY DEF Owing
<1>3. RepairedSoFar' /\ ProbedSoFar'
  BY DEF RepairedSoFar, ProbedSoFar
<1>4. UntriedAhead'
  BY SuiteRows DEF UntriedAhead
<1>5. UngradedAhead' /\ GradedRepaired' /\ RecoveredRepaired'
  BY DEF UngradedAhead, GradedRepaired, RecoveredRepaired
<1>6. CleanBetween'
  BY DEF UntriedAhead, RecoveredRepaired, ProbedSoFar, CleanBetween
<1>7. Blameless'
  BY DEF Blameless, RepairedSoFar
<1>8. Handling'
  BY DEF Handling
<1> QED
  BY <1>1, <1>2, <1>3, <1>4, <1>5, <1>6, <1>7, <1>8

-----------------------------------------------------------------------------
(* Grading, the return of the suite, its report, and the death of the      *)
(* process.                                                                *)
LEMMA KeepsGrade ==
  ASSUME Inductive, Grade
  PROVE  Inductive'
<1> USE DEF Inductive, TypeOK, Places, Grade, NextExperiment, Grades
<1>1. TypeOK'
  BY DEF Phases, HandlerStates, Exits
<1>2. Places' /\ Owing'
  BY DEF Owing
<1>3. RepairedSoFar' /\ ProbedSoFar'
  BY DEF RepairedSoFar, ProbedSoFar
<1>3a. \A i \in DOMAIN Suite : i # k => status'[i] = status[i]
  OBVIOUS
<1>3b. \A i \in DOMAIN Suite : i >= k' => i > k
  BY SuiteRows
<1>4. UntriedAhead'
  BY <1>3b DEF UntriedAhead
<1>3c. status'[k] \in Grades
  OBVIOUS
<1>5. UngradedAhead' /\ GradedRepaired' /\ RecoveredRepaired'
  <2>1. UngradedAhead'
    BY <1>3a, <1>3b, SuiteRows DEF UngradedAhead
  <2>2. GradedRepaired'
    BY <1>3a, <1>3c DEF GradedRepaired, RecoveredRepaired
  <2> QED
    BY <2>1, <2>2 DEF RecoveredRepaired
<1>6. CleanBetween'
  BY DEF UntriedAhead, RecoveredRepaired, ProbedSoFar, CleanBetween
<1>7. Blameless'
  BY DEF Blameless, RepairedSoFar
<1>8. Handling'
  BY DEF Handling
<1> QED
  BY <1>1, <1>2, <1>3, <1>4, <1>5, <1>6, <1>7, <1>8

LEMMA KeepsSuiteReturns ==
  ASSUME Inductive, SuiteReturns
  PROVE  Inductive'
<1> USE DEF Inductive, TypeOK, Places, SuiteReturns
<1>1. TypeOK'
  BY DEF Phases, HandlerStates, Exits
<1>2. Places' /\ Owing'
  BY DEF Owing
<1>3. RepairedSoFar' /\ ProbedSoFar'
  BY DEF RepairedSoFar, ProbedSoFar
<1>4. UntriedAhead'
  BY DEF UntriedAhead
<1>5. UngradedAhead' /\ GradedRepaired' /\ RecoveredRepaired'
  BY DEF UngradedAhead, GradedRepaired, RecoveredRepaired
<1>6. CleanBetween'
  BY DEF UntriedAhead, RecoveredRepaired, ProbedSoFar, CleanBetween
<1>7. Blameless'
  BY DEF Blameless, RepairedSoFar
<1>8. Handling'
  BY DEF Handling
<1> QED
  BY <1>1, <1>2, <1>3, <1>4, <1>5, <1>6, <1>7, <1>8

LEMMA KeepsReport ==
  ASSUME Inductive, Report
  PROVE  Inductive'
<1> USE DEF Inductive, TypeOK, Places, Report, Leave
<1>1. TypeOK'
  BY DEF Phases, HandlerStates, Exits
<1>2. Places' /\ Owing'
  BY DEF Owing
<1>3. RepairedSoFar' /\ ProbedSoFar'
  BY DEF RepairedSoFar, ProbedSoFar
<1>4. UntriedAhead'
  BY DEF UntriedAhead
<1>5. UngradedAhead' /\ GradedRepaired' /\ RecoveredRepaired'
  BY DEF UngradedAhead, GradedRepaired, RecoveredRepaired
<1>6. CleanBetween'
  BY DEF UntriedAhead, RecoveredRepaired, ProbedSoFar, CleanBetween
<1>7. Blameless'
  BY DEF Blameless, RepairedSoFar
<1>8. Handling'
  BY DEF Handling
<1> QED
  BY <1>1, <1>2, <1>3, <1>4, <1>5, <1>6, <1>7, <1>8

LEMMA KeepsKill ==
  ASSUME Inductive, Kill
  PROVE  Inductive'
<1> USE DEF Inductive, TypeOK, Places, Kill, Leave
<1>1. TypeOK'
  BY DEF Phases, HandlerStates, Exits
<1>2. Places' /\ Owing'
  BY DEF Owing
<1>3. RepairedSoFar' /\ ProbedSoFar'
  BY DEF RepairedSoFar, ProbedSoFar
<1>4. UntriedAhead'
  BY DEF UntriedAhead
<1>5. UngradedAhead' /\ GradedRepaired' /\ RecoveredRepaired'
  BY DEF UngradedAhead, GradedRepaired, RecoveredRepaired
<1>6. CleanBetween'
  BY DEF UntriedAhead, RecoveredRepaired, ProbedSoFar, CleanBetween
<1>7. Blameless'
  BY DEF Blameless, RepairedSoFar
<1>8. Handling'
  BY DEF Handling
<1> QED
  BY <1>1, <1>2, <1>3, <1>4, <1>5, <1>6, <1>7, <1>8

-----------------------------------------------------------------------------
(* --recover, fault by fault.  Once the queue manager is up, a command     *)
(* that cannot reach its target is a mishap.                               *)
LEMMA KeepsProbeClean ==
  ASSUME Inductive, ProbeClean
  PROVE  Inductive'
<1> USE DEF Inductive, TypeOK, Places, ProbeClean
<1>1. TypeOK'
  BY DEF Phases, HandlerStates, Exits
<1>2. Places' /\ Owing'
  BY DEF Owing
<1>3. RepairedSoFar' /\ ProbedSoFar'
  BY DEF RepairedSoFar, ProbedSoFar
<1>4. UntriedAhead'
  BY DEF UntriedAhead
<1>5. UngradedAhead' /\ GradedRepaired' /\ RecoveredRepaired'
  BY DEF UngradedAhead, GradedRepaired, RecoveredRepaired
<1>6. CleanBetween'
  BY DEF UntriedAhead, RecoveredRepaired, ProbedSoFar, CleanBetween
<1>7. Blameless'
  BY DEF Blameless, RepairedSoFar
<1>8. Handling'
  BY DEF Handling
<1> QED
  BY <1>1, <1>2, <1>3, <1>4, <1>5, <1>6, <1>7, <1>8

LEMMA KeepsProbeDirty ==
  ASSUME Inductive, ProbeDirty
  PROVE  Inductive'
<1> USE DEF Inductive, TypeOK, Places, ProbeDirty, ReportsDirt
<1>1. TypeOK'
  BY ZenonT(30) DEF Phases, HandlerStates, Exits
<1>2. Places' /\ Owing'
  BY DEF Owing
<1>3. RepairedSoFar' /\ ProbedSoFar'
  BY DEF RepairedSoFar, ProbedSoFar
<1>4. UntriedAhead'
  BY DEF UntriedAhead
<1>5. UngradedAhead' /\ GradedRepaired' /\ RecoveredRepaired'
  BY DEF UngradedAhead, GradedRepaired, RecoveredRepaired
<1>6. CleanBetween'
  BY DEF UntriedAhead, RecoveredRepaired, ProbedSoFar, CleanBetween
<1>7. Blameless'
  BY DEF Blameless, RepairedSoFar
<1>8. Handling'
  BY DEF Handling
<1> QED
  BY <1>1, <1>2, <1>3, <1>4, <1>5, <1>6, <1>7, <1>8

LEMMA KeepsRepairThrows ==
  ASSUME Inductive, RepairThrows
  PROVE  Inductive'
<1> USE DEF Inductive, TypeOK, Places, RepairThrows, Patched, NextRepair
<1>1. TypeOK'
  <2>1. sound' \in BOOLEAN /\ mishap' \in BOOLEAN
    BY Zenon
  <2>2. k' \in Nat \ {0} /\ dirty' \subseteq Faults
    OBVIOUS
  <2> QED
    BY <2>1, <2>2 DEF Phases, HandlerStates, Exits
<1>2. Places' /\ Owing'
  BY DEF Owing
<1>3. RepairedSoFar' /\ ProbedSoFar'
  BY DEF RepairedSoFar, ProbedSoFar
<1>4. UntriedAhead'
  BY DEF UntriedAhead
<1>5. UngradedAhead' /\ GradedRepaired' /\ RecoveredRepaired'
  BY DEF UngradedAhead, GradedRepaired, RecoveredRepaired
<1>6. CleanBetween'
  BY DEF UntriedAhead, RecoveredRepaired, ProbedSoFar, CleanBetween
<1>7. Blameless'
  BY DEF Blameless, RepairedSoFar
<1>8. Handling'
  BY DEF Handling
<1> QED
  BY <1>1, <1>2, <1>3, <1>4, <1>5, <1>6, <1>7, <1>8

LEMMA KeepsRepairActs ==
  ASSUME Inductive, RepairActs
  PROVE  Inductive'
<1> USE DEF Inductive, TypeOK, Places, RepairActs
<1>1. TypeOK'
  BY ZenonT(30) DEF Phases, HandlerStates, Exits
<1>2. Places' /\ Owing'
  BY DEF Owing
<1>3. RepairedSoFar' /\ ProbedSoFar'
  BY DEF RepairedSoFar, ProbedSoFar
<1>4. UntriedAhead'
  BY DEF UntriedAhead
<1>5. UngradedAhead' /\ GradedRepaired' /\ RecoveredRepaired'
  BY DEF UngradedAhead, GradedRepaired, RecoveredRepaired
<1>6. CleanBetween'
  BY DEF UntriedAhead, RecoveredRepaired, ProbedSoFar, CleanBetween
<1>7. Blameless'
  BY DEF Blameless, RepairedSoFar
<1>8. Handling'
  BY DEF Handling
<1> QED
  BY <1>1, <1>2, <1>3, <1>4, <1>5, <1>6, <1>7, <1>8

LEMMA KeepsRepairVerified ==
  ASSUME Inductive, RepairVerified
  PROVE  Inductive'
<1> USE DEF Inductive, TypeOK, Places, RepairVerified
<1>1. TypeOK'
  BY DEF Phases, HandlerStates, Exits
<1>2. Places' /\ Owing'
  BY DEF Owing
<1>3. RepairedSoFar' /\ ProbedSoFar'
  BY DEF RepairedSoFar, ProbedSoFar
<1>4. UntriedAhead'
  BY DEF UntriedAhead
<1>5. UngradedAhead' /\ GradedRepaired' /\ RecoveredRepaired'
  BY DEF UngradedAhead, GradedRepaired, RecoveredRepaired
<1>6. CleanBetween'
  BY DEF UntriedAhead, RecoveredRepaired, ProbedSoFar, CleanBetween
<1>7. Blameless'
  BY DEF Blameless, RepairedSoFar
<1>8. Handling'
  BY DEF Handling
<1> QED
  BY <1>1, <1>2, <1>3, <1>4, <1>5, <1>6, <1>7, <1>8

LEMMA KeepsReprobeClean ==
  ASSUME Inductive, ReprobeClean
  PROVE  Inductive'
<1> USE DEF Inductive, TypeOK, Places, ReprobeClean, NextRepair
<1>1. TypeOK'
  BY DEF Phases, HandlerStates, Exits
<1>2. Places' /\ Owing'
  BY DEF Owing
<1>3. RepairedSoFar' /\ ProbedSoFar'
  BY DEF RepairedSoFar, ProbedSoFar
<1>4. UntriedAhead'
  BY DEF UntriedAhead
<1>5. UngradedAhead' /\ GradedRepaired' /\ RecoveredRepaired'
  BY DEF UngradedAhead, GradedRepaired, RecoveredRepaired
<1>6. CleanBetween'
  BY DEF UntriedAhead, RecoveredRepaired, ProbedSoFar, CleanBetween
<1>7. Blameless'
  BY DEF Blameless, RepairedSoFar
<1>8. Handling'
  BY DEF Handling
<1> QED
  BY <1>1, <1>2, <1>3, <1>4, <1>5, <1>6, <1>7, <1>8

LEMMA KeepsReprobeDirty ==
  ASSUME Inductive, ReprobeDirty
  PROVE  Inductive'
<1> USE DEF Inductive, TypeOK, Places, ReprobeDirty, ReportsDirt, NextRepair
<1>1. TypeOK'
  <2>1. sound' \in BOOLEAN /\ mishap' \in BOOLEAN
    BY Zenon
  <2>2. k' \in Nat \ {0} /\ dirty' \subseteq Faults
    OBVIOUS
  <2> QED
    BY <2>1, <2>2 DEF Phases, HandlerStates, Exits
<1>2. Places' /\ Owing'
  BY DEF Owing
<1>3. RepairedSoFar' /\ ProbedSoFar'
  BY DEF RepairedSoFar, ProbedSoFar
<1>4. UntriedAhead'
  BY DEF UntriedAhead
<1>5. UngradedAhead' /\ GradedRepaired' /\ RecoveredRepaired'
  BY DEF UngradedAhead, GradedRepaired, RecoveredRepaired
<1>6. CleanBetween'
  BY DEF UntriedAhead, RecoveredRepaired, ProbedSoFar, CleanBetween
<1>7. Blameless'
  BY DEF Blameless, RepairedSoFar
<1>8. Handling'
  BY DEF Handling
<1> QED
  BY <1>1, <1>2, <1>3, <1>4, <1>5, <1>6, <1>7, <1>8

LEMMA KeepsRepairEnds ==
  ASSUME Inductive, RepairEnds
  PROVE  Inductive'
<1> USE DEF Inductive, TypeOK, Places, RepairEnds, Leave
<1>1. TypeOK'
  BY DEF Phases, HandlerStates, Exits
<1>2. Places' /\ Owing'
  BY DEF Owing
<1>3. RepairedSoFar' /\ ProbedSoFar'
  BY DEF RepairedSoFar, ProbedSoFar
<1>4. UntriedAhead'
  BY DEF UntriedAhead
<1>5. UngradedAhead' /\ GradedRepaired' /\ RecoveredRepaired'
  BY DEF UngradedAhead, GradedRepaired, RecoveredRepaired
<1>6. CleanBetween'
  BY DEF UntriedAhead, RecoveredRepaired, ProbedSoFar, CleanBetween
<1>7. Blameless'
  BY DEF Blameless, RepairedSoFar
<1>8. Handling'
  BY DEF Handling
<1> QED
  BY <1>1, <1>2, <1>3, <1>4, <1>5, <1>6, <1>7, <1>8

-----------------------------------------------------------------------------
(* The signal handlers.  They only ever remove a fault, and leave the rows *)
(* alone.                                                                  *)
LEMMA KeepsSignalRecovers ==
  ASSUME NEW s \in Signals, Inductive, SignalRecovers(s)
  PROVE  Inductive'
<1> USE DEF Inductive, TypeOK, Places, SignalRecovers
<1>1. TypeOK'
  BY DEF Phases, HandlerStates, Exits
<1>2. Places' /\ Owing'
  BY DEF Owing
<1>3. RepairedSoFar' /\ ProbedSoFar'
  BY DEF RepairedSoFar, ProbedSoFar
<1>4. UntriedAhead'
  BY DEF UntriedAhead
<1>5. UngradedAhead' /\ GradedRepaired' /\ RecoveredRepaired'
  BY DEF UngradedAhead, GradedRepaired, RecoveredRepaired
<1>6. CleanBetween'
  BY DEF UntriedAhead, RecoveredRepaired, ProbedSoFar, CleanBetween
<1>7. Blameless'
  BY DEF Blameless, RepairedSoFar
<1>8. Handling'
  BY DEF Handling
<1> QED
  BY <1>1, <1>2, <1>3, <1>4, <1>5, <1>6, <1>7, <1>8

LEMMA KeepsSignalExits ==
  ASSUME NEW s \in Signals, Inductive, SignalExits(s)
  PROVE  Inductive'
<1> USE DEF Inductive, TypeOK, Places, SignalExits, Leave
<1>1. TypeOK'
  BY DEF Phases, HandlerStates, Exits
<1>2. Places' /\ Owing'
  BY DEF Owing
<1>3. RepairedSoFar' /\ ProbedSoFar'
  BY DEF RepairedSoFar, ProbedSoFar
<1>4. UntriedAhead'
  BY DEF UntriedAhead
<1>5. UngradedAhead' /\ GradedRepaired' /\ RecoveredRepaired'
  BY DEF UngradedAhead, GradedRepaired, RecoveredRepaired
<1>6. CleanBetween'
  BY DEF UntriedAhead, RecoveredRepaired, ProbedSoFar, CleanBetween
<1>7. Blameless'
  BY DEF Blameless, RepairedSoFar
<1>8. Handling'
  BY DEF Handling
<1> QED
  BY <1>1, <1>2, <1>3, <1>4, <1>5, <1>6, <1>7, <1>8

LEMMA KeepsHandlerActs ==
  ASSUME NEW s \in Signals, Inductive, HandlerActs(s)
  PROVE  Inductive'
<1> USE DEF Inductive, TypeOK, Places, HandlerActs, Leave
<1>1. TypeOK'
  <2>1. CASE target[s] \in Polled
    <3>1. /\ handler' = [handler EXCEPT ![s] = "verify"]
          /\ dirty' \subseteq Faults
          /\ UNCHANGED <<pending, pc, k, inflight, rows, sound, target, exit, runs, history>>
      BY <2>1
    <3>2. handler' \in [Signals -> HandlerStates]
      BY <3>1 DEF HandlerStates
    <3> QED
      BY <3>1, <3>2 DEF Phases, HandlerStates, Exits
  <2>2. CASE target[s] \notin Polled
    BY <2>2, ZenonT(30) DEF Phases, HandlerStates, Exits
  <2> QED
    BY <2>1, <2>2
<1>2. Places' /\ Owing'
  BY DEF Owing
<1>3. RepairedSoFar' /\ ProbedSoFar'
  BY DEF RepairedSoFar, ProbedSoFar
<1>4. UntriedAhead'
  BY DEF UntriedAhead
<1>5. UngradedAhead' /\ GradedRepaired' /\ RecoveredRepaired'
  BY DEF UngradedAhead, GradedRepaired, RecoveredRepaired
<1>6. CleanBetween'
  BY DEF UntriedAhead, RecoveredRepaired, ProbedSoFar, CleanBetween
<1>7. Blameless'
  BY DEF Blameless, RepairedSoFar
<1>8. Handling'
  BY DEF Handling
<1> QED
  BY <1>1, <1>2, <1>3, <1>4, <1>5, <1>6, <1>7, <1>8

LEMMA KeepsHandlerThrows ==
  ASSUME NEW s \in Signals, Inductive, HandlerThrows(s)
  PROVE  Inductive'
<1> USE DEF Inductive, TypeOK, Places, HandlerThrows, Leave, Patched
<1>1. TypeOK'
  BY DEF Phases, HandlerStates, Exits
<1>2. Places' /\ Owing'
  BY DEF Owing
<1>3. RepairedSoFar' /\ ProbedSoFar'
  BY DEF RepairedSoFar, ProbedSoFar
<1>4. UntriedAhead'
  BY DEF UntriedAhead
<1>5. UngradedAhead' /\ GradedRepaired' /\ RecoveredRepaired'
  BY DEF UngradedAhead, GradedRepaired, RecoveredRepaired
<1>6. CleanBetween'
  BY DEF UntriedAhead, RecoveredRepaired, ProbedSoFar, CleanBetween
<1>7. Blameless'
  BY DEF Blameless, RepairedSoFar
<1>8. Handling'
  BY DEF Handling
<1> QED
  BY <1>1, <1>2, <1>3, <1>4, <1>5, <1>6, <1>7, <1>8

LEMMA KeepsHandlerVerified ==
  ASSUME NEW s \in Signals, Inductive, HandlerVerified(s)
  PROVE  Inductive'
<1> USE DEF Inductive, TypeOK, Places, HandlerVerified, Leave
<1>1. TypeOK'
  BY DEF Phases, HandlerStates, Exits
<1>2. Places' /\ Owing'
  BY DEF Owing
<1>3. RepairedSoFar' /\ ProbedSoFar'
  BY DEF RepairedSoFar, ProbedSoFar
<1>4. UntriedAhead'
  BY DEF UntriedAhead
<1>5. UngradedAhead' /\ GradedRepaired' /\ RecoveredRepaired'
  BY DEF UngradedAhead, GradedRepaired, RecoveredRepaired
<1>6. CleanBetween'
  BY DEF UntriedAhead, RecoveredRepaired, ProbedSoFar, CleanBetween
<1>7. Blameless'
  BY DEF Blameless, RepairedSoFar
<1>8. Handling'
  BY DEF Handling
<1> QED
  BY <1>1, <1>2, <1>3, <1>4, <1>5, <1>6, <1>7, <1>8

LEMMA KeepsHandlerTimesOut ==
  ASSUME NEW s \in Signals, Inductive, HandlerTimesOut(s)
  PROVE  Inductive'
<1> USE DEF Inductive, TypeOK, Places, HandlerTimesOut, Leave
<1>1. TypeOK'
  BY DEF Phases, HandlerStates, Exits
<1>2. Places' /\ Owing'
  BY DEF Owing
<1>3. RepairedSoFar' /\ ProbedSoFar'
  BY DEF RepairedSoFar, ProbedSoFar
<1>4. UntriedAhead'
  BY DEF UntriedAhead
<1>5. UngradedAhead' /\ GradedRepaired' /\ RecoveredRepaired'
  BY DEF UngradedAhead, GradedRepaired, RecoveredRepaired
<1>6. CleanBetween'
  BY DEF UntriedAhead, RecoveredRepaired, ProbedSoFar, CleanBetween
<1>7. Blameless'
  BY DEF Blameless, RepairedSoFar
<1>8. Handling'
  BY DEF Handling
<1> QED
  BY <1>1, <1>2, <1>3, <1>4, <1>5, <1>6, <1>7, <1>8

-----------------------------------------------------------------------------
(* Docker.  An injection that nobody awaits sets late, which ends every    *)
(* promise; an awaited one dirties the current, ungraded row.              *)
LEMMA KeepsLands ==
  ASSUME NEW f \in Faults, Inductive, Lands(f)
  PROVE  Inductive'
<1> USE DEF Inductive, TypeOK, Places, Lands, Awaited
<1>1. TypeOK'
  BY DEF Phases, HandlerStates, Exits
<1>2. Places' /\ Owing'
  BY DEF Owing
<1>3. RepairedSoFar' /\ ProbedSoFar'
  BY DEF RepairedSoFar, ProbedSoFar
<1>4. UntriedAhead'
  BY DEF UntriedAhead
<1>5. UngradedAhead' /\ GradedRepaired' /\ RecoveredRepaired'
  <2>1. UngradedAhead'
    BY Zenon DEF UngradedAhead
  <2>2. CASE late \/ ~Awaited(f)
    <3>1. late'
      BY <2>2, Zenon
    <3> QED
      BY <2>1, <3>1, Zenon DEF GradedRepaired, RecoveredRepaired
  <2>3. CASE ~late /\ Awaited(f)
    <3>1. status[k] = "FAIL" /\ \A i \in DOMAIN Suite : Suite[i] = f => i = k
      BY <2>3 DEF UngradedAhead
    <3>2. ~late' /\ f = Suite[k] /\ pc' = "inject" /\ status' = status
      BY <2>3, Zenon
    <3>3. dirty' = dirty \cup {f}
      OBVIOUS
    <3>4. GradedRepaired'
      BY <2>3, <3>1, <3>2, <3>3 DEF GradedRepaired
    <3> QED
      BY <2>1, <3>2, <3>4 DEF RecoveredRepaired
  <2> QED
    BY <2>2, <2>3, Zenon
<1>6. CleanBetween'
  BY DEF UntriedAhead, RecoveredRepaired, ProbedSoFar, CleanBetween
<1>7. Blameless'
  BY DEF Blameless, RepairedSoFar
<1>8. Handling'
  BY DEF Handling
<1> QED
  BY <1>1, <1>2, <1>3, <1>4, <1>5, <1>6, <1>7, <1>8

LEMMA KeepsOrphanDies ==
  ASSUME NEW f \in Faults, Inductive, OrphanDies(f)
  PROVE  Inductive'
<1> USE DEF Inductive, TypeOK, Places, OrphanDies, Awaited
<1>1. TypeOK'
  BY DEF Phases, HandlerStates, Exits
<1>2. Places' /\ Owing'
  BY DEF Owing
<1>3. RepairedSoFar' /\ ProbedSoFar'
  BY DEF RepairedSoFar, ProbedSoFar
<1>4. UntriedAhead'
  BY DEF UntriedAhead
<1>5. UngradedAhead' /\ GradedRepaired' /\ RecoveredRepaired'
  BY DEF UngradedAhead, GradedRepaired, RecoveredRepaired
<1>6. CleanBetween'
  BY DEF UntriedAhead, RecoveredRepaired, ProbedSoFar, CleanBetween
<1>7. Blameless'
  BY DEF Blameless, RepairedSoFar
<1>8. Handling'
  BY DEF Handling
<1> QED
  BY <1>1, <1>2, <1>3, <1>4, <1>5, <1>6, <1>7, <1>8

(* A stuttering step.                                                      *)
LEMMA KeepsUnchanged ==
  ASSUME Inductive, UNCHANGED vars
  PROVE  Inductive'
BY DEF Inductive, vars, TypeOK, Places, Owing, RepairedSoFar, Blameless, Handling,
       UngradedAhead, UntriedAhead, GradedRepaired, RecoveredRepaired, ProbedSoFar, CleanBetween

(* The invariant holds before the first process, whatever the lab shows.   *)
LEMMA StartsInductive == Init => Inductive
<1> SUFFICES ASSUME Init PROVE Inductive
  OBVIOUS
<1> USE DEF Init
<1>1. TypeOK
  <2>1. threw \in BOOLEAN /\ sound \in BOOLEAN /\ late \in BOOLEAN /\ mishap \in BOOLEAN
    BY Zenon
  <2>2. runs \in 0..MaxRuns /\ k \in Nat \ {0}
    OBVIOUS
  <2> QED
    BY <2>1, <2>2 DEF TypeOK, Phases, HandlerStates, Exits, UngradedRows, UntriedRows
<1>2. Places /\ Owing /\ RepairedSoFar /\ Blameless /\ Handling
  BY DEF Places, Owing, RepairedSoFar, Blameless, Handling
<1>3. UngradedAhead /\ UntriedAhead /\ GradedRepaired /\ RecoveredRepaired
  BY DEF UngradedAhead, UntriedAhead, GradedRepaired, RecoveredRepaired, UngradedRows
<1>4. ProbedSoFar /\ CleanBetween
  BY DEF ProbedSoFar, CleanBetween
<1> QED
  BY <1>1, <1>2, <1>3, <1>4 DEF Inductive

(* Every step keeps the invariant.                                         *)
LEMMA StepKeeps == Inductive /\ [Next]_vars => Inductive'
<1> SUFFICES ASSUME Inductive, [Next]_vars PROVE Inductive'
  OBVIOUS
<1>1. CASE StartSuite \/ StartRepair \/ Kill
  BY <1>1, KeepsStartSuite, KeepsStartRepair, KeepsKill
<1>2. CASE Main
  BY <1>2, KeepsPreflightProbe, KeepsPreflightPasses, KeepsPreflightRefuses,
     KeepsSkipExperiment, KeepsSteadyState, KeepsSteadyStateTimesOut, KeepsStampThrows,
     KeepsInject, KeepsInjectReturns, KeepsInjectThrows, KeepsMeasure, KeepsCallRecover,
     KeepsRecoverActs, KeepsRecoverThrows, KeepsRecoverVerified, KeepsRecoverTimesOut,
     KeepsGrade, KeepsSuiteReturns, KeepsReport, Zenon
     DEF Main
<1>3. CASE Repair
  BY <1>3, KeepsProbeClean, KeepsProbeDirty, KeepsRepairThrows, KeepsRepairActs,
     KeepsRepairVerified, KeepsReprobeClean, KeepsReprobeDirty, KeepsRepairEnds, Zenon
     DEF Repair
<1>4. CASE Docker
  <2> HIDE DEF Faults, Inductive
  <2> QED
    BY <1>4, KeepsLands, KeepsOrphanDies, Zenon DEF Docker
<1>5. ASSUME NEW s \in Signals, Handler(s) PROVE Inductive'
  BY <1>5, KeepsSignalRecovers, KeepsSignalExits, KeepsHandlerActs, KeepsHandlerThrows,
     KeepsHandlerVerified, KeepsHandlerTimesOut, Zenon
     DEF Handler
<1>6. CASE UNCHANGED vars
  BY <1>6, KeepsUnchanged
<1> QED
  BY <1>1, <1>2, <1>3, <1>4, <1>5, <1>6, Zenon DEF Next

-----------------------------------------------------------------------------
(* The lab, the loop, the handlers and --recover stay in step.             *)
THEOREM AlwaysInductive == Spec => []Inductive
<1> QED
  BY StartsInductive, StepKeeps, PTL DEF Spec

(* Every variable has its type, for any suite and any number of runs.      *)
THEOREM TypeCorrect == Spec => []TypeOK
<1>1. Inductive => TypeOK
  BY DEF Inductive
<1> QED
  BY AlwaysInductive, <1>1, PTL

(* recover() follows every inject(), unless the process was cut short.     *)
THEOREM InjectionIsRecovered == Spec => []RecoverFollowsInject
<1>1. Inductive => RecoverFollowsInject
  <2> SUFFICES ASSUME Inductive, owed # {} PROVE RecoverFollowsInject
    BY DEF RecoverFollowsInject
  <2>1. CASE Busy
    <3>1. owed \subseteq {inflight}
      BY <2>1 DEF Inductive, Owing
    <3>2. owed = {inflight}
      BY <3>1
    <3> QED
      BY <2>1, <3>2 DEF RecoverFollowsInject
  <2>2. CASE ~Busy
    BY <2>2 DEF Inductive, Owing, RecoverFollowsInject
  <2> QED
    BY <2>1, <2>2
<1> QED
  BY AlwaysInductive, <1>1, PTL

(* No experiment injects into a lab that shows a selected fault, unless a  *)
(* recover() of the run failed or an orphaned injection landed.            *)
THEOREM InjectionMeetsCleanLab == Spec => InjectsIntoCleanLab
<1>1. Inductive => [Inject /\ AllRecovered /\ ~late => dirty \cap Selected = {}]_vars
  BY DEF Inductive, CleanBetween, Inject
<1> QED
  BY AlwaysInductive, <1>1, PTL DEF InjectsIntoCleanLab

(* A suite that returns with every recover() done leaves a clean lab.      *)
THEOREM CleanAfterSuite == Spec => ReturnsCleanLab
<1>1. Inductive =>
        [(Report /\ sound /\ AllRecovered /\ ~late) => dirty \cap Selected = {}]_vars
  BY DEF Inductive, CleanBetween, Report
<1> QED
  BY AlwaysInductive, <1>1, PTL DEF ReturnsCleanLab

(* A row that passed names a fault which is gone when the suite reports.   *)
THEOREM PassedMeansRepaired == Spec => PassMeansRepaired
<1>1. Inductive =>
        [Report /\ ~late =>
           \A i \in DOMAIN Suite :
             status[i] \in {"PASS", "WARN"} => Suite[i] \notin dirty]_vars
  BY DEF Inductive, GradedRepaired
<1> QED
  BY AlwaysInductive, <1>1, PTL DEF PassMeansRepaired

(* --recover says "lab clean" only of a clean lab.                         *)
THEOREM HonestRepair == Spec => RepairIsHonest
<1>1. Inductive => [(RepairEnds /\ exit' = "repaired" /\ ~late) => dirty = {}]_vars
  <2> SUFFICES ASSUME Inductive, RepairEnds, exit' = "repaired", ~late PROVE dirty = {}
    OBVIOUS
  <2>1. sound /\ k > 5 /\ pc = "probe"
    BY DEF RepairEnds, Leave
  <2>2. \A j \in 1..5 : RepairOrder[j] \notin dirty
    BY <2>1 DEF Inductive, TypeOK, RepairedSoFar
  <2> QED
    BY <2>2 DEF Inductive, TypeOK
<1> QED
  BY AlwaysInductive, <1>1, PTL DEF RepairIsHonest

(* It says "NOT clean" only when a command failed or an orphan landed.     *)
THEOREM CompleteRepair == Spec => RepairIsComplete
<1>1. Inductive => [(RepairEnds /\ exit' = "unrepaired") => mishap \/ late]_vars
  <2> SUFFICES ASSUME Inductive, RepairEnds, exit' = "unrepaired", ~mishap, ~late
               PROVE  FALSE
    OBVIOUS
  <2>1. ~sound /\ pc = "probe"
    BY DEF RepairEnds, Leave
  <2> QED
    BY <2>1 DEF Inductive, Blameless
<1> QED
  BY AlwaysInductive, <1>1, PTL DEF RepairIsComplete

(* A handler that exits 130 with its recover() done, with nothing left in  *)
(* docker's hands and the loop not past the experiment, leaves the lab     *)
(* clean.                                                                  *)
THEOREM InterruptionRepairs == Spec => InterruptRepairs
<1> DEFINE Calm ==
      /\ pending = {} /\ ~late /\ AllRecovered
      /\ \A s \in Signals : target[s] # None => inflight \in {None, target[s]}
<1>1. ASSUME Inductive, Next, exit' = "130", exit # "130", Calm
      PROVE  dirty' \cap Selected = {}
  <2>1. ~(StartSuite \/ StartRepair \/ Kill)
    BY <1>1 DEF StartSuite, StartRepair, Start, Kill, Leave
  <2>2. ~Main
    BY <1>1 DEF Main, PreflightProbe, PreflightPasses, PreflightRefuses, SkipExperiment,
         SteadyState, SteadyStateTimesOut, StampThrows, Inject, InjectReturns, InjectThrows,
         Measure, CallRecover, RecoverActs, RecoverThrows, RecoverVerified, RecoverTimesOut,
         Grade, SuiteReturns, Report, Leave
  <2>3. ~Repair
    BY <1>1 DEF Repair, ProbeClean, ProbeDirty, RepairThrows, RepairActs, RepairVerified,
         ReprobeClean, ReprobeDirty, RepairEnds, Leave
  <2>4. ~Docker
    BY <1>1 DEF Docker, Lands, OrphanDies
  <2>5. PICK s \in Signals : Handler(s)
    BY <1>1, <2>1, <2>2, <2>3, <2>4, Zenon DEF Next
  <2>6. SignalExits(s) \/ HandlerActs(s) \/ HandlerVerified(s)
    BY <1>1, <2>5 DEF Handler, SignalRecovers, HandlerThrows, HandlerTimesOut, Leave
  <2>7. pc \in Experimenting \cup {"gate", "report"} /\ sound
    BY <1>1, <2>6 DEF Inductive, Handling, SignalExits, HandlerActs, HandlerVerified
  <2>8. CASE SignalExits(s)
    BY <1>1, <2>7, <2>8 DEF Inductive, Handling, TypeOK, Places, CleanBetween, SignalExits
  <2>9. ASSUME handler[s] \in {"recover", "verify"}
        PROVE  dirty \cap Selected \subseteq {target[s]}
    <3>1. target[s] # None /\ inflight \in {None, target[s]}
      BY <1>1, <2>9 DEF Inductive, Handling
    <3>2. CASE pc \in Holding
      BY <1>1, <3>1, <3>2 DEF Inductive, Places, CleanBetween
    <3>3. CASE pc \notin Holding
      BY <1>1, <2>7, <3>3 DEF Inductive, CleanBetween
    <3> QED
      BY <3>2, <3>3
  <2>10. CASE HandlerActs(s)
    BY <2>9, <2>10 DEF HandlerActs
  <2>11. CASE HandlerVerified(s)
    BY <2>9, <2>11 DEF HandlerVerified
  <2> QED
    BY <2>6, <2>8, <2>10, <2>11
<1>2. Inductive /\ [Next]_vars =>
        [(exit' = "130" /\ exit # "130" /\ Calm) => dirty' \cap Selected = {}]_vars
  BY <1>1
<1>3. Spec => [][Next]_vars
  BY PTL DEF Spec
<1> QED
  BY AlwaysInductive, <1>2, <1>3, PTL DEF InterruptRepairs

-----------------------------------------------------------------------------
(* Each row is an experiment as ExperimentRow has it.  What is not in      *)
(* Inductive: inject() and the measurement end at the first throw.         *)
Untroubled == pc \in {"inject", "measure"} => ~threw

LEMMA InitUntroubled == Init => Untroubled
BY DEF Init, Untroubled

LEMMA StepUntroubled == Untroubled /\ [Next]_vars => Untroubled'
<1> SUFFICES ASSUME Untroubled, [Next]_vars PROVE Untroubled'
  OBVIOUS
<1> USE DEF Untroubled, Leave
<1>1. CASE StartSuite \/ StartRepair \/ Kill
  BY <1>1 DEF StartSuite, StartRepair, Start, Kill
<1>2. CASE Main
  BY <1>2 DEF Main, PreflightProbe, PreflightPasses, PreflightRefuses, SkipExperiment,
       SteadyState, SteadyStateTimesOut, StampThrows, Inject, InjectReturns, InjectThrows,
       Measure, CallRecover, RecoverActs, RecoverThrows, RecoverVerified, RecoverTimesOut,
       RecoverDone, Grade, NextExperiment, SuiteReturns, Report
<1>3. CASE Repair
  BY <1>3 DEF Repair, ProbeClean, ProbeDirty, RepairThrows, RepairActs, RepairVerified,
       ReprobeClean, ReprobeDirty, RepairEnds, NextRepair
<1>4. CASE Docker
  BY <1>4 DEF Docker, Lands, OrphanDies
<1>5. ASSUME NEW s \in Signals, Handler(s) PROVE Untroubled'
  BY <1>5 DEF Handler, SignalRecovers, SignalExits, HandlerActs, HandlerThrows,
       HandlerVerified, HandlerTimesOut
<1>6. CASE UNCHANGED vars
  BY <1>6 DEF vars
<1> QED
  BY <1>1, <1>2, <1>3, <1>4, <1>5, <1>6, Zenon DEF Next

(* A process starts: every row is born anew.                               *)
LEMMA StartInContract ==
  ASSUME NEW n \in DOMAIN Suite, Inductive, StartSuite \/ StartRepair
  PROVE  RowOf(n)!Launch
<1>1. RowStage(n) = "off" /\ RowStage(n)' \in {"off", "waiting"} /\ RowFailed(n)' = FALSE
  BY DEF StartSuite, StartRepair, Start, RowStage, RowFailed
<1>2. status'[n] = "FAIL" /\ late' = FALSE /\ dirty' = dirty
  BY DEF StartSuite, StartRepair, Start, UngradedRows
<1> QED
  BY <1>1, <1>2 DEF RowOf!Launch

(* A process ends: the rows that were under way or done are off.           *)
LEMMA LeaveInContract ==
  ASSUME NEW n \in DOMAIN Suite, Inductive, NEW code, Leave(code), UNCHANGED late,
         dirty' \subseteq dirty
  PROVE  [RowOf(n)!Next]_(RowOf(n)!row)
<1>1. UNCHANGED <<status, late>> /\ RowStage(n)' = "off" /\ RowFailed(n)' = FALSE
  BY DEF Leave, RowStage, RowFailed
<1>2. (Suite[n] \in dirty)' => Suite[n] \in dirty
  OBVIOUS
<1>3. CASE RowStage(n) # "off"
  BY <1>1, <1>2, <1>3 DEF RowOf!Leave, RowOf!Next
<1>4. CASE RowStage(n) = "off"
  <2>1. RowFailed(n) = FALSE
    BY <1>4 DEF RowFailed
  <2>2. CASE (Suite[n] \in dirty)'
    BY <1>1, <1>2, <1>4, <2>1, <2>2 DEF RowOf!row
  <2>3. CASE ~(Suite[n] \in dirty)'
    BY <1>1, <1>4, <2>1, <2>3 DEF RowOf!Elsewhere, RowOf!Next
  <2> QED
    BY <2>2, <2>3
<1> QED
  BY <1>3, <1>4

(* Before the injection: a row waits, or is passed over with the status it *)
(* was born with.                                                          *)
LEMMA GateInContract ==
  ASSUME NEW n \in DOMAIN Suite, Inductive,
         \/ PreflightProbe \/ PreflightPasses \/ PreflightRefuses
         \/ SkipExperiment \/ SteadyState \/ SteadyStateTimesOut \/ StampThrows \/ SuiteReturns
  PROVE  RowOf(n)!PassOver \/ UNCHANGED RowOf(n)!row
<1> USE DEF PreflightProbe, PreflightPasses, PreflightRefuses, SkipExperiment, SteadyState,
        SteadyStateTimesOut, StampThrows, SuiteReturns, NextExperiment
<1>1. k \in Nat \ {0} /\ n \in 1..Len(Suite) /\ Len(Suite) \in Nat
  BY SuiteRows DEF Inductive, TypeOK
<1>2. dirty' = dirty /\ late' = late
  OBVIOUS
<1>3. RowFailed(n) = FALSE /\ RowFailed(n)' = FALSE
  BY <1>1 DEF RowFailed, RowStage
<1>4. CASE RowStage(n)' = RowStage(n)
  <2>1. status'[n] = status[n]
    BY <1>1, <1>4 DEF Inductive, TypeOK, RowStage
  <2> QED
    BY <1>2, <1>3, <1>4, <2>1 DEF RowOf!row
<1>5. CASE RowStage(n)' # RowStage(n)
  <2>1. RowStage(n) = "waiting" /\ RowStage(n)' = "done"
    BY <1>1, <1>5 DEF RowStage
  <2>2. status'[n] \in {"FAIL", "SKIP"}
    BY <1>1, <1>5 DEF Inductive, TypeOK, UngradedAhead, RowStage
  <2> QED
    BY <1>2, <1>3, <2>1, <2>2 DEF RowOf!PassOver
<1> QED
  BY <1>4, <1>5

(* The current row takes the way from inject() to recover(); the others    *)
(* stay where they are, and their faults too.                              *)
LEMMA OthersAside ==
  ASSUME NEW n \in DOMAIN Suite, n # k, Inductive, pc \in Experimenting, pc' \in Experimenting,
         UNCHANGED <<k, status, late>>, (Suite[n] \in dirty)' = (Suite[n] \in dirty)
  PROVE  UNCHANGED RowOf(n)!row
<1>1. k \in Nat \ {0} /\ n \in 1..Len(Suite) /\ Len(Suite) \in Nat
  BY SuiteRows DEF Inductive, TypeOK
<1>2. RowStage(n)' = RowStage(n) /\ RowStage(n) \in {"done", "waiting"}
  BY <1>1 DEF RowStage
<1>3. RowFailed(n)' = FALSE /\ RowFailed(n) = FALSE
  BY <1>2 DEF RowFailed
<1> QED
  BY <1>2, <1>3 DEF RowOf!row

LEMMA InjectInContract ==
  ASSUME NEW n \in DOMAIN Suite, Inductive, Untroubled,
         Inject \/ InjectReturns \/ InjectThrows \/ Measure \/ CallRecover
  PROVE  [RowOf(n)!Next]_(RowOf(n)!row)
<1> USE DEF Inject, InjectReturns, InjectThrows, Measure, CallRecover
<1>1. k \in DOMAIN Suite /\ k' = k /\ UNCHANGED <<status, recovered, late>>
      /\ pc \in Experimenting /\ pc' \in Experimenting
  BY DEF Inductive, Places
<1>2. CASE n # k
  <2>1. (Suite[n] \in dirty)' = (Suite[n] \in dirty)
    BY <1>1, <1>2 DEF Spoilt
  <2> QED
    BY <1>1, <1>2, <2>1, OthersAside
<1>3. CASE n = k
  <2>0. recovered[k] # "failed"
    BY <1>1 DEF Inductive, TypeOK, UntriedAhead
  <2>1. CASE Inject
    <3>1. RowStage(n) = "waiting" /\ RowStage(n)' = "injecting" /\ dirty' = dirty
      BY <1>1, <1>3, <2>1 DEF RowStage
    <3>2. RowFailed(n) = FALSE /\ RowFailed(n)' = FALSE
      BY <3>1 DEF RowFailed
    <3> QED
      BY <1>1, <3>1, <3>2 DEF RowOf!Try, RowOf!Next
  <2>2. CASE InjectReturns
    <3>1. RowStage(n) = "injecting" /\ RowStage(n)' = "measuring" /\ dirty' = dirty
      BY <1>1, <1>3, <2>2 DEF RowStage
    <3>2. RowFailed(n) = FALSE /\ RowFailed(n)' = FALSE
      BY <3>1 DEF RowFailed
    <3> QED
      BY <1>1, <3>1, <3>2 DEF RowOf!InjectReturns, RowOf!Next
  <2>3. CASE InjectThrows
    <3>1. RowStage(n) = "injecting" /\ RowStage(n)' = "recovering"
      BY <1>1, <1>3, <2>3 DEF RowStage
    <3>2. RowFailed(n)' = TRUE
      BY <2>3, <3>1 DEF RowFailed
    <3>3. Suite[n] \in dirty => (Suite[n] \in dirty)'
      BY <2>3 DEF Spoilt
    <3> QED
      BY <1>1, <3>1, <3>2, <3>3 DEF RowOf!InjectThrows, RowOf!Next
  <2>4. CASE Measure
    <3>1. RowStage(n) = "measuring" /\ RowStage(n)' = "recovering" /\ dirty' = dirty
      BY <1>1, <1>3, <2>4 DEF RowStage
    <3>2. RowFailed(n) = FALSE /\ RowFailed(n)' = FALSE
      BY <1>1, <1>3, <2>0, <2>4, <3>1 DEF RowFailed, Untroubled
    <3> QED
      BY <1>1, <3>1, <3>2 DEF RowOf!Measured, RowOf!Next
  <2>5. CASE CallRecover
    <3>1. RowStage(n) = "recovering" /\ RowStage(n)' = "recovering" /\ dirty' = dirty
      BY <1>1, <1>3, <2>5 DEF RowStage
    <3>2. RowFailed(n)' = RowFailed(n)
      BY <1>1, <2>5, <3>1 DEF RowFailed
    <3> QED
      BY <1>1, <3>1, <3>2 DEF RowOf!row
  <2> QED
    BY <2>1, <2>2, <2>3, <2>4, <2>5
<1> QED
  BY <1>2, <1>3

LEMMA RecoverInContract ==
  ASSUME NEW n \in DOMAIN Suite, Inductive,
         RecoverActs \/ RecoverThrows \/ RecoverVerified \/ RecoverTimesOut
  PROVE  [RowOf(n)!Next]_(RowOf(n)!row)
<1> USE DEF RecoverActs, RecoverThrows, RecoverVerified, RecoverTimesOut, RecoverDone
<1>1. k \in DOMAIN Suite /\ k' = k /\ UNCHANGED <<status, threw, late>>
      /\ pc \in Experimenting /\ pc' \in Experimenting
      /\ recovered \in [DOMAIN Suite -> {"untried", "ok", "failed"}]
  BY DEF Inductive, Places, TypeOK
<1>2. CASE n # k
  <2>1. (Suite[n] \in dirty)' = (Suite[n] \in dirty)
    BY <1>1, <1>2 DEF Patched
  <2> QED
    BY <1>1, <1>2, <2>1, OthersAside
<1>3. CASE n = k
  <2>1. RowStage(n) = "recovering" /\ recovered[n] # "failed"
    BY <1>1, <1>3 DEF RowStage, Inductive, TypeOK, UntriedAhead
  <2>2. ASSUME RecoverDone("ok"), ~(Suite[n] \in dirty)' PROVE RowOf(n)!Recovers
    <3>1. RowStage(n)' = "settling" /\ recovered'[n] = "ok"
      BY <1>1, <1>3, <2>2 DEF RowStage
    <3>2. RowFailed(n)' = RowFailed(n)
      BY <1>1, <2>1, <3>1 DEF RowFailed
    <3> QED
      BY <1>1, <2>1, <2>2, <3>1, <3>2 DEF RowOf!Recovers
  <2>3. ASSUME RecoverDone("failed"), (Suite[n] \in dirty)' => Suite[n] \in dirty
        PROVE  RowOf(n)!RecoverThrows
    <3>1. pc' = "settle" /\ recovered'[n] = "failed"
      BY <1>1, <1>3, <2>3
    <3>2. k \in Nat
      BY DEF Inductive, TypeOK
    <3>3. RowStage(n)' = "settling"
      BY <1>1, <1>3, <3>1, <3>2 DEF RowStage
    <3>4. RowFailed(n)' = TRUE
      BY <3>1, <3>3 DEF RowFailed
    <3> QED
      BY <1>1, <2>1, <2>3, <3>3, <3>4 DEF RowOf!RecoverThrows
  <2>4. CASE RecoverActs /\ Cur \in Polled
    <3>1. RowStage(n)' = "recovering" /\ recovered' = recovered /\ ~(Suite[n] \in dirty)'
      BY <1>1, <1>3, <2>4 DEF RowStage
    <3>2. RowFailed(n)' = RowFailed(n)
      BY <1>1, <2>1, <3>1 DEF RowFailed
    <3> QED
      BY <1>1, <2>1, <3>1, <3>2 DEF RowOf!Elsewhere, RowOf!Next
  <2>5. CASE RecoverActs /\ Cur \notin Polled
    <3>1. RecoverDone("ok") /\ ~(Suite[n] \in dirty)'
      BY <1>3, <2>5
    <3> QED
      BY <2>2, <3>1 DEF RowOf!Next
  <2>6. CASE RecoverVerified
    <3>1. RecoverDone("ok") /\ ~(Suite[n] \in dirty)'
      BY <1>3, <2>6
    <3> QED
      BY <2>2, <3>1 DEF RowOf!Next
  <2>7. CASE RecoverThrows \/ RecoverTimesOut
    <3>1. RecoverDone("failed") /\ ((Suite[n] \in dirty)' => Suite[n] \in dirty)
      BY <1>3, <2>7 DEF Patched
    <3> QED
      BY <2>3, <3>1 DEF RowOf!Next
  <2> QED
    BY <2>4, <2>5, <2>6, <2>7
<1> QED
  BY <1>2, <1>3

(* The grade of the current row is free only if nothing threw.             *)
LEMMA GradeInContract ==
  ASSUME NEW n \in DOMAIN Suite, Inductive, Grade
  PROVE  RowOf(n)!Grade \/ UNCHANGED RowOf(n)!row
<1> USE DEF Grade, NextExperiment
<1>1. k \in Nat \ {0} /\ n \in 1..Len(Suite) /\ Len(Suite) \in Nat
  BY SuiteRows DEF Inductive, TypeOK
<1>2. dirty' = dirty /\ late' = late /\ RowFailed(n)' = FALSE
  BY <1>1 DEF RowFailed, RowStage
<1>3. CASE n # k
  <2>1. RowStage(n)' = RowStage(n) /\ RowStage(n) \in {"done", "waiting"}
        /\ status'[n] = status[n]
    BY <1>1, <1>3 DEF RowStage, Inductive, TypeOK
  <2>2. RowFailed(n) = FALSE
    BY <2>1 DEF RowFailed
  <2> QED
    BY <1>2, <2>1, <2>2 DEF RowOf!row
<1>4. CASE n = k
  <2>1. RowStage(n) = "settling" /\ RowStage(n)' = "done"
    BY <1>1, <1>4 DEF RowStage
  <2>2. status'[n] \in Grades
    BY <1>4 DEF Inductive, TypeOK
  <2>3. Grades = IF RowFailed(n) THEN {"FAIL"} ELSE {"FAIL", "WARN", "PASS"}
    BY <1>4, <2>1 DEF Grades, RowFailed
  <2> QED
    BY <1>2, <2>1, <2>2, <2>3 DEF RowOf!Grade
<1> QED
  BY <1>3, <1>4

(* --recover, the handlers and docker are elsewhere: they repair, or an    *)
(* orphan lands, or the awaited injection does.                            *)
LEMMA ElsewhereInContract ==
  ASSUME NEW n \in DOMAIN Suite, Inductive, UNCHANGED <<pc, k, status, recovered, threw>>,
         \/ dirty' \subseteq dirty /\ UNCHANGED late
         \/ dirty \subseteq dirty' /\ late'
         \/ UNCHANGED late /\ dirty' \subseteq dirty \cup {Cur} /\ dirty \subseteq dirty'
            /\ pc = "inject"
  PROVE  [RowOf(n)!Next]_(RowOf(n)!row)
<1>1. RowStage(n)' = RowStage(n)
  BY DEF RowStage
<1>2. RowFailed(n)' = RowFailed(n)
  BY <1>1 DEF RowFailed
<1>3. CASE (Suite[n] \in dirty)' = (Suite[n] \in dirty) /\ UNCHANGED late
  BY <1>1, <1>2, <1>3 DEF RowOf!row
<1>4. CASE dirty \subseteq dirty' /\ late'
  <2>1. Suite[n] \in dirty => (Suite[n] \in dirty)'
    BY <1>4
  <2> QED
    BY <1>1, <1>2, <1>4, <2>1 DEF RowOf!Elsewhere, RowOf!Next
<1>5. CASE dirty' \subseteq dirty /\ UNCHANGED late
  <2>1. CASE ~(Suite[n] \in dirty)'
    BY <1>1, <1>2, <1>5, <2>1 DEF RowOf!Elsewhere, RowOf!Next
  <2>2. CASE (Suite[n] \in dirty)'
    BY <1>3, <1>5, <2>2
  <2> QED
    BY <2>1, <2>2
<1>6. CASE UNCHANGED late /\ dirty' \subseteq dirty \cup {Cur} /\ dirty \subseteq dirty'
           /\ pc = "inject"
  <2>1. CASE n = k
    <3>1. RowStage(n) = "injecting"
      BY <1>6, <2>1 DEF RowStage, Inductive, TypeOK
    <3>2. CASE (Suite[n] \in dirty)'
      BY <1>1, <1>2, <1>6, <3>1, <3>2 DEF RowOf!Elsewhere, RowOf!Next
    <3>3. CASE ~(Suite[n] \in dirty)'
      BY <1>1, <1>2, <1>6, <3>3 DEF RowOf!Elsewhere, RowOf!Next
    <3> QED
      BY <3>2, <3>3
  <2>2. CASE n # k
    <3>1. Suite[n] # Cur
      BY <1>6, <2>2 DEF Inductive, Places
    <3>2. (Suite[n] \in dirty)' = (Suite[n] \in dirty)
      BY <1>6, <3>1
    <3> QED
      BY <1>3, <1>6, <3>2
  <2> QED
    BY <2>1, <2>2
<1> QED
  BY <1>4, <1>5, <1>6

LEMMA RepairInContract ==
  ASSUME NEW n \in DOMAIN Suite, Inductive, Repair
  PROVE  [RowOf(n)!Next]_(RowOf(n)!row)
<1>1. CASE Repair /\ ~RepairEnds
  <2> USE <1>1 DEF Repair, ProbeClean, ProbeDirty, RepairThrows, RepairActs, RepairVerified,
          ReprobeClean, ReprobeDirty, NextRepair
  <2>1. RowStage(n) = "off" /\ RowStage(n)' = "off"
    BY DEF RowStage
  <2>2. RowFailed(n) = FALSE /\ RowFailed(n)' = FALSE
    BY <2>1 DEF RowFailed
  <2>3. UNCHANGED <<status, late>> /\ dirty' \subseteq dirty
    BY DEF Patched
  <2>4. CASE (Suite[n] \in dirty)'
    <3>1. (Suite[n] \in dirty)' = (Suite[n] \in dirty)
      BY <2>3, <2>4
    <3> QED
      BY <2>1, <2>2, <2>3, <3>1 DEF RowOf!row
  <2>5. CASE ~(Suite[n] \in dirty)'
    BY <2>1, <2>2, <2>3, <2>5 DEF RowOf!Elsewhere, RowOf!Next
  <2> QED
    BY <2>4, <2>5
<1>2. CASE RepairEnds
  <2>1. dirty' \subseteq dirty /\ UNCHANGED late
    BY <1>2 DEF RepairEnds
  <2> QED
    BY <1>2, <2>1, LeaveInContract DEF RepairEnds
<1> QED
  BY <1>1, <1>2

LEMMA HandlerInContract ==
  ASSUME NEW n \in DOMAIN Suite, NEW s \in Signals, Inductive, Handler(s)
  PROVE  [RowOf(n)!Next]_(RowOf(n)!row)
<1>1. dirty' \subseteq dirty /\ UNCHANGED late
  BY DEF Handler, SignalRecovers, SignalExits, HandlerActs, HandlerThrows, HandlerVerified,
         HandlerTimesOut, Patched
<1>2. \/ UNCHANGED <<pc, k, status, recovered, threw>>
      \/ Leave("130") \/ Leave("130-unrepaired")
  BY DEF Handler, SignalRecovers, SignalExits, HandlerActs, HandlerThrows, HandlerVerified,
         HandlerTimesOut
<1> QED
  BY <1>1, <1>2, LeaveInContract, ElsewhereInContract

LEMMA DockerInContract ==
  ASSUME NEW n \in DOMAIN Suite, NEW f \in Faults, Inductive, Lands(f) \/ OrphanDies(f)
  PROVE  [RowOf(n)!Next]_(RowOf(n)!row)
<1>1. UNCHANGED <<pc, k, status, recovered, threw>>
  BY DEF Lands, OrphanDies
<1>2. \/ dirty' = dirty /\ late' = late
      \/ dirty' = dirty \cup {f} /\ late' = (late \/ ~Awaited(f))
  BY DEF Lands, OrphanDies
<1>3. CASE dirty' = dirty /\ late' = late
  BY <1>1, <1>3, ElsewhereInContract
<1>4. CASE dirty' = dirty \cup {f} /\ late' = (late \/ ~Awaited(f))
  <2>1. CASE Awaited(f)
    <3>1. late' = late
      BY <1>4, <2>1 DEF Inductive, TypeOK
    <3> QED
      BY <1>1, <1>4, <2>1, <3>1, ElsewhereInContract DEF Awaited
  <2>2. CASE ~Awaited(f)
    BY <1>1, <1>4, <2>2, ElsewhereInContract
  <2> QED
    BY <2>1, <2>2
<1> QED
  BY <1>2, <1>3, <1>4

LEMMA StepInContract ==
  ASSUME NEW n \in DOMAIN Suite, Inductive, Untroubled, [Next]_vars
  PROVE  [RowOf(n)!Next]_(RowOf(n)!row)
<1>1. CASE StartSuite \/ StartRepair
  BY <1>1, StartInContract DEF RowOf!Next
<1>2. CASE Kill \/ Report
  <2>1. UNCHANGED late /\ dirty' \subseteq dirty
    BY <1>2 DEF Kill, Report
  <2> QED
    BY <1>2, <2>1, LeaveInContract DEF Kill, Report
<1>3. CASE Main /\ ~Report
  <2>1. CASE \/ PreflightProbe \/ PreflightPasses \/ PreflightRefuses
             \/ SkipExperiment \/ SteadyState \/ SteadyStateTimesOut \/ StampThrows \/ SuiteReturns
    BY <2>1, GateInContract DEF RowOf!Next
  <2>2. CASE Inject \/ InjectReturns \/ InjectThrows \/ Measure \/ CallRecover
    BY <2>2, InjectInContract
  <2>3. CASE RecoverActs \/ RecoverThrows \/ RecoverVerified \/ RecoverTimesOut
    BY <2>3, RecoverInContract
  <2>4. CASE Grade
    BY <2>4, GradeInContract DEF RowOf!Next
  <2> QED
    BY <1>3, <2>1, <2>2, <2>3, <2>4, Zenon DEF Main
<1>4. CASE Repair
  BY <1>4, RepairInContract
<1>5. CASE Docker
  <2> HIDE DEF Faults
  <2> QED
    BY <1>5, DockerInContract DEF Docker
<1>6. ASSUME NEW s \in Signals, Handler(s) PROVE [RowOf(n)!Next]_(RowOf(n)!row)
  BY <1>6, HandlerInContract
<1>7. CASE UNCHANGED vars
  <2>1. UNCHANGED <<pc, k, status, recovered, threw>> /\ dirty' \subseteq dirty /\ UNCHANGED late
    BY <1>7 DEF vars
  <2> QED
    BY <2>1, ElsewhereInContract
<1> QED
  BY <1>1, <1>2, <1>3, <1>4, <1>5, <1>6, <1>7, Zenon DEF Next

LEMMA InitInContract ==
  ASSUME Init, NEW n \in DOMAIN Suite
  PROVE  RowOf(n)!Init
<1>1. RowStage(n) = "off"
  BY DEF Init, RowStage
<1>2. RowFailed(n) = FALSE
  BY <1>1 DEF RowFailed
<1> QED
  BY <1>1, <1>2 DEF Init, UngradedRows, RowOf!Init

(* However rows, handlers, orphans and --recover share the lab, each row   *)
(* is an experiment by the contract (chaos.mjs, the loop, onSignal and     *)
(* recoverAll).                                                            *)
THEOREM RowsInContract == Spec => RowsKeepTheContract
<1>1. Init => \A n \in DOMAIN Suite : RowOf(n)!Init
  BY InitInContract
<1>2. Untroubled /\ Inductive /\ [Next]_vars =>
        [\A n \in DOMAIN Suite : [RowOf(n)!Next]_(RowOf(n)!row)]_vars
  BY StepInContract
<1>3. Spec => []Untroubled
  BY InitUntroubled, StepUntroubled, PTL DEF Spec
<1> QED
  BY <1>1, <1>2, <1>3, AlwaysInductive, PTL DEF Spec, RowsKeepTheContract

(* At any moment, not only when the suite reports, a row that is graded    *)
(* PASS or WARN names a fault that is gone, unless an orphan landed.       *)
THEOREM GradedRowsAreMended == Spec => [](\A n \in DOMAIN Suite : RowOf(n)!GradedIsMended)
<1>1. Inductive => \A n \in DOMAIN Suite : RowOf(n)!GradedIsMended
  BY DEF Inductive, GradedRepaired, RowOf!GradedIsMended
<1> QED
  BY <1>1, AlwaysInductive, PTL

-----------------------------------------------------------------------------
(* Why a process ends: each step of the suite or of --recover uses up one  *)
(* of a number of steps that the length of the suite bounds, and neither   *)
(* the handlers nor docker give any back.                                  *)
Bounded ==
  /\ pc \in {"preflight", "gate"} => k \in 1..(Len(Suite) + 1)
  /\ pc = "probe" => k \in 1..6

Rank ==
  CASE pc = "gate" -> 9 [] pc = "stamp" -> 8 [] pc = "inject" -> 7 [] pc = "measure" -> 6
    [] pc = "finally" -> 5 [] pc = "recover" -> 4 [] pc = "verify" -> 3 [] pc = "settle" -> 2
    [] pc = "probe" -> 4 [] pc = "repair" -> 3 [] pc = "reverify" -> 2 [] OTHER -> 1

StepsLeft ==
  IF ~Busy THEN 0
  ELSE IF pc = "report" THEN 1
  ELSE IF pc = "preflight" THEN 10 * (Len(Suite) + 2) + (Len(Suite) + 1 - k)
  ELSE IF pc \in Repairing \cup {"probe"} THEN 5 * (6 - k) + Rank
  ELSE 10 * (Len(Suite) + 1 - k) + Rank

ProcessAdvances ==
  [][ /\ Main \/ Repair => StepsLeft' < StepsLeft
      /\ Busy => StepsLeft' =< StepsLeft ]_vars

LEMMA InitBounded == Init => Bounded
BY DEF Init, Bounded

LEMMA StepBounded == Inductive /\ Bounded /\ [Next]_vars => Bounded'
<1> SUFFICES ASSUME Inductive, Bounded, [Next]_vars PROVE Bounded'
  OBVIOUS
<1>0. Len(Suite) \in Nat /\ k \in Nat \ {0} /\ (pc \in Experimenting => k \in 1..Len(Suite))
      /\ (pc \in Repairing => k \in 1..5)
  BY SuiteRows DEF Inductive, TypeOK, Places
<1> USE <1>0 DEF Bounded, Leave
<1>1. CASE StartSuite \/ StartRepair \/ Kill
  BY <1>1 DEF StartSuite, StartRepair, Start, Kill
<1>2. CASE PreflightProbe \/ PreflightPasses \/ PreflightRefuses \/ SuiteReturns \/ Report
  BY <1>2 DEF PreflightProbe, PreflightPasses, PreflightRefuses, SuiteReturns, Report
<1>3. CASE SkipExperiment \/ SteadyState \/ SteadyStateTimesOut \/ StampThrows \/ Grade
  BY <1>3 DEF SkipExperiment, SteadyState, SteadyStateTimesOut, StampThrows, Grade, NextExperiment
<1>4. CASE Inject \/ InjectReturns \/ InjectThrows \/ Measure \/ CallRecover
  BY <1>4 DEF Inject, InjectReturns, InjectThrows, Measure, CallRecover
<1>5. CASE RecoverActs \/ RecoverThrows \/ RecoverVerified \/ RecoverTimesOut
  BY <1>5 DEF RecoverActs, RecoverThrows, RecoverVerified, RecoverTimesOut, RecoverDone
<1>6. CASE Repair
  BY <1>6 DEF Repair, ProbeClean, ProbeDirty, RepairThrows, RepairActs, RepairVerified,
       ReprobeClean, ReprobeDirty, RepairEnds, NextRepair
<1>7. CASE Docker
  BY <1>7 DEF Docker, Lands, OrphanDies
<1>8. ASSUME NEW s \in Signals, Handler(s) PROVE Bounded'
  BY <1>8 DEF Handler, SignalRecovers, SignalExits, HandlerActs, HandlerThrows,
       HandlerVerified, HandlerTimesOut
<1>9. CASE UNCHANGED vars
  BY <1>9 DEF vars
<1> QED
  BY <1>1, <1>2, <1>3, <1>4, <1>5, <1>6, <1>7, <1>8, <1>9, Zenon DEF Next, Main

LEMMA CountTyped ==
  Inductive /\ Bounded =>
    StepsLeft \in 0..(11 * (Len(Suite) + 3)) /\ (StepsLeft = 0 <=> ~Busy)
<1> SUFFICES ASSUME Inductive, Bounded
             PROVE  StepsLeft \in 0..(11 * (Len(Suite) + 3)) /\ (StepsLeft = 0 <=> ~Busy)
  OBVIOUS
<1>1. Len(Suite) \in Nat /\ k \in Nat \ {0} /\ (pc \in Experimenting => k \in 1..Len(Suite))
      /\ (pc \in Repairing => k \in 1..5) /\ pc \in Phases
  BY SuiteRows DEF Inductive, TypeOK, Places
<1>2. Rank \in 1..9 /\ (pc \in Repairing \cup {"probe"} => Rank =< 4)
  BY DEF Rank
<1> HIDE DEF Rank
<1> QED
  BY <1>1, <1>2 DEF StepsLeft, Bounded, Phases

(* A step of the program.                                                  *)
LEMMA ProgramAdvances ==
  ASSUME Inductive, Bounded, Main \/ Repair
  PROVE  StepsLeft' \in Int /\ StepsLeft' < StepsLeft
<1>0. Len(Suite) \in Nat /\ k \in Nat \ {0} /\ (pc \in Experimenting => k \in 1..Len(Suite))
      /\ (pc \in Repairing => k \in 1..5)
  BY SuiteRows DEF Inductive, TypeOK, Places
<1> USE <1>0 DEF StepsLeft, Rank
<1>1. CASE PreflightProbe \/ PreflightPasses \/ PreflightRefuses
  BY <1>1 DEF PreflightProbe, PreflightPasses, PreflightRefuses, Bounded
<1>2. CASE SuiteReturns
  BY <1>2 DEF SuiteReturns, Bounded
<1>3. CASE Report
  <2>1. StepsLeft = 1 /\ StepsLeft' = 0
    BY <1>3 DEF Report, Leave
  <2> QED
    BY <2>1
<1>4. CASE SkipExperiment \/ SteadyState \/ SteadyStateTimesOut \/ StampThrows \/ Grade
  <2>1. \/ pc \in {"gate", "stamp", "settle"} /\ pc' = "gate" /\ k' = k + 1
        \/ pc = "gate" /\ pc' = "stamp" /\ k' = k
    BY <1>4 DEF SkipExperiment, SteadyState, SteadyStateTimesOut, StampThrows, Grade, NextExperiment
  <2>2. CASE pc \in {"gate", "stamp", "settle"} /\ pc' = "gate" /\ k' = k + 1
    <3>1. StepsLeft' = 10 * (Len(Suite) - k) + 9
      BY <2>2
    <3>2. StepsLeft >= 10 * (Len(Suite) + 1 - k) + 2
      BY <2>2
    <3>3. StepsLeft \in Int
      BY <2>2
    <3> HIDE DEF StepsLeft, Rank
    <3> QED
      BY <3>1, <3>2, <3>3
  <2>3. CASE pc = "gate" /\ pc' = "stamp" /\ k' = k
    BY <2>3
  <2> QED
    BY <2>1, <2>2, <2>3
<1>5. CASE Inject \/ InjectReturns \/ InjectThrows \/ Measure \/ CallRecover
  <2>1. /\ k' = k
        /\ <<pc, pc'>> \in {<<"stamp", "inject">>, <<"inject", "measure">>, <<"inject", "finally">>,
                            <<"measure", "finally">>, <<"finally", "recover">>}
    BY <1>5 DEF Inject, InjectReturns, InjectThrows, Measure, CallRecover
  <2> QED
    BY <2>1
<1>6. CASE RecoverActs \/ RecoverThrows \/ RecoverVerified \/ RecoverTimesOut
  <2>1. /\ k' = k
        /\ <<pc, pc'>> \in {<<"recover", "verify">>, <<"recover", "settle">>, <<"verify", "settle">>}
    BY <1>6 DEF RecoverActs, RecoverThrows, RecoverVerified, RecoverTimesOut, RecoverDone
  <2> QED
    BY <2>1
<1>7. CASE Repair /\ ~RepairEnds
  <2>1. \/ pc \in Repairing \cup {"probe"} /\ pc' = "probe" /\ k' = k + 1
        \/ /\ k' = k
           /\ <<pc, pc'>> \in {<<"probe", "repair">>, <<"probe", "reprobe">>, <<"repair", "reverify">>,
                               <<"repair", "reprobe">>, <<"reverify", "reprobe">>}
    BY <1>7 DEF Repair, ProbeClean, ProbeDirty, RepairThrows, RepairActs, RepairVerified,
         ReprobeClean, ReprobeDirty, NextRepair
  <2> QED
    BY <2>1 DEF Bounded
<1>8. CASE RepairEnds
  BY <1>8 DEF RepairEnds, Leave, Bounded
<1> QED
  BY <1>1, <1>2, <1>3, <1>4, <1>5, <1>6, <1>7, <1>8, Zenon DEF Main, Repair

(* Beside it: docker and the signals leave the count or end the process.   *)
LEMMA NothingGivesBack ==
  ASSUME Inductive, Bounded, Busy, [Next]_vars
  PROVE  StepsLeft' =< StepsLeft
<1>0. StepsLeft \in Nat /\ Len(Suite) \in Nat
  BY CountTyped, SuiteRows
<1>1. ASSUME NEW code, Leave(code) PROVE StepsLeft' =< StepsLeft
  <2>1. StepsLeft' = 0
    BY <1>1 DEF Leave, StepsLeft
  <2> QED
    BY <1>0, <2>1
<1>2. ASSUME UNCHANGED <<pc, k>> PROVE StepsLeft' =< StepsLeft
  <2>1. StepsLeft' = StepsLeft
    BY <1>2 DEF StepsLeft, Rank
  <2> QED
    BY <1>0, <2>1
<1>3. CASE StartSuite \/ StartRepair
  BY <1>3 DEF StartSuite, StartRepair, Start
<1>4. CASE Main \/ Repair
  <2>1. StepsLeft' \in Int /\ StepsLeft' < StepsLeft
    BY <1>4, ProgramAdvances
  <2> QED
    BY <1>0, <2>1
<1>5. CASE Kill
  BY <1>1, <1>5 DEF Kill
<1>6. CASE Docker
  BY <1>2, <1>6 DEF Docker, Lands, OrphanDies
<1>7. ASSUME NEW s \in Signals, Handler(s) PROVE StepsLeft' =< StepsLeft
  <2>1. UNCHANGED <<pc, k>> \/ Leave("130") \/ Leave("130-unrepaired")
    BY <1>7 DEF Handler, SignalRecovers, SignalExits, HandlerActs, HandlerThrows,
         HandlerVerified, HandlerTimesOut
  <2> QED
    BY <1>1, <1>2, <2>1
<1>8. CASE UNCHANGED vars
  BY <1>2, <1>8 DEF vars
<1> QED
  BY <1>3, <1>4, <1>5, <1>6, <1>7, <1>8, Zenon DEF Next

LEMMA AlwaysBounded == Spec => []Bounded
<1> QED
  BY InitBounded, StepBounded, AlwaysInductive, PTL DEF Spec

(* The steps left of a process are bounded by the length of its suite, and *)
(* none are left exactly when there is no process.                         *)
THEOREM StepsAreCounted ==
  Spec => [](StepsLeft \in 0..(11 * (Len(Suite) + 3)) /\ (StepsLeft = 0 <=> ~Busy))
<1> QED
  BY CountTyped, AlwaysInductive, AlwaysBounded, PTL

(* Every step of the suite or of --recover lowers the count, and nothing   *)
(* raises it while the process lives.                                      *)
THEOREM ProcessAlwaysAdvances == Spec => ProcessAdvances
<1>1. Inductive /\ Bounded /\ [Next]_vars =>
        [ /\ Main \/ Repair => StepsLeft' < StepsLeft
          /\ Busy => StepsLeft' =< StepsLeft ]_vars
  BY ProgramAdvances, NothingGivesBack
<1> QED
  BY <1>1, AlwaysInductive, AlwaysBounded, PTL DEF Spec, ProcessAdvances

=============================================================================

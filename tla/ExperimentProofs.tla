---------------------------- MODULE ExperimentProofs ----------------------------
(***************************************************************************)
(* What a row of the chaos suite means, for any list of expected alerts    *)
(* and any scenario.  What was flushed and what was received since an      *)
(* instant says what Prometheus held at some moment since - or was on its  *)
(* way at that instant (Remembered, Relieved, Undisturbed), and the        *)
(* harness only uses events of the era it asked for.  The phases tie the   *)
(* eras to the program (Order).                                            *)
(***************************************************************************)
EXTENDS Experiment, TLAPS

Before == {"gate", "stamp"}
During == {"inject", "detect", "restamp"}
Afterwards == {"recover", "resolve", "graded"}

(* Which era it is, and from which the resolutions are asked for.          *)
Order ==
  /\ pc \in Before \cup {"abandoned"} => era = 0
  /\ pc \in During => era = 1
  /\ pc \in Afterwards => era = 2
  /\ pc \in Afterwards /\ ~hostClock => recoveredAt = 2
  /\ \A e \in ledger : e.era <= era

(* The notifications and the events of an era tell of X, or were on their  *)
(* way when it began.                                                      *)
Tell(st, t, X) ==
  /\ \A n \in flushed : n.status = st => n.of \in X \cup belated
  /\ \A e \in ledger : e.status = st /\ e.era = t => e.of \in X \cup belated

(* Since the injection instant: what is firing, was flushed or was         *)
(* received as firing has burned.                                          *)
Remembered == era = 1 => firing \subseteq burned /\ Tell("firing", 1, burned)

(* Since the recovery instant: what does not fire, was flushed or was      *)
(* received as resolved has lulled.                                        *)
Relieved == era = 2 => Instances \ firing \subseteq lulled /\ Tell("resolved", 2, lulled)

(* In a calm lab the gate leaves nothing firing, and nothing but the fault *)
(* starts an alert.                                                        *)
Undisturbed ==
  Calm =>
    /\ promUp
    /\ pc \in Before \cup {"inject"} => ~touched
    /\ pc \in {"stamp", "inject"} => firing = {}
    /\ era = 1 => firing \subseteq began /\ Tell("firing", 1, began)

(* One instance is credited for each alert that the loop has passed.       *)
Credited ==
  /\ pc \in Before \cup {"inject"} => fired = {}
  /\ pc = "detect" => \A x \in fired : \E k \in 1..(i - 1) : x.alert = Expected[k]
  /\ \A x, y \in fired : x.alert = y.alert => x = y

(* After recover(): an instance that does not fire is quiet, and what      *)
(* passes is graded.                                                       *)
Settled ==
  /\ pc = "resolve" => Instances \ firing \subseteq quiet
  /\ status = "PASS" => pc = "graded"

Inductive ==
  /\ TypeOK /\ Order /\ Remembered /\ Relieved /\ Undisturbed /\ Credited
  /\ Settled /\ PassIsQuiet

LEMMA InitInductive == Init => Inductive
<1>. SUFFICES ASSUME Init PROVE Inductive
  OBVIOUS
<1>1. Len(Expected) \in Nat /\ scenario.maxFlushes \in Nat
  BY ScenariosAssumption DEF Init, Expected
<1>2. TypeOK
  <2>1. ledger \subseteq Events /\ flushed \subseteq Notices
    BY DEF Init
  <2>2. touched \in BOOLEAN
    BY DEF Init
  <2>3. {faulted, touched, promUp, sinkUp} \subseteq BOOLEAN
    BY <2>2 DEF Init
  <2>4. scenario \in Scenarios /\ flushes \in 0..scenario.maxFlushes
    BY <1>1 DEF Init
  <2>5. pc \in Phases /\ i \in 1..(Len(Expected) + 1) /\ era \in Eras /\ recoveredAt \in Eras
    BY <1>1 DEF Init, Phases, Eras
  <2>6. /\ {firing, fired, began, burned, lulled, belated, quiet} \subseteq SUBSET Instances
        /\ resolved \subseteq Alerts
        /\ {hostClock, blemished, threw} \subseteq BOOLEAN
        /\ status \in {"FAIL", "WARN", "PASS"}
    BY DEF Init
  <2>. QED
    BY <2>1, <2>3, <2>4, <2>5, <2>6 DEF TypeOK
<1>3. Order /\ Remembered /\ Relieved /\ Credited /\ Settled
  BY DEF Init, Order, Before, During, Afterwards, Remembered, Relieved, Credited, Settled
<1>4. Undisturbed
  <2>1. Calm => touched = FALSE
    BY DEF Init, Calm
  <2>. QED
    BY <2>1 DEF Init, Undisturbed
<1>5. PassIsQuiet
  BY DEF Init, PassIsQuiet
<1>. QED
  BY <1>2, <1>3, <1>4, <1>5 DEF Inductive

(* What does not change while the scenario does not.                       *)
LEMMA SameScenario ==
  ASSUME UNCHANGED scenario
  PROVE  /\ Expected' = Expected /\ Alerts' = Alerts /\ Calm' = Calm
         /\ Instances' = Instances /\ Notices' = Notices /\ Events' = Events
BY DEF Expected, Alerts, Calm, Instances, Notices, Events

(* An expected alert is one of the alerts.                                 *)
LEMMA ExpectedTyped ==
  ASSUME TypeOK
  PROVE  Len(Expected) \in Nat /\ \A k \in 1..Len(Expected) : Expected[k] \in Alerts
BY ScenariosAssumption DEF TypeOK, Expected, Alerts

LEMMA VerdictTyped ==
  ASSUME NEW b \in BOOLEAN
  PROVE  /\ Verdict(b) \in {"FAIL", "WARN", "PASS"}
         /\ Verdict(b) = "PASS" => ~b
BY DEF Verdict

LEMMA GateInductive ==
  ASSUME Inductive, UNCHANGED scenario,
         SteadyState \/ SteadyStateTimesOut \/ Stamp \/ StampThrows
  PROVE  Inductive'
<1>0. Len(Expected) \in Nat /\ Expected' = Expected /\ Alerts' = Alerts /\ Calm' = Calm
      /\ Instances' = Instances /\ Notices' = Notices /\ Events' = Events
  BY ExpectedTyped, SameScenario DEF Inductive
<1>. USE <1>0 DEF Inductive, Goto, world, clock, row, seen, recent, alerting
<1>1. CASE SteadyState
  <2>1. blemished' \in BOOLEAN
    BY <1>1 DEF SteadyState, Sample, Contradicts, TypeOK
  <2>2. Calm => firing = {}
    BY <1>1 DEF SteadyState, FiringNow, Undisturbed
  <2>3. TypeOK'
    BY <1>1, <2>1 DEF SteadyState, TypeOK, Phases
  <2>4. Order' /\ Remembered' /\ Relieved' /\ Credited' /\ Settled' /\ PassIsQuiet'
    BY <1>1 DEF SteadyState, Order, Remembered, Relieved, Tell, Credited, Settled,
                PassIsQuiet,
                Before, During, Afterwards
  <2>5. Undisturbed'
    BY <1>1, <2>2 DEF SteadyState, Undisturbed, Tell, Before
  <2>. QED
    BY <2>3, <2>4, <2>5
<1>2. CASE SteadyStateTimesOut
  BY <1>2 DEF SteadyStateTimesOut, TypeOK, Phases, Order, Remembered, Relieved, Tell, Credited, Settled,
              Undisturbed, PassIsQuiet, Before, During, Afterwards
<1>3. CASE Stamp
  <2>1. era = 0 /\ status # "PASS" /\ \A e \in ledger : e.era # 1
    <3>1. era = 0 /\ status # "PASS" /\ \A e \in ledger : e.era <= 0
      BY <1>3 DEF Stamp, Order, Before, Settled
    <3>. QED
      BY <3>1
  <2>2. /\ era' = 1 /\ began' = {} /\ burned' = firing /\ pc' = "inject" /\ i' = 1
        /\ belated' = {n.of : n \in {m \in flushed : m.status = "firing"}}
        /\ UNCHANGED <<faulted, touched, firing, flushed, flushes, ledger, promUp, sinkUp,
                       lulled, quiet, recoveredAt, hostClock, fired, resolved, blemished,
                       threw, status>>
    BY <1>3 DEF Stamp, InjectedAt, Saying
  <2>3. belated' \subseteq Instances /\ \A n \in flushed : n.status = "firing" => n.of \in belated'
    BY <2>2 DEF TypeOK, Notices
  <2>4. TypeOK'
    BY <2>2, <2>3 DEF TypeOK, Phases, Eras
  <2>5. Order'
    <3>1. \A e \in ledger : e.era <= 1
      <4>1. \A e \in Events : e.era \in Nat
        BY DEF Events, Eras
      <4>2. \A e \in ledger : e \in Events /\ e.era <= 0
        BY <2>1 DEF Order, TypeOK
      <4>. QED
        BY <4>1, <4>2
    <3>. QED
      BY <2>2, <3>1 DEF Order, Before, During, Afterwards
  <2>6. Remembered' /\ Relieved'
    BY <2>1, <2>2, <2>3 DEF Remembered, Relieved, Tell
  <2>7. Undisturbed'
    BY <1>3, <2>1, <2>2, <2>3 DEF Undisturbed, Tell, Before, Stamp
  <2>8. Credited' /\ Settled' /\ PassIsQuiet'
    BY <1>3, <2>1, <2>2 DEF Stamp, Credited, Settled, PassIsQuiet, Before
  <2>. QED
    BY <2>4, <2>5, <2>6, <2>7, <2>8
<1>4. CASE StampThrows
  BY <1>4 DEF StampThrows, TypeOK, Phases, Order, Remembered, Relieved, Tell, Credited, Settled,
              Undisturbed, PassIsQuiet, Before, During, Afterwards
<1>. QED
  BY <1>1, <1>2, <1>3, <1>4

(* What the ledger shows is in it, and not older than what was asked for.  *)
LEMMA Shown ==
  ASSUME NEW a, NEW st, NEW since, NEW x \in Shows(a, st, since)
  PROVE  /\ x \in Instances
         /\ \E e \in ledger : e.of = x /\ e.status = st /\ e.era >= since
BY DEF Shows, SinkEvents

(* A detection is an event of the injection's era.                         *)
LEMMA Detected ==
  ASSUME Inductive, UNCHANGED scenario, Detect
  PROVE  /\ fired' \subseteq Instances
         /\ fired' \ fired \subseteq burned \cup belated
         /\ Calm => fired' \ fired \subseteq began \cup belated
         /\ Credited'
<1>1. era = 1
  BY DEF Inductive, Detect, Order, During
<1>2. PICK x \in Shows(Expected[i], "firing", InjectedAt) : fired' = fired \cup {x}
  BY DEF Detect
<1>3. PICK e \in ledger : x \in Instances /\ e.of = x /\ e.status = "firing" /\ e.era >= 1
  BY Shown DEF InjectedAt
<1>4. e.era = 1
  <2>1. e.era \in Nat /\ e.era <= 1
    BY <1>1 DEF Inductive, TypeOK, Events, Eras, Order
  <2>. QED
    BY <1>3, <2>1
<1>5. x \in burned \cup belated /\ (Calm => x \in began \cup belated)
  BY <1>1, <1>3, <1>4 DEF Inductive, Remembered, Undisturbed, Tell
<1>6. x.alert = Expected[i]
  BY DEF Shows
<1>7. Credited'
  <2>1. pc = "detect" /\ pc' = "detect" /\ i' = i + 1 /\ i \in 1..Len(Expected)
        /\ Len(Expected) \in Nat /\ Expected' = Expected
    BY SameScenario, ExpectedTyped DEF Inductive, TypeOK, Detect
  <2>2. \A k \in 1..(i - 1) : Expected[k] # Expected[i]
    BY <2>1, ScenariosAssumption DEF Inductive, TypeOK, Expected
  <2>3. \A y \in fired : y.alert # x.alert
    BY <1>6, <2>1, <2>2 DEF Inductive, Credited
  <2>4. \A y, z \in fired' : y.alert = z.alert => y = z
    BY <1>2, <2>3 DEF Inductive, Credited
  <2>5. \A y \in fired' : \E k \in 1..(i' - 1) : y.alert = Expected[k]
    <3>1. \A k \in 1..(i - 1) : k \in 1..(i' - 1)
      BY <2>1
    <3>2. i \in 1..(i' - 1)
      BY <2>1
    <3>. QED
      BY <1>2, <1>6, <2>1, <3>1, <3>2 DEF Inductive, Credited
  <2>. QED
    BY <2>1, <2>4, <2>5 DEF Credited, Before
<1>. QED
  BY <1>2, <1>3, <1>5, <1>7 DEF Inductive, TypeOK

LEMMA InjectInductive ==
  ASSUME Inductive, UNCHANGED scenario,
         Inject \/ InjectThrows \/ Detect \/ DetectTimesOut \/ Hold
  PROVE  Inductive'
<1>0. Len(Expected) \in Nat /\ Expected' = Expected /\ Alerts' = Alerts /\ Calm' = Calm
      /\ Instances' = Instances /\ Notices' = Notices /\ Events' = Events
  BY ExpectedTyped, SameScenario DEF Inductive
<1>. USE <1>0 DEF Inductive, Goto, world, clock, row, seen, recent, alerting
<1>1. pc \in During /\ pc' \in During
      /\ UNCHANGED <<firing, flushed, flushes, ledger, promUp, sinkUp, began, burned, lulled,
                     belated, quiet, era, recoveredAt, hostClock, resolved, status>>
  BY DEF Inject, InjectThrows, Detect, DetectTimesOut, Hold, During
<1>2. pc' # "inject" /\ pc' \in Phases
  BY DEF Inject, InjectThrows, Detect, DetectTimesOut, Hold, Phases
<1>3. faulted' \in BOOLEAN /\ touched' \in BOOLEAN /\ i' \in 1..(Len(Expected) + 1)
      /\ fired' \subseteq Instances /\ blemished' \in BOOLEAN /\ threw' \in BOOLEAN
  <2>1. CASE Inject
    BY <2>1 DEF Inject, TypeOK
  <2>2. CASE InjectThrows
    BY <2>2 DEF InjectThrows, TypeOK
  <2>3. CASE Detect
    <3>1. fired' \subseteq Instances
      BY <2>3, Detected
    <3>2. /\ blemished' \in {blemished, TRUE} /\ i' = i + 1 /\ i <= Len(Expected)
          /\ UNCHANGED <<faulted, touched, threw>>
      BY <2>3 DEF Detect
    <3>3. i' \in 1..(Len(Expected) + 1)
      BY <3>2 DEF TypeOK
    <3>4. {faulted', touched', blemished', threw'} \subseteq BOOLEAN
      BY <3>2, Zenon DEF TypeOK
    <3>. QED
      BY <3>1, <3>3, <3>4
  <2>4. CASE DetectTimesOut
    BY <2>4 DEF DetectTimesOut, TypeOK
  <2>5. CASE Hold
    <3>1. blemished' \in BOOLEAN
      BY <2>5 DEF Hold, Sample, Contradicts, TypeOK
    <3>2. UNCHANGED <<faulted, touched, fired, threw>> /\ i' = 1
      BY <2>5 DEF Hold
    <3>. QED
      BY <3>1, <3>2 DEF TypeOK
  <2>. QED
    BY <2>1, <2>2, <2>3, <2>4, <2>5
<1>4. TypeOK'
  BY <1>1, <1>2, <1>3 DEF TypeOK
<1>5. Order' /\ Remembered' /\ Relieved' /\ Settled' /\ Undisturbed' /\ PassIsQuiet'
  BY <1>1, <1>2 DEF Order, Remembered, Relieved, Tell, Settled, Undisturbed, PassIsQuiet,
                    Before, During, Afterwards
<1>6. Credited'
  <2>1. CASE Detect
    BY <1>1, <2>1, Detected DEF Detect
  <2>2. CASE Inject
    BY <2>2 DEF Inject, Credited, Before
  <2>3. CASE InjectThrows \/ Hold
    BY <2>3 DEF InjectThrows, Hold, Credited, Before
  <2>4. CASE DetectTimesOut
    BY <2>4 DEF DetectTimesOut, Credited, Before, TypeOK
  <2>. QED
    BY <2>1, <2>2, <2>3, <2>4
<1>. QED
  BY <1>4, <1>5, <1>6

LEMMA RestampInductive ==
  ASSUME Inductive, UNCHANGED scenario, Restamp
  PROVE  Inductive'
<1>0. Len(Expected) \in Nat /\ Expected' = Expected /\ Alerts' = Alerts /\ Calm' = Calm
      /\ Instances' = Instances /\ Notices' = Notices /\ Events' = Events
  BY ExpectedTyped, SameScenario DEF Inductive
<1>. USE <1>0 DEF Inductive, row, alerting
<1>1. /\ pc = "restamp" /\ era = 1 /\ era' = 2 /\ pc' = "recover" /\ i' = 1
      /\ began' = {} /\ burned' = {} /\ lulled' = Instances \ firing /\ hostClock' = ~sinkUp
      /\ belated' = {n.of : n \in {m \in flushed : m.status = "resolved"}}
      /\ recoveredAt' \in 0..2 /\ (sinkUp => recoveredAt' = 2)
      /\ UNCHANGED <<faulted, touched, firing, flushed, flushes, ledger, promUp, sinkUp, quiet,
                     fired, resolved, blemished, threw, status>>
  BY DEF Restamp, Goto, Order, During, Saying
<1>2. \A e \in ledger : e.era <= 1 /\ e.era \in Nat
  BY <1>1 DEF Order, TypeOK, Events, Eras
<1>3. belated' \subseteq Instances /\ \A n \in flushed : n.status = "resolved" => n.of \in belated'
  BY <1>1 DEF TypeOK, Notices
<1>4. TypeOK'
  BY <1>1, <1>3 DEF TypeOK, Phases, Eras
<1>5. Order'
  <2>1. ~hostClock' => recoveredAt' = 2
    BY <1>1 DEF TypeOK
  <2>2. \A e \in ledger' : e.era <= era'
    BY <1>1, <1>2
  <2>. QED
    BY <1>1, <2>1, <2>2 DEF Order, Before, During, Afterwards
<1>6. Relieved'
  <2>1. \A e \in ledger : e.era # 2
    BY <1>2
  <2>. QED
    BY <1>1, <1>3, <2>1 DEF Relieved, Tell
<1>7. Remembered' /\ Undisturbed' /\ Credited' /\ Settled' /\ PassIsQuiet'
  BY <1>1 DEF Remembered, Undisturbed, Credited, Settled, PassIsQuiet, Before
<1>. QED
  BY <1>4, <1>5, <1>6, <1>7

LEMMA RecoverInductive ==
  ASSUME Inductive, UNCHANGED scenario, Recover \/ RecoverThrows
  PROVE  Inductive'
<1>0. Len(Expected) \in Nat /\ Expected' = Expected /\ Alerts' = Alerts /\ Calm' = Calm
      /\ Instances' = Instances /\ Notices' = Notices /\ Events' = Events
  BY ExpectedTyped, SameScenario DEF Inductive
<1>. USE <1>0 DEF Inductive, row, clock, recent, alerting
<1>1. pc = "recover" /\ pc' = "resolve" /\ i' = 1 /\ quiet' = Instances \ firing
      /\ faulted' \in BOOLEAN /\ threw' \in BOOLEAN
      /\ UNCHANGED <<touched, firing, flushed, flushes, ledger, promUp, sinkUp, began, burned,
                     lulled, belated, era, recoveredAt, hostClock, fired, resolved, blemished,
                     status>>
  BY DEF Recover, RecoverThrows, Goto, TypeOK
<1>2. TypeOK'
  BY <1>1 DEF TypeOK, Phases
<1>3. Order' /\ Remembered' /\ Relieved' /\ Undisturbed'
  BY <1>1 DEF Order, Remembered, Relieved, Undisturbed, Tell, Before, During, Afterwards
<1>4. Credited' /\ Settled' /\ PassIsQuiet'
  BY <1>1 DEF Credited, Settled, PassIsQuiet, Before
<1>. QED
  BY <1>2, <1>3, <1>4

(* A resolution on the sink's clock is an event of the recovery's era, of  *)
(* the very instance that was credited.                                    *)
LEMMA ResolvedOnTime ==
  ASSUME Inductive, UNCHANGED scenario, Resolve, ~hostClock,
         NEW x \in fired, x.alert \in resolved' \ resolved
  PROVE  x \in lulled \cup belated
<1>1. pc = "resolve" /\ era = 2 /\ recoveredAt = 2
  BY DEF Inductive, Resolve, Order, Afterwards
<1>2. x.alert = Expected[i] /\ ResolvedOf(Expected[i]) # {}
  BY DEF Resolve
<1>3. PICK y \in fired : y \in Shows(Expected[i], "resolved", recoveredAt)
  BY <1>2 DEF ResolvedOf
<1>4. y = x
  BY <1>2, <1>3 DEF Shows, Inductive, Credited
<1>5. PICK e \in ledger : e.of = x /\ e.status = "resolved" /\ e.era >= 2
  BY <1>1, <1>3, <1>4, Shown
<1>6. e.era = 2
  <2>1. e.era \in Nat /\ e.era <= 2
    BY <1>1 DEF Inductive, TypeOK, Events, Eras, Order
  <2>. QED
    BY <1>5, <2>1
<1>. QED
  BY <1>1, <1>5, <1>6 DEF Inductive, Relieved, Tell

LEMMA ResolveInductive ==
  ASSUME Inductive, UNCHANGED scenario, Resolve
  PROVE  Inductive'
<1>0. Len(Expected) \in Nat /\ Expected' = Expected /\ Alerts' = Alerts /\ Calm' = Calm
      /\ Instances' = Instances /\ Notices' = Notices /\ Events' = Events
      /\ Expected[i] \in Alerts
  BY ExpectedTyped, SameScenario DEF Inductive, TypeOK, Resolve
<1>. USE <1>0 DEF Inductive, world, clock, seen, recent, alerting
<1>1. /\ pc = "resolve" /\ i' = i + 1 /\ i <= Len(Expected)
      /\ resolved' \in {resolved, resolved \cup {Expected[i]}}
      /\ UNCHANGED <<faulted, touched, firing, flushed, flushes, ledger, promUp, sinkUp, began,
                     burned, lulled, belated, quiet, pc, era, recoveredAt, hostClock, fired,
                     blemished, threw, status>>
  BY DEF Resolve
<1>2. TypeOK'
  BY <1>1 DEF TypeOK
<1>3. Order' /\ Remembered' /\ Relieved' /\ Undisturbed'
  BY <1>1 DEF Order, Remembered, Relieved, Undisturbed, Tell
<1>4. Credited' /\ Settled' /\ PassIsQuiet'
  BY <1>1 DEF Credited, Settled, PassIsQuiet
<1>. QED
  BY <1>2, <1>3, <1>4

(* In a calm lab PASS is given when Prometheus holds nothing firing.       *)
LEMMA GradeInductive ==
  ASSUME Inductive, UNCHANGED scenario, Grade
  PROVE  Inductive'
<1>0. Len(Expected) \in Nat /\ Expected' = Expected /\ Alerts' = Alerts /\ Calm' = Calm
      /\ Instances' = Instances /\ Notices' = Notices /\ Events' = Events
  BY ExpectedTyped, SameScenario DEF Inductive
<1>. USE <1>0 DEF Inductive, world, clock, seen, recent, alerting, Goto
<1>1. /\ pc = "resolve" /\ pc' = "graded" /\ i' = 1
      /\ UNCHANGED <<faulted, touched, firing, flushed, flushes, ledger, promUp, sinkUp, began,
                     burned, lulled, belated, quiet, era, recoveredAt, hostClock, fired,
                     resolved, threw>>
  BY DEF Grade
<1>2. PICK c \in BOOLEAN : blemished' = (blemished \/ FiringNow # {} \/ c)
  BY DEF Grade, Contradicts
<1>3. blemished' \in BOOLEAN /\ (~blemished' => FiringNow = {})
  <2>1. blemished \in BOOLEAN
    BY DEF TypeOK
  <2>. QED
    BY <1>2, <2>1
<1>4. status' = Verdict(blemished')
  BY DEF Grade
<1>5. status' \in {"FAIL", "WARN", "PASS"} /\ (status' = "PASS" => FiringNow = {})
  BY <1>3, <1>4, VerdictTyped
<1>6. TypeOK'
  BY <1>1, <1>3, <1>5 DEF TypeOK, Phases
<1>7. Order' /\ Remembered' /\ Relieved' /\ Undisturbed'
  BY <1>1 DEF Order, Remembered, Relieved, Undisturbed, Tell, Before, During, Afterwards
<1>8. Credited' /\ Settled'
  BY <1>1 DEF Credited, Settled, Before
<1>9. PassIsQuiet'
  <2>1. Calm /\ FiringNow = {} => firing = {}
    BY DEF Undisturbed, FiringNow
  <2>. QED
    BY <1>1, <1>5, <2>1 DEF Settled, PassIsQuiet
<1>. QED
  BY <1>6, <1>7, <1>8, <1>9

(* Prometheus: alerts begin to fire and stop.                              *)
LEMMA AlertsInductive ==
  ASSUME Inductive, UNCHANGED scenario, NEW x \in Instances, Fire(x) \/ Clear(x)
  PROVE  Inductive'
<1>0. Len(Expected) \in Nat /\ Expected' = Expected /\ Alerts' = Alerts /\ Calm' = Calm
      /\ Instances' = Instances /\ Notices' = Notices /\ Events' = Events
  BY ExpectedTyped, SameScenario DEF Inductive
<1>. USE <1>0 DEF Inductive, harness, clock, row
<1>1. UNCHANGED <<faulted, touched, flushed, flushes, ledger, promUp, sinkUp, belated, pc, i, era,
                  recoveredAt, hostClock, fired, resolved, blemished, threw, status>>
      /\ pc \notin {"graded", "abandoned"}
  BY DEF Fire, Clear, Watched
<1>2. Order' /\ Credited'
  BY <1>1 DEF Order, Credited
<1>3. status # "PASS"
  BY <1>1 DEF Settled
<1>4. CASE Fire(x)
  <2>1. /\ firing' = firing \cup {x} /\ touched /\ UNCHANGED <<lulled, quiet>>
        /\ began \subseteq began' /\ began' \subseteq Instances
        /\ burned \subseteq burned' /\ burned' \subseteq Instances
        /\ (era = 1 => x \in began' /\ x \in burned')
    BY <1>4 DEF Fire, InjectedAt, TypeOK
  <2>2. TypeOK'
    BY <1>1, <2>1 DEF TypeOK
  <2>3. Remembered' /\ Relieved'
    BY <1>1, <2>1 DEF Remembered, Relieved, Tell
  <2>4. Undisturbed'
    BY <1>1, <2>1 DEF Undisturbed, Tell, Before, Order, During
  <2>5. Settled' /\ PassIsQuiet'
    BY <1>1, <1>3, <2>1 DEF Settled, PassIsQuiet
  <2>. QED
    BY <1>2, <2>2, <2>3, <2>4, <2>5
<1>5. CASE Clear(x)
  <2>1. /\ firing' = firing \ {x} /\ UNCHANGED <<began, burned>>
        /\ lulled \subseteq lulled' /\ lulled' \subseteq Instances
        /\ quiet \subseteq quiet' /\ quiet' \subseteq Instances
        /\ (era = 2 => x \in lulled') /\ (pc = "resolve" => x \in quiet')
    BY <1>5 DEF Clear, InjectedAt, TypeOK
  <2>2. TypeOK'
    BY <1>1, <2>1 DEF TypeOK
  <2>3. Remembered' /\ Relieved' /\ Undisturbed'
    BY <1>1, <2>1 DEF Remembered, Relieved, Undisturbed, Tell
  <2>4. Settled' /\ PassIsQuiet'
    BY <1>1, <1>3, <2>1 DEF Settled, PassIsQuiet
  <2>. QED
    BY <1>2, <2>2, <2>3, <2>4
<1>. QED
  BY <1>4, <1>5

(* Alertmanager flushes what an alert is; what it flushed before arrives.  *)
LEMMA WebhooksInductive ==
  ASSUME Inductive, UNCHANGED scenario, NEW n \in Notices, Flush(n) \/ Deliver(n)
  PROVE  Inductive'
<1>0. Len(Expected) \in Nat /\ Expected' = Expected /\ Alerts' = Alerts /\ Calm' = Calm
      /\ Instances' = Instances /\ Notices' = Notices /\ Events' = Events
  BY ExpectedTyped, SameScenario DEF Inductive
<1>. USE <1>0 DEF Inductive, harness, clock, row, seen, recent
<1>1. UNCHANGED <<faulted, touched, firing, promUp, sinkUp, began, burned, lulled, belated, quiet,
                  pc, i, era, recoveredAt, hostClock, fired, resolved, blemished, threw, status>>
  BY DEF Flush, Deliver
<1>2. /\ n.of \in Instances
      /\ \A m \in flushed' : m \in flushed
            \/ (m = n /\ m.status = IF m.of \in firing THEN "firing" ELSE "resolved")
      /\ \A e \in ledger' : e \in ledger
            \/ (e = [of |-> n.of, status |-> n.status, era |-> era] /\ n \in flushed)
  BY DEF Flush, Deliver, Notices
<1>3. TypeOK'
  <2>1. flushed' \subseteq Notices
    BY <1>2 DEF TypeOK
  <2>2. ledger' \subseteq Events
    BY <1>2 DEF TypeOK, Notices, Events
  <2>3. flushes' \in 0..scenario.maxFlushes
    <3>1. scenario.maxFlushes \in Nat
      BY ScenariosAssumption DEF TypeOK
    <3>. QED
      BY <3>1 DEF Flush, Deliver, TypeOK
  <2>. QED
    BY <1>1, <2>1, <2>2, <2>3 DEF TypeOK
<1>4. Order'
  <2>1. \A e \in ledger' : e.era <= era
    BY <1>2 DEF Order, TypeOK, Eras
  <2>. QED
    BY <1>1, <2>1 DEF Order
<1>5. ASSUME NEW st \in {"firing", "resolved"}, NEW t, NEW X,
             Tell(st, t, X),
             st = "firing" => firing \subseteq X, st = "resolved" => Instances \ firing \subseteq X
      PROVE  /\ \A m \in flushed' : m.status = st => m.of \in X \cup belated
             /\ \A e \in ledger' : e.status = st /\ e.era = t => e.of \in X \cup belated
  <2>1. \A m \in flushed' : m.status = st => m.of \in X \cup belated
    BY <1>2, <1>5 DEF Tell
  <2>2. \A e \in ledger' : e.status = st /\ e.era = t => e.of \in X \cup belated
    BY <1>2, <1>5 DEF Tell
  <2>. QED
    BY <2>1, <2>2
<1>6. Remembered' /\ Relieved'
  BY <1>1, <1>5 DEF Remembered, Relieved, Tell
<1>7. Undisturbed'
  BY <1>1, <1>5 DEF Undisturbed, Tell
<1>8. Credited' /\ Settled' /\ PassIsQuiet'
  BY <1>1 DEF Credited, Settled, PassIsQuiet
<1>. QED
  BY <1>3, <1>4, <1>6, <1>7, <1>8

LEMMA OutagesInductive ==
  ASSUME Inductive, UNCHANGED scenario, PromToggles \/ SinkStops \/ SinkReturns
  PROVE  Inductive'
<1>0. Len(Expected) \in Nat /\ Expected' = Expected /\ Alerts' = Alerts /\ Calm' = Calm
      /\ Instances' = Instances /\ Notices' = Notices /\ Events' = Events
  BY ExpectedTyped, SameScenario DEF Inductive
<1>. USE <1>0 DEF Inductive, harness, clock, row, seen, recent, alerting,
                  PromToggles, SinkStops, SinkReturns
<1>1. ledger' \subseteq ledger /\ promUp' \in BOOLEAN /\ sinkUp' \in BOOLEAN
      /\ (Calm => promUp' = promUp)
      /\ UNCHANGED <<faulted, touched, firing, flushed, flushes, began, burned, lulled, belated,
                     quiet, pc, i, era, recoveredAt, hostClock, fired, resolved, blemished,
                     threw, status>>
  BY DEF TypeOK, Calm
<1>2. TypeOK'
  BY <1>1 DEF TypeOK
<1>3. Order' /\ Remembered' /\ Relieved' /\ Settled' /\ Undisturbed'
  BY <1>1 DEF Order, Remembered, Relieved, Tell, Settled, Undisturbed
<1>4. Credited' /\ PassIsQuiet'
  BY <1>1 DEF Credited, PassIsQuiet
<1>. QED
  BY <1>2, <1>3, <1>4

LEMMA NextInductive ==
  ASSUME Inductive, [Next]_vars
  PROVE  Inductive'
<1>1. CASE (SteadyState \/ SteadyStateTimesOut \/ Stamp \/ StampThrows) /\ UNCHANGED scenario
  BY <1>1, GateInductive
<1>2. CASE (Inject \/ InjectThrows \/ Detect \/ DetectTimesOut \/ Hold) /\ UNCHANGED scenario
  BY <1>2, InjectInductive
<1>3. CASE Restamp /\ UNCHANGED scenario
  BY <1>3, RestampInductive
<1>4. CASE (Recover \/ RecoverThrows) /\ UNCHANGED scenario
  BY <1>4, RecoverInductive
<1>5. CASE Resolve /\ UNCHANGED scenario
  BY <1>5, ResolveInductive
<1>6. CASE Grade /\ UNCHANGED scenario
  BY <1>6, GradeInductive
<1>7. ASSUME NEW x \in Instances, UNCHANGED scenario, Fire(x) \/ Clear(x)
      PROVE  Inductive'
  BY <1>7, AlertsInductive
<1>8. ASSUME NEW n \in Notices, UNCHANGED scenario, Flush(n) \/ Deliver(n)
      PROVE  Inductive'
  BY <1>8, WebhooksInductive
<1>9. CASE (PromToggles \/ SinkStops \/ SinkReturns) /\ UNCHANGED scenario
  BY <1>9, OutagesInductive
<1>10. CASE UNCHANGED vars
  BY <1>10, SameScenario
     DEF vars, world, clock, row, seen, recent, alerting, Inductive, TypeOK, Order, Remembered,
         Relieved, Tell, Credited, Settled, Undisturbed, PassIsQuiet
<1>. QED
  BY <1>1, <1>2, <1>3, <1>4, <1>5, <1>6, <1>7, <1>8, <1>9, <1>10 DEF Next, Harness, Around

LEMMA AlwaysInductive == Spec => []Inductive
<1>1. Inductive /\ [Next]_vars => Inductive'
  BY NextInductive
<1>. QED
  BY <1>1, InitInductive, PTL DEF Spec

(* Every variable of an experiment keeps its type.                         *)
THEOREM TypeCorrect == Spec => []TypeOK
<1>1. Inductive => TypeOK
  BY DEF Inductive
<1>. QED
  BY <1>1, AlwaysInductive, PTL

(* A PASS row: every instance of every expected alert stopped firing after *)
(* recover(), in a lab where Prometheus answers (chaos.mjs, the            *)
(* post-recovery steady state and the grade).                              *)
THEOREM PassedIsQuiet == Spec => []PassIsQuiet
<1>1. Inductive => PassIsQuiet
  BY DEF Inductive
<1>. QED
  BY <1>1, AlwaysInductive, PTL

(* Only Detect credits an instance, and only Resolve a resolution.         *)
LEMMA OnlyDetectCredits ==
  ASSUME [Next]_vars
  PROVE  /\ fired' = fired \/ (Detect /\ UNCHANGED scenario)
         /\ resolved' = resolved \/ (Resolve /\ UNCHANGED scenario)
<1>. USE DEF row
<1>1. CASE (SteadyState \/ SteadyStateTimesOut \/ Stamp \/ StampThrows) /\ UNCHANGED scenario
  BY <1>1 DEF SteadyState, SteadyStateTimesOut, Stamp, StampThrows
<1>2. CASE (Inject \/ InjectThrows \/ Detect \/ DetectTimesOut \/ Hold) /\ UNCHANGED scenario
  BY <1>2 DEF Inject, InjectThrows, Detect, DetectTimesOut, Hold
<1>3. CASE (Restamp \/ Recover \/ RecoverThrows) /\ UNCHANGED scenario
  BY <1>3 DEF Restamp, Recover, RecoverThrows
<1>4. CASE (Resolve \/ Grade) /\ UNCHANGED scenario
  BY <1>4 DEF Resolve, Grade
<1>5. CASE Around
  BY <1>5 DEF Around, Fire, Clear, Flush, Deliver, PromToggles, SinkStops, SinkReturns, harness
<1>6. CASE UNCHANGED vars
  BY <1>6 DEF vars
<1>. QED
  BY <1>1, <1>2, <1>3, <1>4, <1>5, <1>6 DEF Next, Harness

(* A detection began after the injection, or its webhook was on its way at *)
(* that instant (chaos.mjs, the gate and the `since` of sinkEvents).       *)
THEOREM DetectedIsCaused == Spec => DetectionIsCaused
<1>1. Inductive /\ [Next]_vars => [Calm => fired' \ fired \subseteq began \cup belated]_vars
  BY OnlyDetectCredits, Detected
<1>. QED
  BY <1>1, AlwaysInductive, PTL DEF Spec, DetectionIsCaused

(* Through restarts, outages and late webhooks: fired was firing after the *)
(* injection instant, and resolved on the sink's clock, that very instance *)
(* was not firing after the recovery instant - but for the webhooks that   *)
(* were on their way at that instant.                                      *)
THEOREM LedgerIsTrue == Spec => LedgerTellsTheTruth
<1>1. Inductive /\ [Next]_vars =>
        [/\ fired' \ fired \subseteq burned \cup belated
         /\ ~hostClock => \A x \in fired : x.alert \in resolved' \ resolved =>
                            x \in lulled \cup belated]_vars
  BY OnlyDetectCredits, Detected, ResolvedOnTime
<1>. QED
  BY <1>1, AlwaysInductive, PTL DEF Spec, LedgerTellsTheTruth

-----------------------------------------------------------------------------
(* The experiment as ExperimentRow has it.  Before the injection nothing   *)
(* was broken and nothing threw, and only the grade changes the status.    *)
Untroubled ==
  /\ pc \in {"gate", "stamp", "inject"} => ~faulted
  /\ pc \in {"gate", "stamp", "inject", "detect"} => ~threw
  /\ pc # "graded" => status = "FAIL"

LEMMA InitUntroubled == Init => Untroubled
BY DEF Init, Untroubled

(* What goes on around the harness is not in the row.                      *)
LEMMA AroundIsOutside ==
  ASSUME Around
  PROVE  UNCHANGED <<pc, faulted, threw, status>>
BY DEF Around, Fire, Clear, Flush, Deliver, PromToggles, SinkStops, SinkReturns, harness, row

LEMMA StepUntroubled == Untroubled /\ [Next]_vars => Untroubled'
<1>. SUFFICES ASSUME Untroubled, [Next]_vars PROVE Untroubled'
  OBVIOUS
<1>. USE DEF Untroubled, Goto, world, row
<1>1. CASE SteadyState \/ SteadyStateTimesOut \/ Stamp \/ StampThrows
  BY <1>1 DEF SteadyState, SteadyStateTimesOut, Stamp, StampThrows
<1>2. CASE Inject \/ InjectThrows \/ Detect \/ DetectTimesOut \/ Hold
  <2>1. CASE Inject \/ InjectThrows \/ Hold
    BY <2>1 DEF Inject, InjectThrows, Hold
  <2>2. CASE Detect \/ DetectTimesOut
    <3>1. UNCHANGED <<pc, faulted, threw, status>>
      BY <2>2 DEF Detect, DetectTimesOut
    <3>. QED
      BY <3>1
  <2>. QED
    BY <1>2, <2>1, <2>2
<1>3. CASE Restamp \/ Recover \/ RecoverThrows
  BY <1>3 DEF Restamp, Recover, RecoverThrows
<1>4. CASE Resolve \/ Grade
  BY <1>4 DEF Resolve, Grade
<1>5. CASE Around
  BY <1>5, AroundIsOutside
<1>6. CASE UNCHANGED vars
  BY <1>6 DEF vars
<1>. QED
  BY <1>1, <1>2, <1>3, <1>4, <1>5, <1>6 DEF Next, Harness

(* A row whose inject() or recover() threw fails.                          *)
LEMMA VerdictOfThrow ==
  ASSUME NEW b
  PROVE  Verdict(b) \in {"FAIL", "WARN", "PASS"} /\ (threw => Verdict(b) = "FAIL")
BY DEF Verdict

(* Each step of the harness is one of the contract's or a stutter.         *)
LEMMA StepKeepsTheContract ==
  ASSUME Untroubled, [Next]_vars, {faulted, threw} \subseteq BOOLEAN
  PROVE  [Row!Next]_(Row!row)
<1>. USE DEF Untroubled, Goto, world, row, Row!Next, Row!row, Stage
<1>1. CASE SteadyState \/ Stamp
  BY <1>1 DEF SteadyState, Stamp, Row!Try
<1>2. CASE SteadyStateTimesOut \/ StampThrows
  BY <1>2 DEF SteadyStateTimesOut, StampThrows, Row!PassOver
<1>3. CASE Inject
  BY <1>3 DEF Inject, Row!InjectReturns
<1>4. CASE InjectThrows
  BY <1>4 DEF InjectThrows, Row!InjectThrows
<1>5. CASE Detect \/ DetectTimesOut \/ Hold
  BY <1>5 DEF Detect, DetectTimesOut, Hold, Row!Measured
<1>6. CASE Restamp
  BY <1>6 DEF Restamp
<1>7. CASE Recover
  BY <1>7 DEF Recover, Row!Recovers
<1>8. CASE RecoverThrows
  BY <1>8 DEF RecoverThrows, Row!RecoverThrows
<1>9. CASE Resolve
  BY <1>9 DEF Resolve
<1>10. CASE Grade
  BY <1>10, VerdictOfThrow DEF Grade, Row!Grade
<1>11. CASE Around
  BY <1>11, AroundIsOutside
<1>12. CASE UNCHANGED vars
  BY <1>12 DEF vars
<1>. QED
  BY <1>1, <1>2, <1>3, <1>4, <1>5, <1>6, <1>7, <1>8, <1>9, <1>10, <1>11, <1>12
     DEF Next, Harness

(* The measurement implements the contract of a row, whatever alerts,      *)
(* webhooks and outages do (chaos.mjs, the try / catch / finally of the    *)
(* loop and the grade): what KeepsTheContract asks, but for its liveness.  *)
THEOREM ContractKept == Spec => Row!Spec
<1>1. Init => Row!Init
  BY DEF Init, Row!Init, Stage
<1>2. Inductive => {faulted, threw} \subseteq BOOLEAN
  BY DEF Inductive, TypeOK
<1>3. Untroubled /\ Inductive /\ [Next]_vars => [Row!Next]_(Row!row)
  BY <1>2, StepKeepsTheContract
<1>4. Spec => []Untroubled
  BY InitUntroubled, StepUntroubled, PTL DEF Spec
<1>. QED
  BY <1>1, <1>3, <1>4, AlwaysInductive, PTL DEF Spec, Row!Spec

(* What the contract is worth: a settling row that did not fail is mended, *)
(* so a graded one is.                                                     *)
Failed == threw /\ Stage \in {"recovering", "settling"}
Mended == Row!GradedIsMended /\ (Stage = "settling" => Failed \/ ~faulted)

(* A PASS or WARN row names a fault that recover() took out of the lab.    *)
THEOREM GradedRowIsMended == Spec => []Row!GradedIsMended
<1>1. Row!Init => Mended
  BY DEF Row!Init, Row!GradedIsMended, Mended
<1>2. Mended /\ [Row!Next]_(Row!row) => Mended'
  <2>. SUFFICES ASSUME Mended, [Row!Next]_(Row!row) PROVE Mended'
    OBVIOUS
  <2>. USE DEF Mended, Failed, Row!GradedIsMended
  <2>1. CASE Row!Launch \/ Row!PassOver \/ Row!Try \/ Row!Leave
    BY <2>1 DEF Row!Launch, Row!PassOver, Row!Try, Row!Leave
  <2>2. CASE Row!InjectReturns \/ Row!InjectThrows \/ Row!Measured
    BY <2>2 DEF Row!InjectReturns, Row!InjectThrows, Row!Measured
  <2>3. CASE Row!Recovers \/ Row!RecoverThrows
    BY <2>3 DEF Row!Recovers, Row!RecoverThrows
  <2>4. CASE Row!Grade
    BY <2>4 DEF Row!Grade
  <2>5. CASE Row!Elsewhere \/ UNCHANGED Row!row
    BY <2>5 DEF Row!Elsewhere, Row!row
  <2>. QED
    BY <2>1, <2>2, <2>3, <2>4, <2>5 DEF Row!Next
<1>3. Mended => Row!GradedIsMended
  BY DEF Mended
<1>. QED
  BY <1>1, <1>2, <1>3, ContractKept, PTL DEF Row!Spec

-----------------------------------------------------------------------------
(* Why the experiment ends: each step of the harness uses up one of a      *)
(* number of steps that the length of the alert list bounds, and nothing   *)
(* that Prometheus, Alertmanager or the sink does gives it any back.       *)
Rank ==
  CASE pc = "gate" -> 7 [] pc = "stamp" -> 6 [] pc = "inject" -> 5 [] pc = "detect" -> 4
    [] pc = "restamp" -> 3 [] pc = "recover" -> 2 [] pc = "resolve" -> 1
    [] pc \in {"graded", "abandoned"} -> 0

Turns == Len(Expected) + 2          \* of a loop over Expected, and one more
StepsLeft == Rank * Turns + (Turns - i)

HarnessAdvances ==
  [][ /\ Harness => StepsLeft' < StepsLeft
      /\ Around => StepsLeft' = StepsLeft ]_vars

LEMMA RankTyped == pc \in Phases => Rank \in 0..7
BY DEF Phases, Rank

(* To another phase: a full loop is more than what is left of this one.    *)
LEMMA LoopsAreShort ==
  ASSUME NEW r \in Nat, NEW q \in Nat, q < r, NEW t \in Nat, NEW j \in 1..(t - 1)
  PROVE  q * t + (t - 1) < r * t + (t - j)
<1>1. r = q + 1 + (r - q - 1) /\ r - q - 1 \in Nat
  OBVIOUS
<1>2. PICK d \in Nat : r = q + 1 + d
  BY <1>1
<1>3. r * t = q * t + t + d * t /\ d * t \in Nat /\ q * t \in Nat
  BY <1>2
<1>. QED
  BY <1>3

LEMMA GotoAdvances ==
  ASSUME TypeOK, UNCHANGED scenario, pc' \in Phases, i' = 1, Rank' < Rank
  PROVE  StepsLeft' < StepsLeft
<1>1. Turns \in Nat /\ i \in 1..(Turns - 1) /\ Turns' = Turns
  BY ScenariosAssumption DEF TypeOK, Turns, Expected
<1>2. Rank \in Nat /\ Rank' \in Nat
  BY RankTyped DEF TypeOK, Rank, Phases
<1>. HIDE DEF Rank, Turns
<1>3. Rank' * Turns + (Turns - 1) < Rank * Turns + (Turns - i)
  BY <1>1, <1>2, LoopsAreShort
<1>. QED
  BY <1>1, <1>3 DEF StepsLeft

LEMMA TurnAdvances ==
  ASSUME TypeOK, UNCHANGED <<scenario, pc>>, i' = i + 1
  PROVE  StepsLeft' < StepsLeft
<1>1. Turns \in Nat /\ i \in Nat /\ Turns' = Turns
  BY ScenariosAssumption DEF TypeOK, Turns, Expected
<1>2. Rank \in Nat /\ Rank' = Rank
  <2>1. Rank \in Nat
    BY RankTyped DEF TypeOK
  <2>2. Rank' = Rank
    BY DEF Rank
  <2>. QED
    BY <2>1, <2>2
<1>3. Rank * Turns \in Nat
  BY <1>1, <1>2
<1>. QED
  BY <1>1, <1>2, <1>3 DEF StepsLeft

LEMMA StepAdvances ==
  ASSUME TypeOK, Next
  PROVE  (Harness => StepsLeft' < StepsLeft) /\ (Around => StepsLeft' = StepsLeft)
<1>. USE DEF Next, Goto
<1>1. ASSUME \/ SteadyState \/ SteadyStateTimesOut \/ Stamp \/ StampThrows
             \/ Inject \/ InjectThrows \/ Hold \/ Restamp \/ Recover \/ RecoverThrows
             \/ Grade
      PROVE  StepsLeft' < StepsLeft
  <2>1. i' = 1 /\ pc' \in Phases
    BY <1>1 DEF SteadyState, SteadyStateTimesOut, Stamp, StampThrows, Inject, InjectThrows, Hold,
         Restamp, Recover, RecoverThrows, Grade, Phases
  <2>2. Rank' < Rank
    <3>1. CASE SteadyState \/ SteadyStateTimesOut \/ Stamp \/ StampThrows
      BY <3>1 DEF SteadyState, SteadyStateTimesOut, Stamp, StampThrows, Rank
    <3>2. CASE Inject
      BY <3>2 DEF Inject, Rank
    <3>3. CASE InjectThrows \/ Hold
      <4>1. pc \in {"inject", "detect"} /\ pc' = "restamp"
        BY <3>3 DEF InjectThrows, Hold
      <4>. QED
        BY <4>1 DEF Rank
    <3>4. CASE Restamp \/ Recover \/ RecoverThrows
      <4>1. <<pc, pc'>> \in {<<"restamp", "recover">>, <<"recover", "resolve">>}
        BY <3>4 DEF Restamp, Recover, RecoverThrows
      <4>. QED
        BY <4>1 DEF Rank
    <3>5. CASE Grade
      BY <3>5 DEF Grade, Rank
    <3>. QED
      BY <1>1, <3>1, <3>2, <3>3, <3>4, <3>5
  <2>. QED
    BY <2>1, <2>2, GotoAdvances
<1>2. ASSUME Detect \/ DetectTimesOut \/ Resolve
      PROVE  StepsLeft' < StepsLeft
  <2>1. pc' = pc /\ i' = i + 1
    BY <1>2 DEF Detect, DetectTimesOut, Resolve
  <2>. QED
    BY <2>1, TurnAdvances
<1>3. ASSUME Around
      PROVE  StepsLeft' = StepsLeft
  <2>1. pc' = pc /\ i' = i
    BY <1>3 DEF Around, Fire, Clear, Flush, Deliver, PromToggles, SinkStops, SinkReturns,
                harness
  <2>2. Rank' = Rank /\ Turns' = Turns
    BY <2>1 DEF Rank, Turns, Expected
  <2>. QED
    BY <2>1, <2>2 DEF StepsLeft
<1>. QED
  BY <1>1, <1>2, <1>3 DEF Harness

(* The steps left are a natural number, eight turns of a loop over the      *)
(* expected alerts at most.                                                *)
THEOREM StepsAreCounted == Spec => [](StepsLeft \in 0..(8 * Turns))
<1>1. TypeOK => StepsLeft \in 0..(8 * Turns)
  <2>. SUFFICES ASSUME TypeOK PROVE StepsLeft \in 0..(8 * Turns)
    OBVIOUS
  <2>1. Turns \in Nat /\ i \in 1..(Turns - 1)
    BY ScenariosAssumption DEF TypeOK, Turns, Expected
  <2>2. Rank \in 0..7
    BY RankTyped DEF TypeOK
  <2>. HIDE DEF Rank, Turns
  <2>3. Rank * Turns \in 0..(7 * Turns)
    <3>1. CASE Rank \in {0, 1, 2, 3, 4}
      BY <2>1, <3>1
    <3>2. CASE Rank \in {5, 6, 7}
      BY <2>1, <3>2
    <3>. QED
      BY <2>2, <3>1, <3>2
  <2>. QED
    BY <2>1, <2>3 DEF StepsLeft
<1>. QED
  BY <1>1, TypeCorrect, PTL

(* And every step of the harness lowers it, whatever goes on around.       *)
THEOREM HarnessAlwaysAdvances == Spec => HarnessAdvances
<1>1. TypeOK /\ [Next]_vars =>
        [ /\ Harness => StepsLeft' < StepsLeft
          /\ Around => StepsLeft' = StepsLeft ]_vars
  BY StepAdvances
<1>. QED
  BY <1>1, TypeCorrect, PTL DEF Spec, HarnessAdvances

=============================================================================

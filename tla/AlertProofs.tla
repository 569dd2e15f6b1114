------------------------------ MODULE AlertProofs ------------------------------
(***************************************************************************)
(* For every set of queue managers, every window and every `for`: the      *)
(* types of the rules and of the lab, and four promises of alerts.mjs.     *)
(*                                                                         *)
(* The diagnosis is differential: not for the lab but for the two ages of  *)
(* a series; while its last sample is a zero, its last zero is no older    *)
(* than it (Fresh), so the gate, which asks for a sample and for no zero   *)
(* within one window, is shut whenever the other rule sees the zero.       *)
(*                                                                         *)
(* Restarts do not page (Explained), an outage does not resolve because    *)
(* its series went away (Blind), and a restart seen from the client alone  *)
(* is told (Remembered); these rest on how the windows compare with the    *)
(* lab, which each theorem assumes by name.                                *)
(***************************************************************************)
EXTENDS AlertDiagnosis, TLAPS

Fresh == \A q \in Qmgrs : native[q].val = 0 => native[q].zero <= native[q].last

Samples == [val : {0, 1}, last : 0..Lookback, zero : 0..Gate]
Scrapes == [answered : BOOLEAN, status : {0, 2}, uptime : Nat, last : 0..Lookback]
Pending == [run : Nat, quiet : 0..KeepFiring]

LEMMA OlderTyped ==
  ASSUME NEW cap \in Nat, NEW age \in 0..cap
  PROVE  Older(age, cap) \in 0..cap
BY DEF Older

LEMMA ForTyped ==
  ASSUME NEW rule \in Rules
  PROVE  For(rule) \in Nat
BY WindowAssumption DEF Rules, For

LEMMA KeepTyped ==
  ASSUME NEW rule
  PROVE  Keep(rule) \in 0..KeepFiring
BY WindowAssumption DEF Keep

(* One evaluation of one alert keeps its counters in their bounds.         *)
LEMMA AdvanceTyped ==
  ASSUME RulesTypeOK, NEW rule \in Rules, NEW q \in Qmgrs
  PROVE  Advance(rule, q) \in Pending /\ Advance(rule, q).run <= For(rule) + 1
<1>. DEFINE a == alert[rule][q]
<1>1. a \in Pending /\ a.run <= For(rule) + 1
  BY DEF RulesTypeOK, Pending
<1>2. For(rule) \in Nat /\ Keep(rule) \in 0..KeepFiring /\ KeepFiring \in Nat
  BY ForTyped, KeepTyped, WindowAssumption
<1>3. CASE Expr(rule, q)
  <2>1. Older(a.run, For(rule) + 1) \in 0..(For(rule) + 1)
    BY <1>1, <1>2, OlderTyped DEF Pending
  <2>. QED
    BY <1>2, <1>3, <2>1 DEF Advance, Pending
<1>4. CASE ~Expr(rule, q) /\ Firing(rule, q) /\ a.quiet < Keep(rule)
  <2>1. Advance(rule, q) = [a EXCEPT !.quiet = @ + 1]
    BY <1>4 DEF Advance
  <2>. QED
    BY <1>1, <1>2, <1>4, <2>1 DEF Pending
<1>5. CASE ~Expr(rule, q) /\ ~(Firing(rule, q) /\ a.quiet < Keep(rule))
  <2>1. Advance(rule, q) = Inactive
    BY <1>5 DEF Advance
  <2>. QED
    BY <1>2, <2>1 DEF Inactive, Pending
<1>. QED
  BY <1>3, <1>4, <1>5

(* An evaluation ages every series, and keeps the types and Fresh.         *)
LEMMA EvaluateTyped ==
  ASSUME RulesTypeOK, Evaluate
  PROVE  RulesTypeOK'
<1>1. Rules' = Rules /\ vantage' = vantage
  BY DEF Evaluate, Rules
<1>2. ASSUME NEW rule \in Rules PROVE For(rule)' = For(rule)
  BY <1>1 DEF For
<1>3. native' \in [Qmgrs -> Samples]
  <2>1. ASSUME NEW q \in Qmgrs
        PROVE  [native[q] EXCEPT !.last = Older(@, Lookback), !.zero = Older(@, Gate)] \in Samples
    <3>1. native[q] \in Samples /\ native[q].last \in 0..Lookback /\ native[q].zero \in 0..Gate
      BY DEF RulesTypeOK, Samples
    <3>2. Older(native[q].last, Lookback) \in 0..Lookback /\ Older(native[q].zero, Gate) \in 0..Gate
      BY <3>1, OlderTyped, WindowAssumption
    <3>. QED
      BY <3>1, <3>2 DEF Samples
  <2>. QED
    BY <2>1 DEF Evaluate
<1>4. client' \in [Qmgrs -> Scrapes]
  <2>1. ASSUME NEW q \in Qmgrs
        PROVE  [client[q] EXCEPT !.last = Older(@, Lookback)] \in Scrapes
    <3>1. client[q] \in Scrapes /\ client[q].last \in 0..Lookback
      BY DEF RulesTypeOK, Scrapes
    <3>2. Older(client[q].last, Lookback) \in 0..Lookback
      BY <3>1, OlderTyped, WindowAssumption
    <3>. QED
      BY <3>1, <3>2 DEF Scrapes
  <2>. QED
    BY <2>1 DEF Evaluate
<1>5. alert' \in [Rules -> [Qmgrs -> Pending]]
      /\ \A rule \in Rules, q \in Qmgrs : alert'[rule][q].run <= For(rule) + 1
  BY AdvanceTyped DEF Evaluate
<1>. QED
  BY <1>1, <1>2, <1>3, <1>4, <1>5 DEF RulesTypeOK, Samples, Scrapes, Pending

LEMMA EvaluateFresh ==
  ASSUME RulesTypeOK, Fresh, Evaluate
  PROVE  Fresh'
<1>. SUFFICES ASSUME NEW q \in Qmgrs, native'[q].val = 0
              PROVE  native'[q].zero <= native'[q].last
  BY DEF Fresh
<1>1. native[q] \in Samples
  BY DEF RulesTypeOK, Samples
<1>2. native'[q] = [native[q] EXCEPT !.last = Older(@, Lookback), !.zero = Older(@, Gate)]
  BY DEF Evaluate
<1>3. native[q].val = 0 /\ native'[q].last = Older(native[q].last, Lookback)
      /\ native'[q].zero = Older(native[q].zero, Gate)
  BY <1>1, <1>2 DEF Samples
<1>. QED
  BY <1>1, <1>3, WindowAssumption DEF Fresh, Older, Samples

(* The two expressions exclude each other.                                 *)
LEMMA ExprExclusive ==
  ASSUME RulesTypeOK, Fresh, vantage = "dual", NEW q \in Qmgrs
  PROVE  ~(Expr("Down", q) /\ Expr("Unreachable", q))
<1>1. native[q].last \in Nat /\ native[q].zero \in Nat /\ Gate \in Nat
  BY WindowAssumption DEF RulesTypeOK
<1>. QED
  BY <1>1 DEF Expr, NativeGate, Fresh

(* Without keep_firing_for an alert is pending only while its expression   *)
(* holds.                                                                  *)
LEMMA PendingHolds ==
  ASSUME Evaluate, vantage = "dual", NEW rule \in {"Down", "Unreachable"}, NEW q \in Qmgrs,
         alert'[rule][q].run > 0, RulesTypeOK
  PROVE  Expr(rule, q)
<1>1. rule \in Rules /\ Keep(rule) = 0
  BY DEF Rules, Keep
<1>2. alert'[rule][q] = Advance(rule, q)
  BY <1>1 DEF Evaluate
<1>3. ~(alert[rule][q].quiet < Keep(rule))
  BY <1>1, WindowAssumption DEF RulesTypeOK
<1>. QED
  BY <1>2, <1>3 DEF Advance, Inactive

LEMMA EvaluateOneDiagnosis ==
  ASSUME RulesTypeOK, Fresh, Evaluate
  PROVE  OneDiagnosis'
<1>. SUFFICES ASSUME vantage = "dual", NEW q \in Qmgrs,
                     alert'["Down"][q].run > 0, alert'["Unreachable"][q].run > 0
              PROVE  FALSE
  BY DEF OneDiagnosis, Evaluate
<1>. QED
  BY PendingHolds, ExprExclusive

Inductive == TypeOK /\ Fresh /\ OneDiagnosis

LEMMA InitInductive == Init => Inductive
<1>. SUFFICES ASSUME Init PROVE Inductive
  OBVIOUS
<1>1. SinceCap \in Nat
  BY WindowAssumption DEF SinceCap
<1>2. RulesTypeOK
  <2>1. ASSUME NEW rule \in Rules PROVE 0 <= For(rule) + 1
    BY ForTyped
  <2>. QED
    BY <2>1, WindowAssumption DEF Init, RulesInit, RulesTypeOK, NoNative, NoClient, NoUptime, Inactive
<1>3. TypeOK
  BY <1>1, <1>2, EnvironmentAssumption DEF Init, TypeOK, All, Jobs
<1>4. Fresh /\ OneDiagnosis
  BY DEF Init, RulesInit, Fresh, OneDiagnosis, NoNative, Inactive, Rules
<1>. QED
  BY <1>3, <1>4 DEF Inductive

(* Faults and repairs, and the exporter that reconnects, leave the rules   *)
(* alone.                                                                  *)
Environment ==
  \/ \E q \in Qmgrs :
       \/ StopQmgr(q) \/ StartQmgr(q)
       \/ BreakListener(q) \/ FixListener(q)
       \/ StopExporter(q) \/ StartExporter(q)
       \/ Reconnects(q)
  \/ StopCollector \/ StartCollector

LEMMA EnvironmentTyped ==
  ASSUME TypeOK, Environment
  PROVE  TypeOK' /\ UNCHANGED rules
<1>0. SinceCap \in Nat /\ Outage \in Nat /\ Reconnect \in Nat /\ MaxFaults \in Nat
  BY WindowAssumption, EnvironmentAssumption DEF SinceCap
<1>. USE DEF TypeOK, RulesTypeOK, Rules, For, Jobs, rules, history, clock, Fault, Connectable
<1>1. ASSUME NEW q \in Qmgrs, StopQmgr(q) PROVE TypeOK' /\ UNCHANGED rules
  BY <1>0, <1>1 DEF StopQmgr
<1>2. ASSUME NEW q \in Qmgrs, StartQmgr(q) PROVE TypeOK' /\ UNCHANGED rules
  BY <1>0, <1>2 DEF StartQmgr
<1>3. ASSUME NEW q \in Qmgrs, BreakListener(q) PROVE TypeOK' /\ UNCHANGED rules
  BY <1>0, <1>3 DEF BreakListener
<1>4. ASSUME NEW q \in Qmgrs, FixListener(q) PROVE TypeOK' /\ UNCHANGED rules
  BY <1>0, <1>4 DEF FixListener
<1>5. ASSUME NEW q \in Qmgrs, StopExporter(q) PROVE TypeOK' /\ UNCHANGED rules
  BY <1>0, <1>5 DEF StopExporter
<1>6. ASSUME NEW q \in Qmgrs, StartExporter(q) PROVE TypeOK' /\ UNCHANGED rules
  BY <1>0, <1>6 DEF StartExporter
<1>7. ASSUME NEW q \in Qmgrs, Reconnects(q) PROVE TypeOK' /\ UNCHANGED rules
  BY <1>0, <1>7 DEF Reconnects
<1>8. CASE StopCollector
  <2>1. excused' = Qmgrs /\ collector' = FALSE /\ faults' \in 0..MaxFaults
        /\ UNCHANGED <<rules, lab, stopped, back, clock>>
    BY <1>0, <1>8 DEF StopCollector
  <2>. QED
    BY <1>0, <2>1 DEF lab
<1>9. CASE StartCollector
  BY <1>0, <1>9 DEF StartCollector, lab
<1>. QED
  BY <1>1, <1>2, <1>3, <1>4, <1>5, <1>6, <1>7, <1>8, <1>9 DEF Environment

LEMMA ScrapeNativeInductive ==
  ASSUME Inductive, ScrapeNative
  PROVE  Inductive'
<1>1. ASSUME NEW q \in Qmgrs, NEW up \in {0, 1}
      PROVE  /\ NativeSample(native[q], up) \in Samples
             /\ NativeSample(native[q], up).val = 0
                  => NativeSample(native[q], up).zero <= NativeSample(native[q], up).last
  BY WindowAssumption DEF Inductive, TypeOK, RulesTypeOK, NativeSample, Samples
<1>2. native' \in [Qmgrs -> Samples] /\ Fresh'
  BY <1>1 DEF ScrapeNative, Inductive, TypeOK, RulesTypeOK, Samples, Fresh
<1>3. TypeOK'
  BY <1>2 DEF ScrapeNative, Inductive, TypeOK, RulesTypeOK, Samples, Rules, For, Jobs, lab, history
<1>4. OneDiagnosis'
  BY DEF ScrapeNative, Inductive, OneDiagnosis
<1>. QED
  BY <1>2, <1>3, <1>4 DEF Inductive

LEMMA ScrapeClientInductive ==
  ASSUME Inductive, ScrapeClient
  PROVE  Inductive'
<1>0. SinceCap \in Nat /\ Retry - 1 \in Nat /\ 1 \in 0..Retry - 1 /\ 0 \in 0..Retry - 1
  BY WindowAssumption, EnvironmentAssumption DEF SinceCap
<1>1. client' \in [Qmgrs -> Scrapes] /\ mute' \in [Qmgrs -> 0..Retry - 1]
      /\ stopped' \in [Qmgrs -> BOOLEAN] /\ back' \in [Qmgrs -> BOOLEAN]
  <2>1. CASE collector
    <3>1. PICK answers \in [Qmgrs -> BOOLEAN] :
            /\ client' = [q \in Qmgrs |->
                 ClientSample(answers[q], IF linked[q] THEN 2 ELSE 0, Uptime(q))]
            /\ mute' = [q \in Qmgrs |->
                 IF process[q] THEN 1 ELSE IF answers[q] THEN 0 ELSE Older(mute[q], Retry - 1)]
      BY <2>1 DEF ScrapeClient
    <3>2. ASSUME NEW q \in Qmgrs
          PROVE  ClientSample(answers[q], IF linked[q] THEN 2 ELSE 0, Uptime(q)) \in Scrapes
      BY <1>0, WindowAssumption DEF Inductive, TypeOK, ClientSample, Scrapes, Uptime, NoUptime
    <3>3. ASSUME NEW q \in Qmgrs PROVE Older(mute[q], Retry - 1) \in 0..Retry - 1
      BY <1>0, OlderTyped DEF Inductive, TypeOK
    <3>4. client' \in [Qmgrs -> Scrapes]
      BY <3>1, <3>2
    <3>5. mute' \in [Qmgrs -> 0..Retry - 1]
      BY <1>0, <3>1, <3>3
    <3>6. stopped' \in [Qmgrs -> BOOLEAN] /\ back' \in [Qmgrs -> BOOLEAN]
      BY <2>1 DEF ScrapeClient
    <3>. QED
      BY <3>4, <3>5, <3>6
  <2>2. CASE ~collector
    BY <2>2 DEF ScrapeClient, Inductive, TypeOK, RulesTypeOK, Scrapes
  <2>. QED
    BY <2>1, <2>2
<1>2. TypeOK'
  BY <1>1 DEF ScrapeClient, Inductive, TypeOK, RulesTypeOK, Scrapes, Rules, For, Jobs
<1>3. Fresh' /\ OneDiagnosis'
  BY DEF ScrapeClient, Inductive, Fresh, OneDiagnosis
<1>. QED
  BY <1>2, <1>3 DEF Inductive

LEMMA EvaluateRulesInductive ==
  ASSUME Inductive, EvaluateRules
  PROVE  Inductive'
<1>1. RulesTypeOK' /\ Fresh' /\ OneDiagnosis' /\ vantage' = vantage
  BY EvaluateTyped, EvaluateFresh, EvaluateOneDiagnosis
     DEF EvaluateRules, Inductive, TypeOK, Evaluate
<1>2. slack' \in [Qmgrs -> 0..Reconnect] /\ since' \in [Qmgrs -> 0..SinceCap]
  <2>1. SinceCap \in Nat /\ Reconnect \in Nat
    BY WindowAssumption, EnvironmentAssumption DEF SinceCap
  <2>2. ASSUME NEW q \in Qmgrs PROVE Older(since[q], SinceCap) \in 0..SinceCap
    BY <2>1, OlderTyped DEF Inductive, TypeOK
  <2>. QED
    BY <2>1, <2>2 DEF EvaluateRules, Inductive, TypeOK
<1>3. TypeOK'
  BY <1>1, <1>2 DEF EvaluateRules, Inductive, TypeOK, Jobs, history
<1>. QED
  BY <1>1, <1>3 DEF Inductive

LEMMA NextInductive ==
  ASSUME Inductive, [Next]_vars
  PROVE  Inductive'
<1>1. CASE Environment
  <2>1. TypeOK' /\ UNCHANGED rules
    BY <1>1, EnvironmentTyped DEF Inductive
  <2>2. Fresh' /\ OneDiagnosis'
    BY <2>1 DEF Inductive, Fresh, OneDiagnosis, rules
  <2>. QED
    BY <2>1, <2>2 DEF Inductive
<1>2. CASE ScrapeNative
  BY <1>2, ScrapeNativeInductive
<1>3. CASE ScrapeClient
  BY <1>3, ScrapeClientInductive
<1>4. CASE EvaluateRules
  BY <1>4, EvaluateRulesInductive
<1>5. CASE UNCHANGED vars
  BY <1>5 DEF vars, rules, lab, history, clock, Inductive, TypeOK, RulesTypeOK, Rules, For, Jobs,
              Fresh, OneDiagnosis
<1>. QED
  BY <1>1, <1>2, <1>3, <1>4, <1>5 DEF Next, Monitor, Environment

LEMMA AlwaysInductive == Spec => []Inductive
<1>1. Inductive /\ [Next]_vars => Inductive'
  BY NextInductive
<1>. QED
  BY <1>1, InitInductive, PTL DEF Spec

(* The counters, ages and flags of rules and lab stay in their ranges.     *)
THEOREM DiagnosisTyped == Spec => []TypeOK
<1>1. Inductive => TypeOK
  BY DEF Inductive
<1>. QED
  BY <1>1, AlwaysInductive, PTL

(* Down and Unreachable of one queue manager are never pending or firing   *)
(* together: alerts.mjs promises a differential diagnosis.                 *)
THEOREM DiagnosisIsDifferential == Spec => []OneDiagnosis
<1>1. Inductive => OneDiagnosis
  BY DEF Inductive
<1>. QED
  BY <1>1, AlwaysInductive, PTL
-----------------------------------------------------------------------------
(* Restarts.  For a queue manager whose listener never broke, and while no *)
(* sample was lost: a queue manager that was down over an evaluation left  *)
(* a zero, which is as old as its restart (ZeroIsRecent), and the exporter *)
(* is back before the gate has forgotten it; what a scrape finds without   *)
(* a connection is either behind the gate or the stop of this very period  *)
(* (SampleIsExplained), which lasts one evaluation (OneEvaluation).        *)
StopIsSeen(q) ==
  ~process[q] =>
    /\ since[q] >= 1 /\ "native" \notin todo => native[q].zero = 0
    /\ since[q] >= 2 => native[q].zero <= 1
ZeroIsRecent(q) ==
  process[q] /\ exporter[q] /\ ~linked[q] /\ slack[q] > 0 =>
    native[q].zero + slack[q] <= Reconnect + 1
SampleIsExplained(q) ==
  "client" \notin todo /\ client[q].answered /\ client[q].status # 2 =>
    \/ native[q].zero < Gate
    \/ ~process[q] /\ since[q] <= 1 /\ ("native" \in todo \/ since[q] = 0)
OneEvaluation(q) ==
  alert["Unreachable"][q].run > 0 =>
    alert["Unreachable"][q].run = 1 /\ ~process[q] /\ since[q] = 1

Intact(q) == listener[q] /\ collector
Restarting(q) == StopIsSeen(q) /\ ZeroIsRecent(q) /\ SampleIsExplained(q) /\ OneEvaluation(q)
Explained ==
  vantage = "dual" => \A q \in Qmgrs : q \notin excused => Intact(q) /\ Restarting(q)

(* The ranges of what one queue manager's predicates read.                 *)
LEMMA LabTyped ==
  ASSUME TypeOK, NEW q \in Qmgrs
  PROVE  /\ process[q] \in BOOLEAN /\ listener[q] \in BOOLEAN /\ exporter[q] \in BOOLEAN
         /\ linked[q] \in BOOLEAN /\ stopped[q] \in BOOLEAN /\ back[q] \in BOOLEAN
         /\ slack[q] \in Nat /\ since[q] \in Nat /\ since[q] <= SinceCap /\ SinceCap \in Nat \ {0}
         /\ native[q] \in Samples /\ native[q].zero \in Nat /\ native[q].zero <= Gate
         /\ native[q].last \in Nat /\ native[q].last <= Lookback
         /\ Gate \in Nat \ {0} /\ Lookback \in Nat /\ Reconnect \in Nat /\ Outage \in Nat
         /\ RestartWindow \in Nat
BY WindowAssumption, EnvironmentAssumption DEF TypeOK, RulesTypeOK, SinceCap, Samples

LEMMA EnvironmentExplained ==
  ASSUME TypeOK, Explained, GateCoversRestart, Environment
  PROVE  Explained'
<1>. SUFFICES ASSUME vantage = "dual", NEW q \in Qmgrs, q \notin excused'
              PROVE  Intact(q)' /\ Restarting(q)'
  <2>1. vantage' = vantage
    BY EnvironmentTyped DEF rules
  <2>. QED
    BY <2>1 DEF Explained
<1>1. UNCHANGED rules /\ UNCHANGED todo
  BY EnvironmentTyped
     DEF Environment, StopQmgr, StartQmgr, BreakListener, FixListener, StopExporter, StartExporter,
         Reconnects, StopCollector, StartCollector, clock
<1>2. native' = native /\ client' = client /\ alert' = alert /\ todo' = todo
  BY <1>1 DEF rules
<1>3. ASSUME NEW p \in Qmgrs, StopQmgr(p) PROVE Intact(q)' /\ Restarting(q)'
  <2>1. q \notin excused /\ listener' = listener /\ collector' = collector
        /\ exporter' = exporter /\ slack' = slack
    BY <1>3 DEF StopQmgr
  <2>2. Intact(q) /\ Restarting(q)
    BY <2>1 DEF Explained
  <2>3. process[p] /\ process' = [process EXCEPT ![p] = FALSE] /\ since' = [since EXCEPT ![p] = 0]
        /\ linked' = [linked EXCEPT ![p] = FALSE]
    BY <1>3 DEF StopQmgr
  <2>4. process \in [Qmgrs -> BOOLEAN] /\ since \in [Qmgrs -> 0..SinceCap]
        /\ linked \in [Qmgrs -> BOOLEAN]
    BY DEF TypeOK
  <2>5. IF q = p THEN ~process'[q] /\ since'[q] = 0 /\ process[q]
        ELSE process'[q] = process[q] /\ since'[q] = since[q] /\ linked'[q] = linked[q]
    BY <2>3, <2>4
  <2>. QED
    BY <1>2, <2>1, <2>2, <2>5
       DEF Intact, Restarting, StopIsSeen, ZeroIsRecent, SampleIsExplained, OneEvaluation
<1>4. ASSUME NEW p \in Qmgrs, StartQmgr(p) PROVE Intact(q)' /\ Restarting(q)'
  <2>1. q \notin excused /\ listener' = listener /\ collector' = collector
        /\ exporter' = exporter /\ linked' = linked
    BY <1>4 DEF StartQmgr, history
  <2>2. Intact(q) /\ Restarting(q)
    BY <2>1 DEF Explained
  <2>3. ~process[p] /\ since[p] >= Outage /\ process' = [process EXCEPT ![p] = TRUE]
        /\ since' = [since EXCEPT ![p] = 0] /\ slack' = [slack EXCEPT ![p] = Reconnect]
    BY <1>4 DEF StartQmgr
  <2>4. process \in [Qmgrs -> BOOLEAN] /\ since \in [Qmgrs -> 0..SinceCap]
        /\ slack \in [Qmgrs -> 0..Reconnect]
    BY DEF TypeOK
  <2>5. CASE q # p
    <3>1. process'[q] = process[q] /\ since'[q] = since[q] /\ slack'[q] = slack[q]
      BY <2>3, <2>4, <2>5
    <3>. QED
      BY <1>2, <2>1, <2>2, <3>1
         DEF Intact, Restarting, StopIsSeen, ZeroIsRecent, SampleIsExplained, OneEvaluation
  <2>6. CASE q = p
    <3>1. process'[q] /\ since'[q] = 0 /\ slack'[q] = Reconnect /\ ~process[q] /\ since[q] >= 2
      BY <2>3, <2>4, <2>6, LabTyped DEF GateCoversRestart
    <3>2. native[q].zero <= 1
      BY <2>2, <3>1 DEF Restarting, StopIsSeen
    <3>3. native[q].zero < Gate /\ native[q].zero + Reconnect <= Reconnect + 1
      BY <3>2, LabTyped DEF GateCoversRestart
    <3>4. ~(alert["Unreachable"][q].run > 0)
      BY <2>2, <3>1 DEF Restarting, OneEvaluation
    <3>. QED
      BY <1>2, <2>1, <2>2, <3>1, <3>3, <3>4
         DEF Intact, Restarting, StopIsSeen, ZeroIsRecent, SampleIsExplained, OneEvaluation
  <2>. QED
    BY <2>5, <2>6
<1>5. ASSUME NEW p \in Qmgrs, BreakListener(p) PROVE Intact(q)' /\ Restarting(q)'
  <2>1. q \notin excused /\ q # p /\ process' = process /\ collector' = collector
        /\ exporter' = exporter /\ slack' = slack /\ since' = since
    BY <1>5 DEF BreakListener
  <2>2. Intact(q) /\ Restarting(q)
    BY <2>1 DEF Explained
  <2>3. listener'[q] = listener[q] /\ linked'[q] = linked[q]
    BY <1>5, <2>1 DEF BreakListener, TypeOK
  <2>. QED
    BY <1>2, <2>1, <2>2, <2>3
       DEF Intact, Restarting, StopIsSeen, ZeroIsRecent, SampleIsExplained, OneEvaluation
<1>6. ASSUME NEW p \in Qmgrs, FixListener(p) PROVE Intact(q)' /\ Restarting(q)'
  <2>1. q \notin excused /\ process' = process /\ collector' = collector
        /\ exporter' = exporter /\ linked' = linked /\ since' = since /\ ~listener[p]
    BY <1>6 DEF FixListener, history
  <2>2. Intact(q) /\ Restarting(q)
    BY <2>1 DEF Explained
  <2>3. q # p
    BY <2>1, <2>2 DEF Intact
  <2>4. listener'[q] = listener[q] /\ slack'[q] = slack[q]
    BY <1>6, <2>3 DEF FixListener, TypeOK
  <2>. QED
    BY <1>2, <2>1, <2>2, <2>4
       DEF Intact, Restarting, StopIsSeen, ZeroIsRecent, SampleIsExplained, OneEvaluation
<1>7. ASSUME NEW p \in Qmgrs, StopExporter(p) \/ StartExporter(p) \/ Reconnects(p)
      PROVE  Intact(q)' /\ Restarting(q)'
  <2>1. q \notin excused /\ process' = process /\ collector' = collector /\ listener' = listener
        /\ slack' = slack /\ since' = since
    BY <1>7 DEF StopExporter, StartExporter, Reconnects, history
  <2>2. Intact(q) /\ Restarting(q)
    BY <2>1 DEF Explained
  <2>3. CASE q # p
    <3>1. exporter'[q] = exporter[q] /\ linked'[q] = linked[q]
      BY <1>7, <2>3 DEF StopExporter, StartExporter, Reconnects, TypeOK
    <3>. QED
      BY <1>2, <2>1, <2>2, <3>1
         DEF Intact, Restarting, StopIsSeen, ZeroIsRecent, SampleIsExplained, OneEvaluation
  <2>4. CASE q = p
    <3>1. process'[q] /\ exporter'[q] => linked'[q]
      BY <1>7, <2>1, <2>2, <2>4
         DEF StopExporter, StartExporter, Reconnects, TypeOK, Intact
    <3>. QED
      BY <1>2, <2>1, <2>2, <3>1
         DEF Intact, Restarting, StopIsSeen, ZeroIsRecent, SampleIsExplained, OneEvaluation
  <2>. QED
    BY <2>3, <2>4
<1>8. ASSUME StopCollector PROVE Intact(q)' /\ Restarting(q)'
  BY <1>8 DEF StopCollector
<1>9. ASSUME StartCollector PROVE Intact(q)' /\ Restarting(q)'
  <2>1. q \notin excused /\ ~collector
    BY <1>9 DEF StartCollector, history
  <2>. QED
    BY <2>1 DEF Explained, Intact
<1>. QED
  BY <1>3, <1>4, <1>5, <1>6, <1>7, <1>8, <1>9 DEF Environment

LEMMA ScrapeNativeExplained ==
  ASSUME TypeOK, Explained, ScrapeNative
  PROVE  Explained'
<1>. SUFFICES ASSUME vantage = "dual", NEW q \in Qmgrs, q \notin excused
              PROVE  Intact(q)' /\ Restarting(q)'
  BY DEF Explained, ScrapeNative, history
<1>1. Intact(q) /\ Restarting(q)
  BY DEF Explained
<1>2. UNCHANGED <<client, alert, process, listener, exporter, linked, slack, since, collector>>
      /\ todo' = todo \ {"native"}
  BY DEF ScrapeNative, lab
<1>3. native'[q] = NativeSample(native[q], IF process[q] THEN 1 ELSE 0)
  BY <1>1 DEF ScrapeNative, Intact
<1>4. native'[q].zero = IF process[q] THEN native[q].zero ELSE 0
  BY <1>3 DEF NativeSample
<1>5. StopIsSeen(q)'
  BY <1>2, <1>4 DEF StopIsSeen
<1>6. ZeroIsRecent(q)'
  BY <1>1, <1>2, <1>4 DEF Restarting, ZeroIsRecent
<1>7. SampleIsExplained(q)'
  BY <1>1, <1>2, <1>4, LabTyped DEF Restarting, SampleIsExplained
<1>. QED
  BY <1>1, <1>2, <1>5, <1>6, <1>7 DEF Intact, Restarting, OneEvaluation

LEMMA ScrapeClientExplained ==
  ASSUME TypeOK, Explained, GateCoversRestart, ScrapeClient
  PROVE  Explained'
<1>. SUFFICES ASSUME vantage = "dual", NEW q \in Qmgrs, q \notin excused
              PROVE  Intact(q)' /\ Restarting(q)'
  BY DEF Explained, ScrapeClient
<1>1. Intact(q) /\ Restarting(q)
  BY DEF Explained
<1>2. UNCHANGED <<native, alert, process, listener, exporter, linked, slack, since, collector>>
      /\ todo' = todo \ {"client"}
  BY DEF ScrapeClient
<1>3. PICK answers \in [Qmgrs -> BOOLEAN] :
        /\ \A p \in Qmgrs : answers[p] \in MayAnswer(p)
        /\ client' = [p \in Qmgrs |-> ClientSample(answers[p], IF linked[p] THEN 2 ELSE 0, Uptime(p))]
  BY <1>1 DEF ScrapeClient, Intact
<1>4. client'[q].answered = answers[q] /\ client'[q].status = IF linked[q] THEN 2 ELSE 0
  BY <1>3 DEF ClientSample
<1>5. answers[q] => exporter[q]
  BY <1>3 DEF MayAnswer
<1>6. Connectable(q) /\ ~linked[q] => slack[q] > 0
  BY DEF ScrapeClient
<1>7. SampleIsExplained(q)'
  <2>. SUFFICES ASSUME exporter[q], ~linked[q]
                PROVE  \/ native[q].zero < Gate
                       \/ ~process[q] /\ since[q] <= 1 /\ ("native" \in todo \/ since[q] = 0)
    BY <1>2, <1>4, <1>5 DEF SampleIsExplained
  <2>1. CASE process[q]
    <3>1. slack[q] > 0 /\ native[q].zero + slack[q] <= Reconnect + 1
      BY <1>1, <1>6, <2>1 DEF Restarting, ZeroIsRecent, Connectable, Intact
    <3>. QED
      BY <3>1, LabTyped DEF GateCoversRestart
  <2>2. CASE ~process[q]
    BY <1>1, <2>2, LabTyped DEF Restarting, StopIsSeen, GateCoversRestart
  <2>. QED
    BY <2>1, <2>2
<1>. QED
  BY <1>1, <1>2, <1>7 DEF Intact, Restarting, StopIsSeen, ZeroIsRecent, OneEvaluation

(* At an evaluation Unreachable holds only of a stop of this very period.  *)
LEMMA HoldsOnce ==
  ASSUME TypeOK, Explained, vantage = "dual", todo = {}, NEW q \in Qmgrs, q \notin excused,
         Expr("Unreachable", q)
  PROVE  ~process[q] /\ since[q] = 0
<1>1. client[q].answered /\ client[q].status # 2 /\ native[q].zero >= Gate
  BY DEF Expr, Reports, NativeGate
<1>2. SampleIsExplained(q)
  BY DEF Explained, Restarting
<1>. QED
  BY <1>1, <1>2, LabTyped DEF SampleIsExplained

LEMMA EvaluateExplained ==
  ASSUME TypeOK, Explained, GateCoversRestart, EvaluateRules
  PROVE  Explained'
<1>. SUFFICES ASSUME vantage = "dual", NEW q \in Qmgrs, q \notin excused
              PROVE  Intact(q)' /\ Restarting(q)'
  BY DEF Explained, EvaluateRules, Evaluate, history
<1>1. Intact(q) /\ Restarting(q)
  BY DEF Explained
<1>2. UNCHANGED <<process, listener, exporter, linked, collector>>
      /\ todo = {} /\ todo' = {"native", "client"}
  BY DEF EvaluateRules, Jobs
<1>3. native'[q].zero = Older(native[q].zero, Gate)
  BY LabTyped DEF EvaluateRules, Evaluate, Samples
<1>4. since'[q] = Older(since[q], SinceCap)
      /\ slack'[q] = IF Connectable(q) /\ slack[q] > 0 THEN slack[q] - 1 ELSE slack[q]
  BY DEF EvaluateRules
<1>5. Intact(q)' /\ SampleIsExplained(q)'
  BY <1>1, <1>2 DEF Intact, SampleIsExplained
<1>6. StopIsSeen(q)'
  <2>. SUFFICES ASSUME ~process[q], since'[q] >= 2 PROVE native'[q].zero <= 1
    BY <1>2 DEF StopIsSeen
  <2>1. since[q] >= 1
    BY <1>4, LabTyped DEF Older
  <2>2. native[q].zero = 0
    BY <1>1, <1>2, <2>1 DEF Restarting, StopIsSeen
  <2>. QED
    BY <1>3, <2>2, LabTyped DEF Older
<1>7. ZeroIsRecent(q)'
  <2>. SUFFICES ASSUME process[q], exporter[q], ~linked[q], slack'[q] > 0
                PROVE  native'[q].zero + slack'[q] <= Reconnect + 1
    BY <1>2 DEF ZeroIsRecent
  <2>1. Connectable(q)
    BY <1>1 DEF Connectable, Intact
  <2>2. slack[q] > 0 /\ slack'[q] = slack[q] - 1
    BY <1>4, <2>1, LabTyped
  <2>3. native[q].zero + slack[q] <= Reconnect + 1
    BY <1>1, <2>2 DEF Restarting, ZeroIsRecent
  <2>. QED
    BY <1>3, <2>2, <2>3, LabTyped DEF Older
<1>8. OneEvaluation(q)'
  <2>. SUFFICES ASSUME alert'["Unreachable"][q].run > 0
                PROVE  alert'["Unreachable"][q].run = 1 /\ ~process'[q] /\ since'[q] = 1
    BY DEF OneEvaluation
  <2>1. Expr("Unreachable", q)
    BY PendingHolds DEF EvaluateRules, TypeOK
  <2>2. ~process[q] /\ since[q] = 0
    BY <1>2, <2>1, HoldsOnce
  <2>3. "Unreachable" \in Rules /\ alert["Unreachable"][q].run \in Nat
    BY DEF Rules, TypeOK, RulesTypeOK
  <2>4. alert["Unreachable"][q].run = 0
    BY <1>1, <2>2, <2>3 DEF Restarting, OneEvaluation
  <2>5. alert'["Unreachable"][q] = Advance("Unreachable", q)
    BY <2>3 DEF EvaluateRules, Evaluate
  <2>6. alert'["Unreachable"][q].run = Older(0, For("Unreachable") + 1)
    BY <2>1, <2>4, <2>5 DEF Advance
  <2>7. For("Unreachable") \in Nat
    BY <2>3, ForTyped
  <2>8. alert'["Unreachable"][q].run = 1
    BY <2>6, <2>7 DEF Older
  <2>9. since'[q] = 1
    BY <1>4, <2>2, LabTyped DEF Older
  <2>. QED
    BY <1>2, <2>2, <2>8, <2>9
<1>. QED
  BY <1>5, <1>6, <1>7, <1>8 DEF Restarting

LEMMA InitExplained ==
  ASSUME Init
  PROVE  Explained
<1>. SUFFICES ASSUME vantage = "dual", NEW q \in Qmgrs PROVE Intact(q) /\ Restarting(q)
  BY DEF Explained
<1>1. process[q] /\ listener[q] /\ linked[q] /\ collector /\ todo = {"native", "client"}
  BY DEF Init, All, Jobs
<1>2. "Unreachable" \in Rules
  BY DEF Rules
<1>3. alert["Unreachable"][q].run = 0
  BY <1>2 DEF Init, RulesInit, Inactive
<1>. QED
  BY <1>1, <1>3
     DEF Intact, Restarting, StopIsSeen, ZeroIsRecent, SampleIsExplained, OneEvaluation

LEMMA StepExplained ==
  ASSUME TypeOK, Explained, GateCoversRestart, [Next]_vars
  PROVE  Explained'
<1>1. CASE UNCHANGED vars
  BY <1>1 DEF vars, rules, lab, history, clock, Explained, Intact, Restarting, StopIsSeen,
              ZeroIsRecent, SampleIsExplained, OneEvaluation
<1>. QED
  BY <1>1, EnvironmentExplained, ScrapeNativeExplained, ScrapeClientExplained, EvaluateExplained
     DEF Next, Monitor, Environment

(* Whatever the windows, as long as the gate is longer than the exporter's *)
(* reconnect and a restart longer than a scrape (alerts.mjs:82-85): only a *)
(* broken listener, or lost samples, page "running but not reachable".     *)
THEOREM RestartsDoNotPage ==
  ASSUME GateCoversRestart
  PROVE  Spec => []RestartIsNotAFault
<1>1. Init => Explained
  BY InitExplained
<1>2. Inductive /\ Explained /\ [Next]_vars => Explained'
  BY StepExplained DEF Inductive
<1>3. Inductive /\ Explained => RestartIsNotAFault
  <2>. SUFFICES ASSUME Inductive, Explained, vantage = "dual", NEW q \in Qmgrs,
                       Firing("Unreachable", q), q \notin excused
                PROVE  FALSE
    BY DEF RestartIsNotAFault
  <2>1. alert["Unreachable"][q].run > For("Unreachable") /\ For("Unreachable") = ForUnreachable
    BY DEF Firing, For
  <2>2. OneEvaluation(q)
    BY DEF Explained, Restarting
  <2>3. ForUnreachable \in Nat /\ alert["Unreachable"][q].run \in Nat
    BY WindowAssumption DEF Inductive, TypeOK, RulesTypeOK, Firing
  <2>. QED
    BY <2>1, <2>2, <2>3 DEF OneEvaluation, GateCoversRestart
<1>. QED
  BY <1>1, <1>2, <1>3, AlwaysInductive, PTL DEF Spec
-----------------------------------------------------------------------------
(* Absence.  The native series of an environment are scraped together and  *)
(* so are of one age (SameAge); while the last sample of one is a zero,    *)
(* the absence alert has held at every evaluation since the gate ran out   *)
(* (Blind), so it fires before the zero leaves the lookback.               *)
SameAge == \A p, q \in Qmgrs : native[p].last = native[q].last
AbsenceHeld(q) ==
  native[q].val = 0 /\ native[q].last > Gate =>
    \/ alert["PipelineDown"][q].run >= native[q].last - Gate
    \/ alert["PipelineDown"][q].run = ForPipeline + 1
Blind == vantage = "dual" => \A q \in Qmgrs : AbsenceHeld(q)

LEMMA EvaluateNative ==
  ASSUME TypeOK, EvaluateRules, NEW q \in Qmgrs
  PROVE  /\ native'[q].val = native[q].val
         /\ native'[q].last = Older(native[q].last, Lookback)
         /\ \A rule \in Rules : alert'[rule][q] = Advance(rule, q)
<1>1. native'[q] = [native[q] EXCEPT !.last = Older(@, Lookback), !.zero = Older(@, Gate)]
  BY DEF EvaluateRules, Evaluate
<1>2. \A rule \in Rules : alert'[rule][q] = Advance(rule, q)
  BY DEF EvaluateRules, Evaluate
<1>. QED
  BY <1>1, <1>2, LabTyped DEF Samples

LEMMA OneAge ==
  ASSUME SameAge, vantage = "dual", NEW q \in Qmgrs, native[q].last >= Gate
  PROVE  Absent
BY DEF SameAge, Absent

(* One evaluation with nothing to see counts.                              *)
LEMMA AbsenceCounts ==
  ASSUME TypeOK, SameAge, vantage = "dual", NEW q \in Qmgrs, EvaluateRules,
         native[q].last >= Gate
  PROVE  /\ alert["PipelineDown"][q].run \in Nat /\ ForPipeline \in Nat
         /\ alert["PipelineDown"][q].run <= ForPipeline + 1
         /\ alert'["PipelineDown"][q].run = Older(alert["PipelineDown"][q].run, ForPipeline + 1)
<1>1. "PipelineDown" \in Rules /\ For("PipelineDown") = ForPipeline /\ ForPipeline \in Nat
  BY WindowAssumption DEF Rules, For
<1>2. Expr("PipelineDown", q)
  BY OneAge DEF Expr
<1>3. alert'["PipelineDown"][q] = Advance("PipelineDown", q)
  BY <1>1, EvaluateNative
<1>4. alert["PipelineDown"][q].run \in Nat
  BY <1>1 DEF TypeOK, RulesTypeOK
<1>5. alert["PipelineDown"][q].run <= ForPipeline + 1
  <2>1. alert["PipelineDown"][q].run <= For("PipelineDown") + 1
    BY <1>1 DEF TypeOK, RulesTypeOK
  <2>. QED
    BY <1>1, <2>1
<1>. QED
  BY <1>1, <1>2, <1>3, <1>4, <1>5 DEF Advance

(* One more evaluation counts one more, until the alert may fire.          *)
LEMMA CountsUp ==
  ASSUME NEW run \in Nat, NEW for \in Nat, NEW last \in Nat, NEW next \in Nat, NEW gate \in Nat,
         run <= for + 1, next <= last + 1, last > gate => run >= last - gate \/ run = for + 1,
         last >= gate
  PROVE  Older(run, for + 1) >= next - gate \/ Older(run, for + 1) = for + 1
<1>1. CASE run < for + 1
  <2>1. Older(run, for + 1) = run + 1
    BY <1>1 DEF Older
  <2>2. run >= last - gate
    BY <1>1
  <2>. QED
    BY <2>1, <2>2
<1>2. CASE ~(run < for + 1)
  BY <1>2 DEF Older
<1>. QED
  BY <1>1, <1>2

LEMMA EvaluateBlind ==
  ASSUME TypeOK, SameAge, Blind, EvaluateRules
  PROVE  SameAge' /\ Blind'
<1>1. SameAge'
  BY EvaluateNative DEF SameAge
<1>2. ASSUME vantage = "dual", NEW q \in Qmgrs PROVE AbsenceHeld(q)'
  <2>. SUFFICES ASSUME native'[q].val = 0, native'[q].last > Gate
                PROVE  \/ alert'["PipelineDown"][q].run >= native'[q].last - Gate
                       \/ alert'["PipelineDown"][q].run = ForPipeline + 1
    BY DEF AbsenceHeld
  <2>1. native[q].val = 0 /\ native'[q].last = Older(native[q].last, Lookback)
    BY EvaluateNative
  <2>2. native[q].last >= Gate /\ native'[q].last <= native[q].last + 1
    BY <2>1, LabTyped DEF Older
  <2>3. /\ alert["PipelineDown"][q].run \in Nat /\ ForPipeline \in Nat
        /\ alert["PipelineDown"][q].run <= ForPipeline + 1
        /\ alert'["PipelineDown"][q].run = Older(alert["PipelineDown"][q].run, ForPipeline + 1)
    BY <1>2, <2>2, AbsenceCounts
  <2>4. native[q].last > Gate =>
          \/ alert["PipelineDown"][q].run >= native[q].last - Gate
          \/ alert["PipelineDown"][q].run = ForPipeline + 1
    BY <1>2, <2>1 DEF Blind, AbsenceHeld
  <2>5. native[q].last \in Nat /\ native'[q].last \in Nat /\ Gate \in Nat
    BY <2>1, LabTyped DEF Older
  <2>6. \/ Older(alert["PipelineDown"][q].run, ForPipeline + 1) >= native'[q].last - Gate
        \/ Older(alert["PipelineDown"][q].run, ForPipeline + 1) = ForPipeline + 1
    BY <2>2, <2>3, <2>4, <2>5, CountsUp
  <2>. QED
    BY <2>3, <2>6
<1>. QED
  BY <1>1, <1>2 DEF Blind, EvaluateRules, Evaluate

LEMMA StepBlind ==
  ASSUME TypeOK, SameAge, Blind, [Next]_vars
  PROVE  SameAge' /\ Blind'
<1>1. CASE Environment \/ UNCHANGED vars
  <2>1. UNCHANGED rules
    BY <1>1, EnvironmentTyped DEF vars
  <2>. QED
    BY <2>1 DEF rules, SameAge, Blind, AbsenceHeld
<1>2. CASE ScrapeNative
  <2>1. CASE collector
    <3>1. native' = [q \in Qmgrs |-> NativeSample(native[q], IF process[q] THEN 1 ELSE 0)]
      BY <1>2, <2>1 DEF ScrapeNative
    <3>2. \A q \in Qmgrs : native'[q].last = 0
      BY <3>1 DEF NativeSample
    <3>3. ~(0 > Gate)
      BY WindowAssumption
    <3>. QED
      BY <3>2, <3>3 DEF SameAge, Blind, AbsenceHeld
  <2>2. CASE ~collector
    BY <1>2, <2>2 DEF ScrapeNative, SameAge, Blind, AbsenceHeld
  <2>. QED
    BY <2>1, <2>2
<1>3. CASE ScrapeClient
  BY <1>3 DEF ScrapeClient, SameAge, Blind, AbsenceHeld
<1>. QED
  BY <1>1, <1>2, <1>3, EvaluateBlind DEF Next, Monitor, Environment

LEMMA InitBlind ==
  ASSUME Init
  PROVE  SameAge /\ Blind
BY DEF Init, RulesInit, NoNative, SameAge, Blind, AbsenceHeld

(* Down resolves at an evaluation at which its expression does not hold:   *)
(* the endpoint answered, or its zero left the lookback.                   *)
LEMMA ResolveIsEvaluated ==
  ASSUME TypeOK, vantage = "dual", NEW q \in Qmgrs, [Next]_vars, Resolves("Down", q)
  PROVE  EvaluateRules /\ ~Expr("Down", q)
<1>1. "Down" \in Rules /\ "Down" \in Rules' /\ For("Down") = ForDown /\ For("Down")' = ForDown
  <2>1. vantage' = vantage
    BY EnvironmentTyped
       DEF Next, Monitor, Environment, ScrapeNative, ScrapeClient, EvaluateRules, Evaluate, vars, rules
  <2>. QED
    BY <2>1 DEF Rules, For
<1>2. alert["Down"][q].run > ForDown /\ ~(alert'["Down"][q].run > ForDown)
  BY <1>1 DEF Resolves, Firing
<1>3. EvaluateRules
  <2>1. alert' # alert
    BY <1>2
  <2>. QED
    BY <2>1, EnvironmentTyped DEF Next, Monitor, Environment, ScrapeNative, ScrapeClient, vars, rules
<1>4. ASSUME Expr("Down", q) PROVE FALSE
  <2>0. alert'["Down"][q] = Advance("Down", q)
    BY <1>1, <1>3, EvaluateNative
  <2>1. alert'["Down"][q].run = Older(alert["Down"][q].run, ForDown + 1)
    BY <1>1, <1>4, <2>0 DEF Advance
  <2>2. alert["Down"][q].run \in Nat /\ ForDown \in Nat
    BY <1>1, WindowAssumption DEF TypeOK, RulesTypeOK
  <2>. QED
    BY <1>2, <2>1, <2>2 DEF Older
<1>. QED
  BY <1>3, <1>4

LEMMA ResolvesWithReason ==
  ASSUME TypeOK, SameAge, Blind, LookbackCoversPipeline, vantage = "dual", NEW q \in Qmgrs,
         [Next]_vars, Resolves("Down", q)
  PROVE  native[q].val = 1 \/ Firing("PipelineDown", q)'
<1>1. EvaluateRules /\ ~Expr("Down", q)
  BY ResolveIsEvaluated
<1>2. SUFFICES ASSUME native[q].val = 0 PROVE Firing("PipelineDown", q)'
  BY LabTyped DEF Samples
<1>3. native[q].last = Lookback
  BY <1>1, <1>2, LabTyped DEF Expr, Seen
<1>4. native[q].last >= Gate
  BY <1>3, WindowAssumption
<1>5. /\ alert["PipelineDown"][q].run \in Nat /\ ForPipeline \in Nat
      /\ alert["PipelineDown"][q].run <= ForPipeline + 1
      /\ alert'["PipelineDown"][q].run = Older(alert["PipelineDown"][q].run, ForPipeline + 1)
  BY <1>1, <1>4, AbsenceCounts
<1>6. alert["PipelineDown"][q].run >= ForPipeline
  <2>1. CASE Lookback > Gate
    <3>1. \/ alert["PipelineDown"][q].run >= Lookback - Gate
          \/ alert["PipelineDown"][q].run = ForPipeline + 1
      BY <1>2, <1>3, <2>1 DEF Blind, AbsenceHeld
    <3>. QED
      BY <1>5, <3>1, LabTyped DEF LookbackCoversPipeline
  <2>2. CASE ~(Lookback > Gate)
    BY <1>5, <2>2, LabTyped DEF LookbackCoversPipeline
  <2>. QED
    BY <2>1, <2>2
<1>7. alert'["PipelineDown"][q].run > ForPipeline
  BY <1>5, <1>6 DEF Older
<1>8. vantage' = "dual"
  BY <1>1 DEF EvaluateRules, Evaluate
<1>. QED
  BY <1>7, <1>8 DEF Firing, Rules, For

(* An outage alert does not go away because its series did: by then the    *)
(* absence alert fires.                                                    *)
THEOREM OutagesDoNotFade ==
  ASSUME LookbackCoversPipeline
  PROVE  Spec => NoSilentResolve
<1>1. Init => SameAge /\ Blind
  BY InitBlind
<1>2. Inductive /\ (SameAge /\ Blind) /\ [Next]_vars => (SameAge /\ Blind)'
  BY StepBlind DEF Inductive
<1>3. Inductive /\ (SameAge /\ Blind) /\ [Next]_vars =>
        [vantage = "dual" => \A q \in Qmgrs :
           Resolves("Down", q) => native[q].val = 1 \/ Firing("PipelineDown", q)']_vars
  BY ResolvesWithReason DEF Inductive
<1>. QED
  BY <1>1, <1>2, <1>3, AlwaysInductive, PTL DEF Spec, NoSilentResolve
-----------------------------------------------------------------------------
(* Restarts seen from the client alone.  While the exporter has not been   *)
(* scraped with a connection since its queue manager stopped, the age of   *)
(* the restart and the time it has left to reconnect add up to at most     *)
(* Slowest (BackInTime), because no scrape comes without one of the two    *)
(* (StillDue); so the first connected sample is a young one (YoungSample). *)
Slowest == IF Reconnect > 1 THEN Reconnect ELSE 1

BackInTime(q) == stopped[q] /\ process[q] => since[q] + slack[q] <= Slowest
StillDue(q) ==
  stopped[q] /\ process[q] /\ "client" \notin todo => slack[q] > 0 \/ since[q] = 0
YoungSample(q) ==
  back[q] => client[q].answered /\ client[q].status = 2 /\ client[q].uptime < RestartWindow

Returning(q) == (stopped[q] => exporter[q]) /\ BackInTime(q) /\ StillDue(q) /\ YoungSample(q)
Remembered == \A q \in Qmgrs : q \notin excused => Intact(q) /\ Returning(q)

LEMMA EnvironmentRemembered ==
  ASSUME TypeOK, Remembered, Environment
  PROVE  Remembered'
<1>. SUFFICES ASSUME NEW q \in Qmgrs, q \notin excused'
              PROVE  Intact(q)' /\ Returning(q)'
  BY DEF Remembered
<1>. USE DEF Intact, Returning, BackInTime, StillDue, YoungSample
<1>1. client' = client /\ todo' = todo
  BY EnvironmentTyped
     DEF Environment, StopQmgr, StartQmgr, BreakListener, FixListener, StopExporter, StartExporter,
         Reconnects, StopCollector, StartCollector, clock, rules
<1>2. ASSUME NEW p \in Qmgrs, StopQmgr(p) PROVE Intact(q)' /\ Returning(q)'
  <2>1. q \notin excused /\ UNCHANGED <<listener, exporter, slack, back, collector>>
    BY <1>2 DEF StopQmgr
  <2>2. IF q = p THEN ~process'[q] /\ stopped'[q] = exporter[q]
        ELSE process'[q] = process[q] /\ since'[q] = since[q] /\ stopped'[q] = stopped[q]
    BY <1>2 DEF StopQmgr, TypeOK
  <2>. QED
    BY <1>1, <2>1, <2>2 DEF Remembered
<1>3. ASSUME NEW p \in Qmgrs, StartQmgr(p) PROVE Intact(q)' /\ Returning(q)'
  <2>1. q \notin excused /\ UNCHANGED <<listener, exporter, stopped, back, collector>>
    BY <1>3 DEF StartQmgr, history
  <2>2. IF q = p THEN since'[q] = 0 /\ slack'[q] = Reconnect
        ELSE process'[q] = process[q] /\ since'[q] = since[q] /\ slack'[q] = slack[q]
    BY <1>3 DEF StartQmgr, TypeOK
  <2>3. 0 + Reconnect <= Slowest
    BY EnvironmentAssumption DEF Slowest
  <2>. QED
    BY <1>1, <2>1, <2>2, <2>3 DEF Remembered
<1>4. ASSUME NEW p \in Qmgrs, BreakListener(p) PROVE Intact(q)' /\ Returning(q)'
  <2>1. q \notin excused /\ q # p
        /\ UNCHANGED <<process, exporter, slack, since, stopped, back, collector>>
    BY <1>4 DEF BreakListener
  <2>2. listener'[q] = listener[q]
    BY <1>4, <2>1 DEF BreakListener, TypeOK
  <2>. QED
    BY <1>1, <2>1, <2>2 DEF Remembered
<1>5. ASSUME NEW p \in Qmgrs, FixListener(p) PROVE Intact(q)' /\ Returning(q)'
  <2>1. q \notin excused /\ ~listener[p]
        /\ UNCHANGED <<process, exporter, since, stopped, back, collector>>
    BY <1>5 DEF FixListener, history
  <2>2. q # p
    BY <2>1 DEF Remembered
  <2>3. listener'[q] = listener[q] /\ slack'[q] = slack[q]
    BY <1>5, <2>2 DEF FixListener, TypeOK
  <2>. QED
    BY <1>1, <2>1, <2>3 DEF Remembered
<1>6. ASSUME NEW p \in Qmgrs, StopExporter(p) PROVE Intact(q)' /\ Returning(q)'
  <2>1. q \notin excused /\ UNCHANGED <<process, listener, slack, since, back, collector>>
    BY <1>6 DEF StopExporter
  <2>2. IF q = p THEN ~stopped'[q]
        ELSE exporter'[q] = exporter[q] /\ stopped'[q] = stopped[q]
    BY <1>6 DEF StopExporter, TypeOK
  <2>. QED
    BY <1>1, <2>1, <2>2 DEF Remembered
<1>7. ASSUME NEW p \in Qmgrs, StartExporter(p) \/ Reconnects(p) PROVE Intact(q)' /\ Returning(q)'
  <2>1. q \notin excused /\ UNCHANGED <<process, listener, slack, since, stopped, back, collector>>
    BY <1>7 DEF StartExporter, Reconnects, history
  <2>2. exporter[q] => exporter'[q]
    BY <1>7 DEF StartExporter, Reconnects, TypeOK
  <2>. QED
    BY <1>1, <2>1, <2>2 DEF Remembered
<1>8. ASSUME StopCollector PROVE Intact(q)' /\ Returning(q)'
  BY <1>8 DEF StopCollector
<1>9. ASSUME StartCollector PROVE Intact(q)' /\ Returning(q)'
  BY <1>9 DEF StartCollector, history, Remembered
<1>. QED
  BY <1>2, <1>3, <1>4, <1>5, <1>6, <1>7, <1>8, <1>9 DEF Environment

LEMMA ScrapeRemembered ==
  ASSUME TypeOK, Remembered, WindowCoversReconnect, ScrapeClient
  PROVE  Remembered'
<1>. SUFFICES ASSUME NEW q \in Qmgrs, q \notin excused
              PROVE  Intact(q)' /\ Returning(q)'
  BY DEF Remembered, ScrapeClient
<1>1. Intact(q) /\ Returning(q)
  BY DEF Remembered
<1>2. UNCHANGED <<process, listener, exporter, linked, slack, since, collector>>
  BY DEF ScrapeClient
<1>3. stopped'[q] = (stopped[q] /\ ~linked[q]) /\ back'[q] = (linked[q] /\ stopped[q])
  BY <1>1 DEF ScrapeClient, Intact
<1>4. Connectable(q) /\ ~linked[q] => slack[q] > 0
  BY DEF ScrapeClient
<1>5. linked[q] => process[q] /\ exporter[q]
  BY DEF TypeOK
<1>6. StillDue(q)'
  BY <1>1, <1>2, <1>3, <1>4 DEF StillDue, Returning, Intact, Connectable
<1>7. YoungSample(q)'
  <2>. SUFFICES ASSUME linked[q], stopped[q]
                PROVE  client'[q].answered /\ client'[q].status = 2
                       /\ client'[q].uptime < RestartWindow
    BY <1>3 DEF YoungSample
  <2>1. PICK answers \in [Qmgrs -> BOOLEAN] :
          /\ \A p \in Qmgrs : answers[p] \in MayAnswer(p)
          /\ client' = [p \in Qmgrs |-> ClientSample(answers[p], IF linked[p] THEN 2 ELSE 0, Uptime(p))]
    BY <1>1 DEF ScrapeClient, Intact
  <2>2. answers[q] = TRUE
    BY <1>5, <2>1 DEF MayAnswer
  <2>3. client'[q] = ClientSample(TRUE, 2, since[q])
    BY <2>1, <2>2 DEF Uptime
  <2>4. since[q] + slack[q] <= Slowest
    BY <1>1, <1>5 DEF Returning, BackInTime
  <2>5. since[q] < RestartWindow
    BY <2>4, LabTyped DEF Slowest, WindowCoversReconnect
  <2>. QED
    BY <2>3, <2>5 DEF ClientSample
<1>8. Intact(q)' /\ BackInTime(q)' /\ (stopped'[q] => exporter'[q])
  BY <1>1, <1>2, <1>3 DEF Intact, Returning, BackInTime
<1>. QED
  BY <1>6, <1>7, <1>8 DEF Returning

LEMMA EvaluateRemembered ==
  ASSUME TypeOK, Remembered, EvaluateRules
  PROVE  Remembered'
<1>. SUFFICES ASSUME NEW q \in Qmgrs, q \notin excused
              PROVE  Intact(q)' /\ Returning(q)'
  BY DEF Remembered, EvaluateRules, history
<1>1. Intact(q) /\ Returning(q)
  BY DEF Remembered
<1>2. UNCHANGED <<process, listener, exporter, stopped, back, collector>>
      /\ todo = {} /\ "client" \in todo'
  BY DEF EvaluateRules, Jobs, history
<1>3. since'[q] = Older(since[q], SinceCap)
      /\ slack'[q] = IF Connectable(q) /\ slack[q] > 0 THEN slack[q] - 1 ELSE slack[q]
  BY DEF EvaluateRules
<1>4. BackInTime(q)'
  <2>. SUFFICES ASSUME stopped[q], process[q] PROVE since'[q] + slack'[q] <= Slowest
    BY <1>2 DEF BackInTime
  <2>1. Connectable(q) /\ since[q] + slack[q] <= Slowest /\ (slack[q] > 0 \/ since[q] = 0)
    BY <1>1, <1>2 DEF Connectable, Intact, Returning, BackInTime, StillDue
  <2>2. since'[q] <= since[q] + 1 /\ since'[q] \in Nat
    BY <1>3, LabTyped DEF Older
  <2>3. CASE slack[q] > 0
    BY <1>3, <2>1, <2>2, <2>3, LabTyped DEF Slowest
  <2>4. CASE ~(slack[q] > 0)
    BY <1>3, <2>1, <2>2, <2>4, LabTyped DEF Slowest
  <2>. QED
    BY <2>3, <2>4
<1>5. YoungSample(q)'
  <2>1. client[q] \in Scrapes /\ client'[q] = [client[q] EXCEPT !.last = Older(@, Lookback)]
    BY DEF EvaluateRules, Evaluate, TypeOK, RulesTypeOK, Scrapes
  <2>. QED
    BY <1>1, <1>2, <2>1 DEF Returning, YoungSample, Scrapes
<1>. QED
  BY <1>1, <1>2, <1>4, <1>5 DEF Intact, Returning, StillDue

LEMMA StepRemembered ==
  ASSUME TypeOK, Remembered, WindowCoversReconnect, [Next]_vars
  PROVE  Remembered'
<1>. USE DEF Remembered, Intact, Returning, BackInTime, StillDue, YoungSample
<1>1. CASE UNCHANGED vars
  BY <1>1 DEF vars, rules, lab, history, clock
<1>2. CASE ScrapeNative
  <2>1. UNCHANGED <<client, lab, history, collector>> /\ todo' = todo \ {"native"}
    BY <1>2 DEF ScrapeNative
  <2>. QED
    BY <2>1 DEF lab, history
<1>. QED
  BY <1>1, <1>2, EnvironmentRemembered, ScrapeRemembered, EvaluateRemembered
     DEF Next, Monitor, Environment

LEMMA InitRemembered ==
  ASSUME Init
  PROVE  Remembered
BY DEF Init, All, Remembered, Intact, Returning, BackInTime, StillDue, YoungSample

(* The evaluation that makes a fresh sample one period old sees it young.  *)
LEMMA ToldAtOnce ==
  ASSUME TypeOK, Remembered, vantage = "single", [Next]_vars, NEW q \in Qmgrs, back[q],
         client[q].last = 0, q \notin excused, client'[q].last = 1
  PROVE  Firing("Restarted", q)'
<1>1. EvaluateRules
  <2>1. client' # client
    OBVIOUS
  <2>2. ASSUME ScrapeClient PROVE FALSE
    <3>1. CASE collector
      <4>1. PICK answers \in [Qmgrs -> BOOLEAN] :
              client' = [p \in Qmgrs |->
                ClientSample(answers[p], IF linked[p] THEN 2 ELSE 0, Uptime(p))]
        BY <2>2, <3>1 DEF ScrapeClient
      <4>. QED
        BY <4>1 DEF ClientSample
    <3>. QED
      BY <2>1, <2>2, <3>1 DEF ScrapeClient
  <2>. QED
    BY <2>1, <2>2, EnvironmentTyped DEF Next, Monitor, Environment, ScrapeNative, vars, rules
<1>2. "Restarted" \in Rules /\ For("Restarted") = 0
  BY DEF Rules, For
<1>3. Expr("Restarted", q)
  <2>1. client'[q] = [client[q] EXCEPT !.last = Older(@, Lookback)] /\ client[q] \in Scrapes
    BY <1>1 DEF EvaluateRules, Evaluate, TypeOK, RulesTypeOK, Scrapes
  <2>2. Older(0, Lookback) = 1
    BY <2>1 DEF Scrapes
  <2>3. Seen(client[q])
    BY <2>2, WindowAssumption DEF Seen, Older
  <2>4. YoungSample(q)
    BY DEF Remembered, Returning
  <2>. QED
    BY <2>3, <2>4 DEF YoungSample, Expr, Reports, Young
<1>4. alert'["Restarted"][q] = Advance("Restarted", q)
  BY <1>1, <1>2, EvaluateNative
<1>5. alert'["Restarted"][q].run = Older(alert["Restarted"][q].run, 1)
  BY <1>2, <1>3, <1>4 DEF Advance
<1>6. alert["Restarted"][q].run \in Nat
  BY <1>2 DEF TypeOK, RulesTypeOK
<1>7. alert'["Restarted"][q].run > 0
  BY <1>5, <1>6 DEF Older
<1>8. vantage' = "single"
  BY <1>1 DEF EvaluateRules, Evaluate
<1>. QED
  BY <1>7, <1>8 DEF Firing, Rules, For

(* With a window longer than the exporter's reconnect, no restart of a     *)
(* queue manager goes untold: the first evaluation that sees it connected  *)
(* again fires "restarted" (alerts.mjs:61-65).                             *)
THEOREM RestartsAreTold ==
  ASSUME WindowCoversReconnect
  PROVE  Spec => RestartIsTold
<1>1. Init => Remembered
  BY InitRemembered
<1>2. Inductive /\ Remembered /\ [Next]_vars => Remembered'
  BY StepRemembered DEF Inductive
<1>3. Inductive /\ Remembered /\ [Next]_vars =>
        [vantage = "single" => \A q \in Qmgrs :
           back[q] /\ client[q].last = 0 /\ q \notin excused /\ client'[q].last = 1
             => Firing("Restarted", q)']_vars
  BY ToldAtOnce DEF Inductive
<1>. QED
  BY <1>1, <1>2, <1>3, AlwaysInductive, PTL DEF Spec, RestartIsTold
=============================================================================

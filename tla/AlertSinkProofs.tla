--------------------------- MODULE AlertSinkProofs ---------------------------
(***************************************************************************)
(* The alert-sink implements the Ledger, for every capacity, every set of  *)
(* notifications and every bound.  The mapping takes floor to the number   *)
(* of events that are no longer in the buffer.  What makes it work is      *)
(* Inductive: the buffer is the end of the log; what was pushed since      *)
(* /healthz answered is stamped no earlier than its answer; and the alerts *)
(* the handler has stored are the end of the log.                          *)
(***************************************************************************)
EXTENDS AlertSink, TLAPS

Records == [alertname : Names, status : {"firing", "resolved"}, at : Nat]

TypeOK ==
  /\ events \in Seq(Records) /\ log \in Seq(Records)
  /\ arriving \subseteq Notifications
  /\ serving \in Notifications \cup {<< >>}
  /\ stored \in Nat /\ stored <= Len(serving)
  /\ {clock, receivedAt, since, mark} \subseteq Nat

(* The buffer is the end of the log, and no longer than its capacity.      *)
EndOfLog ==
  /\ Len(events) <= Len(log) /\ Len(events) <= MAX_EVENTS
  /\ \A i \in 1..Len(events) : events[i] = log[Len(log) - Len(events) + i]

(* Instants given out are past, and the handler's is not before the last   *)
(* one given.                                                              *)
Past ==
  /\ since <= clock /\ receivedAt <= clock
  /\ serving # << >> => since <= receivedAt

(* What came after the mark is stamped no earlier than the mark.           *)
AfterTheMark ==
  /\ mark <= Len(log)
  /\ \A i \in 1..Len(log) : i > mark => since <= log[i].at

(* The alerts stored so far are the last ones of the log.                  *)
Alert(e) == [alertname |-> e.alertname, status |-> e.status]
StoredAtEnd ==
  /\ stored <= Len(log)
  /\ \A i \in 1..stored : Alert(log[Len(log) - stored + i]) = serving[i]

Inductive == TypeOK /\ EndOfLog /\ Past /\ AfterTheMark /\ StoredAtEnd

LEMMA InitInductive == Init => Inductive
BY SinkAssumption DEF Init, Inductive, TypeOK, EndOfLog, Past, AfterTheMark, StoredAtEnd

(* A notification in service is a sequence of alerts.                      *)
LEMMA Serving ==
  ASSUME TypeOK, serving # << >>
  PROVE  serving \in Seq(Alerts) /\ Len(serving) \in Nat
BY SinkAssumption DEF TypeOK

(* What the loop pushes is a record with the stamp of its request.         *)
LEMMA EventTyped ==
  ASSUME TypeOK, stored < Len(serving)
  PROVE  Event \in Records /\ serving # << >> /\ Event.at = receivedAt
         /\ Alert(Event) = serving[stored + 1]
<1>1. serving # << >>
  BY DEF TypeOK
<1>2. serving[stored + 1] \in Alerts
  BY <1>1, Serving DEF TypeOK
<1>. QED
  BY <1>1, <1>2 DEF Event, Records, Alerts, Alert, TypeOK

(* Making room leaves the end of the log, short of the capacity.           *)
LEMMA ShiftedIsEnd ==
  ASSUME TypeOK, EndOfLog
  PROVE  /\ Shifted \in Seq(Records)
         /\ Len(Shifted) <= Len(log) /\ Len(Shifted) < MAX_EVENTS
         /\ Len(Shifted) = IF Len(events) < MAX_EVENTS THEN Len(events) ELSE Len(events) - 1
         /\ \A i \in 1..Len(Shifted) : Shifted[i] = log[Len(log) - Len(Shifted) + i]
<1>1. CASE Len(events) < MAX_EVENTS
  <2>1. Shifted = events /\ events \in Seq(Records) /\ Len(events) \in Nat
    BY <1>1, SinkAssumption DEF Shifted, TypeOK
  <2>. QED
    BY <1>1, <2>1 DEF EndOfLog
<1>2. CASE ~(Len(events) < MAX_EVENTS)
  <2>1. events # << >> /\ Shifted = Tail(events) /\ Len(events) \in Nat
    BY <1>2, SinkAssumption DEF Shifted, TypeOK, EndOfLog
  <2>2. Shifted \in Seq(Records) /\ Len(Shifted) = Len(events) - 1
        /\ \A i \in 1..Len(Shifted) : Shifted[i] = events[i + 1]
    BY <2>1 DEF TypeOK
  <2>. QED
    BY <1>2, <2>1, <2>2, SinkAssumption DEF TypeOK, EndOfLog
<1>. QED
  BY <1>1, <1>2

(* The one step that touches all of it.                                    *)
LEMMA StoreInductive ==
  ASSUME Inductive, Store
  PROVE  Inductive'
<1>. USE DEF Inductive, Store
<1>. DEFINE e == Event
<1>1. e \in Records /\ serving # << >> /\ e.at = receivedAt
      /\ Alert(e) = serving[stored + 1]
  BY EventTyped
<1>2. Len(log) \in Nat /\ log' = Append(log, e) /\ log' \in Seq(Records)
      /\ Len(log') = Len(log) + 1 /\ log'[Len(log) + 1] = e
      /\ \A i \in 1..Len(log) : log'[i] = log[i]
  BY <1>1 DEF TypeOK
<1>3. events' = Append(Shifted, e) /\ events' \in Seq(Records)
      /\ Len(Shifted) \in Nat /\ Len(events') = Len(Shifted) + 1
      /\ events'[Len(Shifted) + 1] = e
      /\ \A i \in 1..Len(Shifted) : events'[i] = Shifted[i]
  BY <1>1, ShiftedIsEnd
<1>. HIDE DEF e
<1>4. TypeOK'
  BY <1>2, <1>3 DEF TypeOK, reader
<1>5. EndOfLog'
  <2>1. MAX_EVENTS \in Nat /\ Len(Shifted) <= Len(log) /\ Len(Shifted) < MAX_EVENTS
        /\ \A i \in 1..Len(Shifted) : Shifted[i] = log[Len(log) - Len(Shifted) + i]
    BY ShiftedIsEnd, SinkAssumption
  <2>2. Len(events') <= Len(log') /\ Len(events') <= MAX_EVENTS
    BY <1>2, <1>3, <2>1
  <2>3. ASSUME NEW i \in 1..Len(events')
        PROVE  events'[i] = log'[Len(log') - Len(events') + i]
    <3>1. CASE i = Len(Shifted) + 1
      BY <1>2, <1>3, <3>1
    <3>2. CASE i # Len(Shifted) + 1
      <4>1. i \in 1..Len(Shifted) /\ Len(log) - Len(Shifted) + i \in 1..Len(log)
        BY <1>2, <1>3, <2>1, <3>2
      <4>. QED
        BY <1>2, <1>3, <2>1, <4>1
    <3>. QED
      BY <3>1, <3>2
  <2>. QED
    BY <2>2, <2>3 DEF EndOfLog
<1>6. Past'
  BY DEF Past, reader
<1>7. AfterTheMark'
  BY <1>1, <1>2 DEF AfterTheMark, Past, TypeOK, reader
<1>8. StoredAtEnd'
  <2>1. serving' = serving /\ stored' = stored + 1 /\ stored \in Nat
    BY DEF TypeOK
  <2>2. stored' <= Len(log')
    BY <1>2, <2>1 DEF StoredAtEnd
  <2>3. ASSUME NEW i \in 1..stored'
        PROVE  Alert(log'[Len(log') - stored' + i]) = serving'[i]
    <3>1. CASE i = stored + 1
      BY <1>1, <1>2, <2>1, <3>1
    <3>2. CASE i # stored + 1
      BY <1>2, <2>1, <3>2 DEF StoredAtEnd
    <3>. QED
      BY <3>1, <3>2
  <2>. QED
    BY <2>2, <2>3 DEF StoredAtEnd
<1>. QED
  BY <1>4, <1>5, <1>6, <1>7, <1>8

LEMMA NextInductive ==
  ASSUME Inductive, [Next]_vars
  PROVE  Inductive'
<1>. USE DEF Inductive, TypeOK, EndOfLog, Past, AfterTheMark, StoredAtEnd,
             buffer, handler, reader
<1>1. CASE Send
  BY <1>1 DEF Send
<1>2. CASE BodyEnds
  <2>1. PICK n \in arriving \ Absurd : serving' = n
    BY <1>2 DEF BodyEnds
  <2>2. n \in Seq(Alerts) /\ n \in Notifications /\ Len(n) \in Nat
    BY <2>1, SinkAssumption
  <2>. QED
    BY <1>2, <2>1, <2>2 DEF BodyEnds
<1>3. CASE Store
  <2>. USE DEF Inductive
  <2>. QED
    BY <1>3, StoreInductive
<1>4. CASE Reply
  BY <1>4 DEF Reply
<1>5. CASE TooLarge
  BY <1>5 DEF TooLarge
<1>6. CASE Healthz
  BY <1>6 DEF Healthz, Idle
<1>7. CASE Events
  BY <1>7 DEF Events
<1>8. CASE Delete
  BY <1>8, SinkAssumption DEF Delete
<1>9. CASE Results
  BY <1>9 DEF Results
<1>10. CASE Restart
  BY <1>10, SinkAssumption DEF Restart
<1>11. CASE Tick
  BY <1>11 DEF Tick
<1>12. CASE UNCHANGED vars
  BY <1>12 DEF vars
<1>. QED
  BY <1>1, <1>2, <1>3, <1>4, <1>5, <1>6, <1>7, <1>8, <1>9, <1>10, <1>11, <1>12 DEF Next

(* What the buffer holds is what the ledger has not forgotten.             *)
LEMMA BufferIsLedger ==
  ASSUME Inductive
  PROVE  {events[i] : i \in DOMAIN events} = Promised!After(Len(log) - Len(events))
<1>. DEFINE floor == Len(log) - Len(events)
<1>1. Len(events) \in Nat /\ Len(log) \in Nat /\ floor \in Nat /\ DOMAIN events = 1..Len(events)
  BY DEF Inductive, TypeOK, EndOfLog
<1>2. ASSUME NEW i \in DOMAIN events
      PROVE  floor + i \in (floor + 1)..Len(log) /\ events[i] = log[floor + i]
  BY <1>1 DEF Inductive, EndOfLog
<1>3. ASSUME NEW j \in (floor + 1)..Len(log)
      PROVE  j - floor \in DOMAIN events /\ log[j] = events[j - floor]
  BY <1>1 DEF Inductive, EndOfLog
<1>. QED
  BY <1>2, <1>3 DEF Promised!After

(* GET /events, with since = 0 or the instant of the mark, answers what    *)
(* the ledger promises.                                                    *)
LEMMA EventsAnswers ==
  ASSUME Inductive, Events
  PROVE  Promised!Answer
<1>. DEFINE floor == Len(log) - Len(events)
            held == {events[i] : i \in DOMAIN events}
            first == IF mark < floor THEN floor ELSE mark
<1>1. PICK from \in {0, since}, names \in {{n} : n \in Names} \cup {Names} :
        got' = Selected(from, names)
  BY DEF Events
<1>2. held = Promised!After(floor)
  BY BufferIsLedger
<1>3. got' = {e \in held : e.at >= from /\ e.alertname \in names}
  BY <1>1 DEF Selected
<1>4. got' \subseteq Promised!Named(Promised!After(floor), names)
  BY <1>2, <1>3 DEF Promised!Named
<1>5. ASSUME NEW e \in Promised!After(first)
      PROVE  e \in held /\ e.at >= from
  <2>1. Len(log) \in Nat /\ Len(events) \in Nat /\ mark \in Nat /\ since \in Nat
        /\ floor \in Nat
    BY DEF Inductive, TypeOK, EndOfLog
  <2>2. PICK i \in (first + 1)..Len(log) : e = log[i]
    BY DEF Promised!After
  <2>3. i \in (floor + 1)..Len(log) /\ i \in 1..Len(log) /\ i > mark
    BY <2>1, <2>2
  <2>4. since <= e.at /\ e.at \in Nat
    <3>1. log[i] \in Records
      BY <2>3 DEF Inductive, TypeOK
    <3>. QED
      BY <2>2, <2>3, <3>1 DEF Inductive, AfterTheMark, Records
  <2>5. e \in Promised!After(floor)
    BY <2>2, <2>3 DEF Promised!After
  <2>. QED
    BY <1>1, <1>2, <2>1, <2>4, <2>5
<1>6. Promised!Named(Promised!After(first), names) \subseteq got'
  BY <1>3, <1>5 DEF Promised!Named
<1>7. UNCHANGED <<log, floor, mark, acked, results>>
  BY DEF Events, buffer
<1>. QED
  BY <1>1, <1>4, <1>6, <1>7 DEF Promised!Answer

(* A push is a record, and forgets one exactly when the buffer is full.    *)
LEMMA StoreRecords ==
  ASSUME Inductive, Store
  PROVE  Promised!Record
<1>1. Event \in Records
  BY EventTyped DEF Inductive, Store
<1>2. Len(log) \in Nat /\ Len(events) \in Nat /\ DOMAIN log = 1..Len(log)
  BY DEF Inductive, TypeOK
<1>3. Len(log') = Len(log) + 1 /\ \A i \in DOMAIN log : log'[i] = log[i]
  BY <1>1, <1>2 DEF Store, Inductive, TypeOK
<1>4. Len(events') = Len(Shifted) + 1
  BY <1>1, ShiftedIsEnd DEF Store, Inductive
<1>5. Len(log') - Len(events') = IF Len(log) - (Len(log) - Len(events)) < MAX_EVENTS
                                 THEN Len(log) - Len(events) ELSE Len(log) - Len(events) + 1
  BY <1>2, <1>3, <1>4, ShiftedIsEnd, SinkAssumption DEF Inductive
<1>. QED
  BY <1>3, <1>5 DEF Promised!Record, Store, reader

(* 200 is sent when the whole notification is in the ledger.               *)
LEMMA ReplyAcknowledges ==
  ASSUME Inductive, Reply
  PROVE  Promised!Acknowledge \/ UNCHANGED <<log, events, mark, got, acked, results>>
<1>1. CASE acked' = serving
  <2>1. serving \in Seq(Alerts) /\ stored = Len(serving) /\ DOMAIN serving = 1..Len(serving)
    BY Serving DEF Inductive, Reply, Idle
  <2>2. Len(serving) <= Len(log)
        /\ \A i \in 1..Len(serving) : Alert(log[Len(log) - Len(serving) + i]) = serving[i]
    BY <2>1 DEF Inductive, StoredAtEnd
  <2>. QED
    BY <1>1, <2>1, <2>2 DEF Promised!Acknowledge, Alert, Reply, buffer, reader
<1>2. CASE UNCHANGED acked
  BY <1>2 DEF Reply, buffer, reader
<1>. QED
  BY <1>1, <1>2 DEF Reply

(* Every step of the sink is a step of the ledger, or none.                *)
LEMMA StepImplements ==
  ASSUME Inductive, [Next]_vars
  PROVE  [Promised!Next]_<<log, Len(log) - Len(events), mark, got, acked, results>>
<1>. DEFINE ledger == <<log, Len(log) - Len(events), mark, got, acked, results>>
<1>. USE DEF buffer, handler, reader
<1>1. CASE Send \/ BodyEnds \/ TooLarge \/ Tick \/ UNCHANGED vars
  BY <1>1 DEF Send, BodyEnds, TooLarge, Tick, vars
<1>2. CASE Store
  BY <1>2, StoreRecords DEF Promised!Next
<1>3. CASE Reply
  BY <1>3, ReplyAcknowledges DEF Promised!Next
<1>4. CASE Healthz
  BY <1>4 DEF Healthz, Promised!Mark, Promised!Next
<1>5. CASE Events
  BY <1>5, EventsAnswers DEF Promised!Next
<1>6. CASE Delete
  BY <1>6 DEF Delete, Promised!Clear, Promised!Next, Inductive, TypeOK
<1>7. CASE Results
  <2>1. results' # << >>
    <3>1. PICK r \in Summaries : results' = <<r>>
      BY <1>7 DEF Results
    <3>2. Len(<<r>>) = 1 /\ Len(<< >>) = 0
      OBVIOUS
    <3>. QED
      BY <3>1, <3>2
  <2>. QED
    BY <1>7, <2>1 DEF Results, Promised!Publish, Promised!Next
<1>8. CASE Restart
  BY <1>8 DEF Restart, Promised!Clear, Promised!Next, Inductive, TypeOK
<1>. QED
  BY <1>1, <1>2, <1>3, <1>4, <1>5, <1>6, <1>7, <1>8 DEF Next

(* The alert-sink keeps the ledger its header promises: oldest events out  *)
(* first and only at capacity, complete answers since a given instant, and *)
(* a 200 only for what is there (harness/alert-sink/server.mjs).           *)
THEOREM SinkKeepsTheLedger == Spec => KeepsTheLedger
<1>1. Init => Promised!Init
  BY DEF Init, Promised!Init
<1>2. Inductive /\ [Next]_vars => Inductive'
  BY NextInductive
<1>3. Inductive /\ [Next]_vars
        => [Promised!Next]_<<log, Len(log) - Len(events), mark, got, acked, results>>
  BY StepImplements
<1>. QED
  BY <1>1, <1>2, <1>3, InitInductive, PTL DEF Spec, KeepsTheLedger, Promised!Spec
=============================================================================

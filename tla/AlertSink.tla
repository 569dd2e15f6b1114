------------------------------ MODULE AlertSink ------------------------------
(***************************************************************************)
(* The alert-sink (harness/alert-sink/server.mjs): the ring buffer of      *)
(* Alertmanager's notifications, its queries, and the published results.   *)
(* Node serves one request at a time; a body arrives while others are      *)
(* served, the sender repeats a notification until it gets an answer, and  *)
(* a restart forgets everything.  Ledger says what that amounts to.        *)
(*                                                                         *)
(* A notification is a sequence of alerts [alertname, status].             *)
(***************************************************************************)
EXTENDS Integers, Sequences

CONSTANTS
  MAX_EVENTS,
  Names,          \* alert names
  Notifications,  \* what Alertmanager may send
  Absurd,         \* those larger than MAX_BODY
  Summaries,      \* what the harness may publish: [verdict], "" for none
  MaxClock, MaxLog, MaxRestarts   \* bounds of the checked instance

Alerts == [alertname : Names, status : {"firing", "resolved"}]

ASSUME SinkAssumption ==
  /\ MAX_EVENTS \in Nat \ {0}
  /\ Notifications \subseteq Seq(Alerts) \ {<< >>}
  /\ Absurd \subseteq Notifications
  /\ {MaxClock, MaxLog, MaxRestarts} \subseteq Nat

VARIABLES
  events,     \* the ring buffer, the oldest first: [alertname, status, at]
  results,    \* the last published summary, << >> for null
  clock,      \* Date.now() of the sink
  (* requests *)
  arriving,   \* notifications whose body is on its way
  serving,    \* the notification in the /webhook handler, << >> for none
  stored,     \* alerts of it already in the buffer
  receivedAt,
  (* a reader: the harness *)
  since,      \* the `now` it was given by /healthz
  got,        \* its last answer from /events
  acked,      \* the last notification answered with 200
  restarts,
  (* history *)
  log,        \* every event ever pushed
  mark        \* the length of log when /healthz answered

buffer == <<events, log>>
handler == <<serving, stored, receivedAt>>
reader == <<since, mark, got>>
vars == <<buffer, results, clock, arriving, handler, reader, acked, restarts>>

Init ==
  /\ events = << >> /\ results = << >> /\ clock = 0
  /\ arriving = {} /\ serving = << >> /\ stored = 0 /\ receivedAt = 0
  /\ since = 0 /\ got = {} /\ acked = << >> /\ restarts = 0
  /\ log = << >> /\ mark = 0

Idle == serving = << >>
-----------------------------------------------------------------------------
\* POST /webhook: the body arrives in pieces.
Send ==
  /\ \E n \in Notifications \ arriving : arriving' = arriving \cup {n}
  /\ UNCHANGED <<buffer, results, clock, handler, reader, acked, restarts>>

\* The end of the body: every alert of it is stamped with one instant.
BodyEnds ==
  /\ Idle
  /\ \E n \in arriving \ Absurd :
       /\ Len(log) + Len(n) <= MaxLog
       /\ serving' = n
  /\ stored' = 0 /\ receivedAt' = clock
  /\ UNCHANGED <<buffer, results, clock, arriving, reader, acked, restarts>>

\* One pass of the loop over payload.alerts.
Event == [alertname |-> serving[stored + 1].alertname,
          status |-> serving[stored + 1].status,
          at |-> receivedAt]

\* Fault for a mutant: the newest event makes room.
BugShifted == IF Len(events) >= MAX_EVENTS
              THEN SubSeq(events, 1, Len(events) - 1) ELSE events
Shifted == IF Len(events) >= MAX_EVENTS THEN Tail(events) ELSE events

Store ==
  /\ stored < Len(serving)
  /\ events' = Append(Shifted, Event)
  /\ log' = Append(log, Event)
  /\ stored' = stored + 1
  /\ UNCHANGED <<results, clock, arriving, serving, receivedAt, reader, acked, restarts>>

\* 200: the sender is done, unless the answer is lost and it sends again.
Reply ==
  /\ ~Idle /\ stored = Len(serving)
  /\ \/ acked' = serving /\ arriving' = arriving \ {serving}
     \/ UNCHANGED <<acked, arriving>>
  /\ serving' = << >> /\ stored' = 0 /\ receivedAt' = 0
  /\ UNCHANGED <<buffer, results, clock, reader, restarts>>

\* 413 or a destroyed request: nothing is stored, whatever the sender does.
TooLarge ==
  /\ Idle
  /\ \E n \in arriving \cap Absurd : arriving' \in {arriving, arriving \ {n}}
  /\ UNCHANGED <<buffer, results, clock, handler, reader, acked, restarts>>
-----------------------------------------------------------------------------
\* GET /healthz: the harness stamps on this clock (sinkNow).
Healthz ==
  /\ Idle
  /\ since' = clock /\ mark' = Len(log)
  /\ UNCHANGED <<buffer, results, clock, arriving, handler, got, acked, restarts>>

\* GET /events?since=&alertname=
Selected(from, names) ==
  {e \in {events[i] : i \in DOMAIN events} : e.at >= from /\ e.alertname \in names}

Events ==
  /\ Idle
  /\ \E from \in {0, since}, names \in {{n} : n \in Names} \cup {Names} :
       got' = Selected(from, names)
  /\ UNCHANGED <<buffer, results, clock, arriving, handler, since, mark, acked, restarts>>

\* DELETE /events
Delete ==
  /\ Idle
  /\ events' = << >>
  /\ UNCHANGED <<results, clock, arriving, handler, reader, acked, restarts, log>>

\* POST /results: 400 without a verdict.
Results ==
  /\ Idle
  /\ \E r \in Summaries : r # "" /\ results' = <<r>>
  /\ UNCHANGED <<buffer, clock, arriving, handler, reader, acked, restarts>>

\* docker restarts the container: the connections and the memory are gone,
\* the senders send again.
Restart ==
  /\ restarts < MaxRestarts
  /\ restarts' = restarts + 1
  /\ events' = << >> /\ results' = << >>
  /\ serving' = << >> /\ stored' = 0 /\ receivedAt' = 0
  /\ UNCHANGED <<clock, arriving, reader, acked, log>>

Tick ==
  /\ clock < MaxClock
  /\ clock' = clock + 1
  /\ UNCHANGED <<buffer, results, arriving, handler, reader, acked, restarts>>

Next ==
  \/ Send \/ BodyEnds \/ Store \/ Reply \/ TooLarge
  \/ Healthz \/ Events \/ Delete \/ Results
  \/ Restart \/ Tick

Spec == Init /\ [][Next]_vars
-----------------------------------------------------------------------------
Promised == INSTANCE Ledger WITH
  Keep <- MAX_EVENTS, floor <- Len(log) - Len(events),
  answer <- got, board <- results

\* The sink keeps what its header promises: events leave it oldest first and
\* only when MAX_EVENTS are held, an answer lacks nothing received since the
\* instant the reader was given, and a sender is told 200 only once all its
\* alerts are in the ledger; through repeats, refusals, other requests in the
\* middle of a body, DELETE and restarts.
KeepsTheLedger == Promised!Spec
=============================================================================

----------------------------- MODULE MessageFlow -----------------------------
(***************************************************************************)
(* The messages of the demo load (canary/src/index.mjs, canary/src/mq.mjs):*)
(* the producer's persistent orders, the consumer that takes them outside  *)
(* a unit of work, and the canary's probes, which are not persistent and   *)
(* expire.  The queue manager stops and starts, a call's reply is lost     *)
(* with its connection, and docker restarts a role that was killed (also   *)
(* by its own mem_limit).  How a connection is opened, kept and dropped is *)
(* the subject of Session.                                                 *)
(*                                                                         *)
(* A tick is the canary's GET wait, 5 s.                                   *)
(***************************************************************************)
EXTENDS Integers, SequencesExt

CONSTANTS
  MaxOrders,   \* bound on the orders the producer tries to put
  MaxDepth,    \* MAXDEPTH of APP.ORDERS.REQ
  Interval,    \* ticks between two probes (INTERVAL_MS)
  Expiry,      \* ticks a probe lives (CANARY_EXPIRY_TENTHS)
  MaxFaults    \* bound on lost replies, kills and stops of the queue manager

ASSUME FlowAssumption ==
  /\ {MaxOrders, MaxFaults} \subseteq Nat
  /\ {MaxDepth, Interval, Expiry} \subseteq Nat \ {0}

VARIABLES
  up,         \* the queue manager answers
  faults,
  queue,      \* APP.ORDERS.REQ: [id, big], the head first
  tried,      \* orders the producer has tried to put
  cons,       \* consumer: "get", "work", "large"
  hand,       \* the order it works on, 0 for none
  consumed,   \* orders processed, in order (mq.orders.consumed)
  probes,     \* ages of the probes on APP.CANARY, the oldest first
  canary,     \* "put", "get", "sleep"
  timer,      \* ticks until its wait or sleep ends
  restarts,   \* of the canary
  (* history *)
  produced,   \* orders counted as produced
  enqueued,   \* orders the queue manager took
  oversized,  \* orders larger than the consumer's buffer
  killed,     \* orders in the hands of a consumer that was killed
  broken,     \* orders whose GET lost its reply after the message was taken
  discarded   \* orders the consumer discarded as oversized

orders == <<queue, tried, cons, hand, consumed>>
probing == <<probes, canary, timer, restarts>>
history == <<produced, enqueued, oversized, killed, broken, discarded>>
vars == <<up, faults, orders, probing, history>>

Init ==
  /\ up = TRUE /\ faults = 0
  /\ queue = << >> /\ tried = 0
  /\ cons = "get" /\ hand = 0 /\ consumed = << >>
  /\ probes = << >> /\ canary = "put" /\ timer = 0 /\ restarts = 0
  /\ produced = {} /\ enqueued = {} /\ oversized = {}
  /\ killed = {} /\ broken = {} /\ discarded = {}

Fault == faults < MaxFaults /\ faults' = faults + 1
-----------------------------------------------------------------------------
\* The producer: a new order whatever became of the last one.  A call that
\* fails may have put the message; an order of any size is the queue's.
Enqueue(id) ==
  /\ Len(queue) < MaxDepth
  /\ \E big \in BOOLEAN :
       /\ queue' = Append(queue, [id |-> id, big |-> big])
       /\ oversized' = IF big THEN oversized \cup {id} ELSE oversized
  /\ enqueued' = enqueued \cup {id}

PutReturns ==
  /\ up /\ tried < MaxOrders
  /\ tried' = tried + 1
  /\ Enqueue(tried')
  /\ produced' = produced \cup {tried'}
  /\ UNCHANGED <<up, faults, cons, hand, consumed, probing, killed, broken, discarded>>

\* Fault for a mutant: an order whose put failed is put again.
BugPutLost ==
  /\ up /\ tried < MaxOrders
  /\ Fault
  /\ Enqueue(tried + 1)
  /\ UNCHANGED <<up, tried, cons, hand, consumed, probing, produced, killed, broken, discarded>>
PutLost ==
  /\ up /\ tried < MaxOrders
  /\ Fault
  /\ tried' = tried + 1
  /\ Enqueue(tried')
  /\ UNCHANGED <<up, cons, hand, consumed, probing, produced, killed, broken, discarded>>

PutRefused ==
  /\ tried < MaxOrders
  /\ ~up \/ Len(queue) = MaxDepth
  /\ tried' = tried + 1
  /\ UNCHANGED <<up, faults, queue, cons, hand, consumed, probing, history>>
-----------------------------------------------------------------------------
\* The consumer: GET outside a unit of work, work, next.
\* Fault for a mutant: any GET that fails is taken for one of an order too large.
BugGet ==
  /\ up /\ cons = "get" /\ queue # << >>
  /\ \/ /\ ~Head(queue).big /\ UNCHANGED faults
        /\ cons' = "work" /\ hand' = Head(queue).id /\ queue' = Tail(queue)
     \/ /\ (Head(queue).big /\ UNCHANGED faults) \/ Fault
        /\ cons' = "large" /\ UNCHANGED <<queue, hand>>
  /\ UNCHANGED <<up, tried, consumed, probing, history>>
Get ==
  /\ up /\ cons = "get" /\ queue # << >>
  /\ IF Head(queue).big
     THEN cons' = "large" /\ UNCHANGED <<queue, hand>>
     ELSE cons' = "work" /\ hand' = Head(queue).id /\ queue' = Tail(queue)
  /\ UNCHANGED <<up, faults, tried, consumed, probing, history>>

GetLost ==
  /\ up /\ cons = "get" /\ queue # << >> /\ ~Head(queue).big
  /\ Fault
  /\ queue' = Tail(queue)
  /\ broken' = broken \cup {Head(queue).id}
  /\ UNCHANGED <<up, tried, cons, hand, consumed, probing, produced, enqueued, oversized,
                 killed, discarded>>

Work ==
  /\ cons = "work"
  /\ consumed' = Append(consumed, hand)
  /\ cons' = "get" /\ hand' = 0
  /\ UNCHANGED <<up, faults, queue, tried, probing, history>>

\* The second GET takes what is at the head by then, whole or truncated.
BugDiscard ==
  /\ cons = "large"
  /\ cons' = "get"
  /\ UNCHANGED <<up, faults, queue, tried, hand, consumed, probing, history>>
Discard ==
  /\ up /\ cons = "large"
  /\ cons' = "get"
  /\ queue # << >>
  /\ queue' = Tail(queue)
  /\ discarded' = discarded \cup {Head(queue).id}
  /\ UNCHANGED <<up, faults, tried, hand, consumed, probing, produced, enqueued, oversized,
                 killed, broken>>

\* Like any GET it may take the message and lose its reply: nothing is said
\* of an order that is gone.
DiscardLost ==
  /\ up /\ cons = "large" /\ queue # << >>
  /\ Fault
  /\ cons' = "get"
  /\ queue' = Tail(queue)
  /\ broken' = broken \cup {Head(queue).id}
  /\ UNCHANGED <<up, tried, hand, consumed, probing, produced, enqueued, oversized,
                 killed, discarded>>

DiscardFails ==
  /\ cons = "large"
  /\ \/ ~up /\ UNCHANGED faults
     \/ up /\ Fault
  /\ cons' = "get"
  /\ UNCHANGED <<up, queue, tried, hand, consumed, probing, history>>

\* (Killed in the middle of a GET is a lost reply and then a kill.)
ConsumerKilled ==
  /\ Fault
  /\ cons' = "get" /\ hand' = 0
  /\ killed' = IF hand = 0 THEN killed ELSE killed \cup {hand}
  /\ UNCHANGED <<up, queue, tried, consumed, probing, produced, enqueued, oversized,
                 broken, discarded>>
-----------------------------------------------------------------------------
\* The canary: put a probe, get that very probe back, sleep.
Rest == canary' = "sleep" /\ timer' = Interval

Probe ==
  /\ up /\ canary = "put"
  /\ probes' = Append(probes, 0)
  /\ \/ canary' = "get" /\ timer' = 1 /\ UNCHANGED faults
     \/ Fault /\ Rest
  /\ UNCHANGED <<up, orders, restarts, history>>

ProbeRefused ==
  /\ ~up /\ canary = "put"
  /\ Rest
  /\ UNCHANGED <<up, faults, orders, probes, restarts, history>>

\* Its own probe is the youngest; what other probes left is never matched.
\* A GET that takes it and loses its reply leaves the same state.
ProbeFound ==
  /\ up /\ canary = "get" /\ probes # << >>
  /\ probes' = Front(probes)
  /\ Rest
  /\ UNCHANGED <<up, faults, orders, restarts, history>>

\* get_timeout when it is gone; any error (GET inhibited, connection lost)
\* leaves it where it is.
ProbeNotFound ==
  /\ canary = "get"
  /\ \/ up /\ probes # << >> /\ Fault
     \/ ~up /\ UNCHANGED faults
     \/ up /\ probes = << >> /\ timer = 0 /\ UNCHANGED faults
  /\ Rest
  /\ UNCHANGED <<up, orders, probes, restarts, history>>

Wake ==
  /\ canary = "sleep" /\ timer = 0
  /\ canary' = "put"
  /\ UNCHANGED <<up, faults, orders, probes, timer, restarts, history>>

CanaryKilled ==
  /\ Fault
  /\ canary' = "put" /\ timer' = 0
  /\ restarts' = restarts + 1
  /\ UNCHANGED <<up, orders, probes, history>>

\* The queue manager drops the probes that have reached their expiry: the
\* first so many, as the oldest comes first.
Expired(ages) ==
  CHOOSE n \in 0..Len(ages) : \A i \in DOMAIN ages : i <= n <=> ages[i] + 1 >= Expiry
BugAged(ages) == [i \in DOMAIN ages |-> ages[i] + 1]
Aged(ages) ==
  LET n == Expired(ages) IN [i \in 1..(Len(ages) - n) |-> ages[i + n] + 1]

Tick ==
  /\ canary # "put" /\ timer > 0
  /\ timer' = timer - 1
  /\ probes' = Aged(probes)
  /\ UNCHANGED <<up, faults, orders, canary, restarts, history>>
-----------------------------------------------------------------------------
\* Messages that are not persistent do not survive the queue manager.
QmgrStops ==
  /\ up /\ Fault
  /\ up' = FALSE
  /\ probes' = << >>
  /\ UNCHANGED <<orders, canary, timer, restarts, history>>

QmgrStarts ==
  /\ ~up
  /\ up' = TRUE
  /\ UNCHANGED <<faults, orders, probing, history>>

Producer == PutReturns \/ PutLost \/ PutRefused
Consumer == Get \/ Work \/ Discard \/ DiscardFails
Canary == Probe \/ ProbeRefused \/ ProbeFound \/ ProbeNotFound \/ Wake

Next ==
  \/ Producer \/ Consumer \/ GetLost \/ DiscardLost \/ ConsumerKilled
  \/ Canary \/ CanaryKilled \/ Tick
  \/ QmgrStops \/ QmgrStarts

Spec == Init /\ [][Next]_vars

\* The consumer's loop goes on while its queue manager answers.
FairSpec == Spec /\ WF_vars(Consumer)
-----------------------------------------------------------------------------
\* Orders are processed at most once and in the order they were put, through
\* lost replies, kills and restarts: no role ever repeats a call.
ProcessedInOrder ==
  \A i, j \in DOMAIN consumed : i < j => consumed[i] < consumed[j]

\* What left the queue without being processed can be explained: its
\* consumer was killed with it in hand, the reply of the GET that took it was
\* lost, or it was too large for the buffer; and what the producer counts as
\* produced was really put.
Queued == {queue[i].id : i \in DOMAIN queue}
LossIsExplained ==
  /\ enqueued \ (Queued \cup ToSet(consumed) \cup {hand})
       \subseteq killed \cup broken \cup (discarded \cap oversized)
  /\ produced \subseteq enqueued

\* An oversized order does not hold up the ones behind it: in the end every
\* order leaves a queue whose queue manager keeps answering.
QueueDrains ==
  \A id \in 1..MaxOrders : <>[]up => <>[](id \notin Queued)

\* Whatever errors, stops and kills leave behind, a probe does not outlive
\* the next few: APP.CANARY holds no more than the probes of one expiry, and
\* one more for every restart of the canary.
ProbesStayFew ==
  Len(probes) * Interval <= Expiry + Interval - 1 + Interval * restarts
=============================================================================

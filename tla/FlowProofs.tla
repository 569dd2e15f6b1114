------------------------------ MODULE FlowProofs ------------------------------
(***************************************************************************)
(* What holds of the demo load for any number of orders and probes, any    *)
(* depth of the queue and any number of faults.                            *)
(*                                                                         *)
(* The orders: an identifier is drawn once and the queue is served from    *)
(* its head, so what was processed, what is in hand and what is queued are *)
(* three ascending stretches one after the other (Increasing, InHand), and *)
(* an order can only leave them where the books record it (Explained).     *)
(*                                                                         *)
(* The probes: every probe but the youngest was followed by a sleep of     *)
(* Interval ticks or by a kill, so the age of a probe and the restarts pay *)
(* for the probes put after it (Paid), and an age is below the expiry.     *)
(***************************************************************************)
EXTENDS MessageFlow, SequenceTheorems, WellFoundedInduction, TLAPS

Order == [id : Nat \ {0}, big : BOOLEAN]

OrdersTyped ==
  /\ queue \in Seq(Order) /\ tried \in Nat
  /\ cons \in {"get", "work", "large"} /\ hand \in Nat /\ consumed \in Seq(Nat)

Increasing ==
  /\ ProcessedInOrder
  /\ \A i, j \in DOMAIN queue : i < j => queue[i].id < queue[j].id
  /\ \A i \in DOMAIN consumed, j \in DOMAIN queue : consumed[i] < queue[j].id
  /\ \A i \in DOMAIN consumed : consumed[i] <= tried
  /\ \A j \in DOMAIN queue : queue[j].id <= tried

InHand ==
  /\ cons # "work" => hand = 0
  /\ cons = "work" =>
       /\ hand \in 1..tried
       /\ \A i \in DOMAIN consumed : consumed[i] < hand
       /\ \A j \in DOMAIN queue : hand < queue[j].id

Accounted == killed \cup broken \cup (discarded \cap oversized)
Explained ==
  /\ enqueued \subseteq Queued \cup ToSet(consumed) \cup {hand} \cup Accounted
  /\ produced \subseteq enqueued /\ enqueued \subseteq 1..tried
  /\ \A j \in DOMAIN queue : queue[j].big => queue[j].id \in oversized
  /\ cons = "large" => queue # << >> /\ queue[1].big

OrdersInv == OrdersTyped /\ Increasing /\ InHand /\ Explained
-----------------------------------------------------------------------------
(* What a queue's operations do to its elements.                           *)

LEMMA AppendElements ==
  ASSUME NEW S, NEW s \in Seq(S), NEW e \in S
  PROVE  /\ Append(s, e) \in Seq(S)
         /\ Len(Append(s, e)) = Len(s) + 1
         /\ DOMAIN s = 1..Len(s) /\ DOMAIN Append(s, e) = 1..(Len(s) + 1)
         /\ \A i \in 1..Len(s) : Append(s, e)[i] = s[i]
         /\ Append(s, e)[Len(s) + 1] = e
OBVIOUS

LEMMA TailElements ==
  ASSUME NEW S, NEW s \in Seq(S), s # << >>
  PROVE  /\ Len(s) \in Nat \ {0} /\ DOMAIN s = 1..Len(s)
         /\ Head(s) = s[1] /\ s[1] \in S
         /\ Tail(s) \in Seq(S) /\ Len(Tail(s)) = Len(s) - 1
         /\ DOMAIN Tail(s) = 1..(Len(s) - 1)
         /\ \A i \in 1..(Len(s) - 1) : Tail(s)[i] = s[i + 1]
OBVIOUS

LEMMA AppendedSet ==
  ASSUME NEW S, NEW s \in Seq(S), NEW e \in S
  PROVE  ToSet(Append(s, e)) = ToSet(s) \cup {e}
<1>1. \A x \in ToSet(s) \cup {e} : \E i \in DOMAIN Append(s, e) : Append(s, e)[i] = x
  BY AppendElements DEF ToSet
<1>2. \A i \in DOMAIN Append(s, e) : Append(s, e)[i] \in ToSet(s) \cup {e}
  BY AppendElements DEF ToSet
<1>. QED
  BY <1>1, <1>2 DEF ToSet

(* An order that is taken from the head leaves every other one queued.     *)
LEMMA TakenFromHead ==
  ASSUME queue \in Seq(Order), queue # << >>, queue' = Tail(queue)
  PROVE  Queued \subseteq Queued' \cup {queue[1].id}
<1>. SUFFICES ASSUME NEW i \in DOMAIN queue, i # 1
              PROVE  \E k \in DOMAIN queue' : queue'[k].id = queue[i].id
  BY DEF Queued
<1>1. i - 1 \in DOMAIN queue' /\ queue'[i - 1] = queue[i]
  BY TailElements
<1>. QED
  BY <1>1

(* The three stretches stay ascending when a fresh identifier is put: the  *)
(* producer never draws one again.                                         *)
LEMMA PutKeeps ==
  ASSUME OrdersInv, tried' = tried + 1, Enqueue(tried'), UNCHANGED <<cons, hand, consumed>>,
         UNCHANGED <<killed, broken, discarded>>,
         produced' \subseteq produced \cup {tried'}
  PROVE  OrdersInv'
<1>1. PICK big \in BOOLEAN :
        /\ queue' = Append(queue, [id |-> tried + 1, big |-> big])
        /\ oversized' = IF big THEN oversized \cup {tried + 1} ELSE oversized
  BY DEF Enqueue
<1>. DEFINE e == [id |-> tried + 1, big |-> big]
            n == Len(queue)
<1>2. e \in Order /\ queue \in Seq(Order) /\ n \in Nat
  BY DEF OrdersInv, OrdersTyped, Order
<1>3. /\ queue' \in Seq(Order)
      /\ DOMAIN queue = 1..n /\ DOMAIN queue' = 1..(n + 1) /\ Len(queue') = n + 1
      /\ \A i \in 1..n : queue'[i] = queue[i]
      /\ queue'[n + 1] = e
  BY <1>1, <1>2, AppendElements
<1>4. OrdersTyped'
  BY <1>3 DEF OrdersInv, OrdersTyped
<1>5. \A j \in DOMAIN queue' : queue'[j].id <= tried + 1
  <2>. SUFFICES ASSUME NEW j \in DOMAIN queue' PROVE queue'[j].id <= tried + 1
    OBVIOUS
  <2>1. CASE j = n + 1
    BY <1>3, <2>1 DEF OrdersInv, OrdersTyped
  <2>2. CASE j \in 1..n
    <3>1. queue[j] \in Order /\ queue[j].id <= tried
      BY <1>2, <1>3, <2>2 DEF OrdersInv, Increasing
    <3>. QED
      BY <1>3, <2>2, <3>1 DEF OrdersInv, OrdersTyped, Order
  <2>. QED
    BY <1>2, <1>3, <2>1, <2>2
<1>6. Increasing'
  <2>1. \A i, j \in DOMAIN queue' : i < j => queue'[i].id < queue'[j].id
    <3>. SUFFICES ASSUME NEW i \in DOMAIN queue', NEW j \in DOMAIN queue', i < j
                  PROVE  queue'[i].id < queue'[j].id
      OBVIOUS
    <3>1. i \in 1..n
      BY <1>2, <1>3
    <3>2. CASE j = n + 1
      <4>1. queue[i] \in Order /\ queue[i].id <= tried
        BY <1>2, <1>3, <3>1 DEF OrdersInv, Increasing
      <4>. QED
        BY <1>3, <3>1, <3>2, <4>1 DEF OrdersInv, OrdersTyped, Order
    <3>3. CASE j \in 1..n
      BY <1>3, <3>1, <3>3 DEF OrdersInv, Increasing
    <3>. QED
      BY <1>2, <1>3, <3>2, <3>3
  <2>2. \A i \in DOMAIN consumed, j \in DOMAIN queue' : consumed[i] < queue'[j].id
    <3>. SUFFICES ASSUME NEW i \in DOMAIN consumed, NEW j \in DOMAIN queue'
                  PROVE  consumed[i] < queue'[j].id
      OBVIOUS
    <3>1. consumed[i] \in Nat /\ consumed[i] <= tried
      BY DEF OrdersInv, OrdersTyped, Increasing
    <3>2. CASE j = n + 1
      BY <1>3, <3>1, <3>2 DEF OrdersInv, OrdersTyped
    <3>3. CASE j \in 1..n
      BY <1>3, <3>1, <3>3 DEF OrdersInv, Increasing
    <3>. QED
      BY <1>2, <1>3, <3>2, <3>3
  <2>3. \A i \in DOMAIN consumed : consumed[i] <= tried + 1
    BY DEF OrdersInv, OrdersTyped, Increasing
  <2>. QED
    BY <1>5, <2>1, <2>2, <2>3 DEF OrdersInv, Increasing, ProcessedInOrder
<1>7. InHand'
  <2>1. cons = "work" => hand \in 1..(tried + 1)
    BY DEF OrdersInv, OrdersTyped, InHand
  <2>2. cons = "work" => \A j \in DOMAIN queue' : hand < queue'[j].id
    <3>. SUFFICES ASSUME cons = "work", NEW j \in DOMAIN queue' PROVE hand < queue'[j].id
      OBVIOUS
    <3>1. CASE j = n + 1
      BY <1>3, <3>1 DEF OrdersInv, OrdersTyped, InHand
    <3>2. CASE j \in 1..n
      BY <1>3, <3>2 DEF OrdersInv, InHand
    <3>. QED
      BY <1>2, <1>3, <3>1, <3>2
  <2>. QED
    BY <2>1, <2>2 DEF OrdersInv, InHand
<1>8. Explained'
  <2>1. Queued' = Queued \cup {tried + 1}
    <3>1. \A x \in Queued \cup {tried + 1} : \E j \in DOMAIN queue' : queue'[j].id = x
      BY <1>2, <1>3 DEF Queued
    <3>2. \A j \in DOMAIN queue' : queue'[j].id \in Queued \cup {tried + 1}
      BY <1>2, <1>3 DEF Queued
    <3>. QED
      BY <3>1, <3>2 DEF Queued
  <2>2. oversized \subseteq oversized'
    BY <1>1
  <2>3. enqueued' = enqueued \cup {tried + 1}
    BY DEF Enqueue
  <2>4. enqueued' \subseteq Queued' \cup ToSet(consumed') \cup {hand'} \cup Accounted'
    BY <2>1, <2>2, <2>3 DEF OrdersInv, Explained, Accounted
  <2>5. produced' \subseteq enqueued' /\ enqueued' \subseteq 1..tried'
    BY <2>3 DEF OrdersInv, OrdersTyped, Explained
  <2>6. \A j \in DOMAIN queue' : queue'[j].big => queue'[j].id \in oversized'
    BY <1>1, <1>2, <1>3, <2>2 DEF OrdersInv, Explained
  <2>7. cons' = "large" => queue' # << >> /\ queue'[1].big
    BY <1>2, <1>3 DEF OrdersInv, Explained
  <2>. QED
    BY <2>4, <2>5, <2>6, <2>7 DEF Explained
<1>. QED
  BY <1>4, <1>6, <1>7, <1>8 DEF OrdersInv

(* The head is taken: into the consumer's hands, or into the books.        *)
LEMMA TakeKeeps ==
  ASSUME OrdersInv, queue # << >>, queue' = Tail(queue), UNCHANGED <<tried, consumed>>,
         UNCHANGED <<enqueued, oversized, produced>>,
         cons # "work", cons' \in {"get", "work"},
         hand' = IF cons' = "work" THEN queue[1].id ELSE 0,
         Accounted \subseteq Accounted',
         cons' = "work" \/ queue[1].id \in Accounted'
  PROVE  OrdersInv'
<1>. DEFINE n == Len(queue)
<1>1. /\ n \in Nat \ {0} /\ DOMAIN queue = 1..n /\ queue[1] \in Order
      /\ queue' \in Seq(Order) /\ DOMAIN queue' = 1..(n - 1)
      /\ \A j \in 1..(n - 1) : queue'[j] = queue[j + 1]
  BY TailElements DEF OrdersInv, OrdersTyped
<1>2. hand = 0 /\ tried \in Nat /\ queue[1].id \in 1..tried
  <2>1. queue[1].id \in Nat \ {0} /\ queue[1].id <= tried
    BY <1>1 DEF OrdersInv, Order, Increasing
  <2>. QED
    BY <2>1 DEF OrdersInv, OrdersTyped, InHand
<1>3. OrdersTyped'
  BY <1>1, <1>2 DEF OrdersInv, OrdersTyped
<1>4. Increasing'
  BY <1>1 DEF OrdersInv, Increasing, ProcessedInOrder
<1>5. InHand'
  BY <1>1, <1>2 DEF OrdersInv, InHand, Increasing
<1>6. Explained'
  <2>1. Queued \subseteq Queued' \cup {queue[1].id}
    BY TakenFromHead DEF OrdersInv, OrdersTyped
  <2>2. enqueued' \subseteq Queued' \cup ToSet(consumed') \cup {hand'} \cup Accounted'
    <3>. SUFFICES ASSUME NEW id \in enqueued, id \notin Queued', id \notin ToSet(consumed),
                         id \notin Accounted'
                  PROVE  id = hand'
      OBVIOUS
    <3>1. id # 0 /\ id \in Queued
      BY <1>2 DEF OrdersInv, Explained
    <3>. QED
      BY <2>1, <3>1
  <2>3. \A j \in DOMAIN queue' : queue'[j].big => queue'[j].id \in oversized'
    BY <1>1 DEF OrdersInv, Explained
  <2>. QED
    BY <2>2, <2>3 DEF OrdersInv, Explained
<1>. QED
  BY <1>3, <1>4, <1>5, <1>6 DEF OrdersInv

LEMMA OrdersInit == Init => OrdersInv
<1>. SUFFICES ASSUME Init PROVE OrdersInv
  OBVIOUS
<1>1. OrdersTyped /\ Increasing /\ InHand
  BY DEF Init, OrdersTyped, Increasing, InHand, ProcessedInOrder
<1>2. Explained
  BY DEF Init, Explained
<1>. QED
  BY <1>1, <1>2 DEF OrdersInv

LEMMA OrdersStep ==
  ASSUME OrdersInv, [Next]_vars
  PROVE  OrdersInv'
<1>1. CASE PutReturns
  BY <1>1, PutKeeps DEF PutReturns
<1>2. CASE PutLost
  BY <1>2, PutKeeps DEF PutLost
<1>3. CASE PutRefused
  <2>1. UNCHANGED <<queue, cons, hand, consumed>> /\ UNCHANGED history /\ tried' = tried + 1
    BY <1>3 DEF PutRefused
  <2>2. \A k \in Int : k <= tried => k <= tried'
    BY <2>1 DEF OrdersInv, OrdersTyped
  <2>4. \A i \in DOMAIN consumed : consumed[i] \in Int
    BY DEF OrdersInv, OrdersTyped
  <2>5. \A j \in DOMAIN queue : queue[j].id \in Int
    <3>1. \A j \in DOMAIN queue : queue[j] \in Order
      BY DEF OrdersInv, OrdersTyped
    <3>. QED
      BY <3>1 DEF Order
  <2>6. Increasing'
    BY <2>1, <2>2, <2>4, <2>5 DEF OrdersInv, Increasing, ProcessedInOrder
  <2>7. OrdersTyped' /\ InHand'
    BY <2>1 DEF OrdersInv, OrdersTyped, InHand
  <2>3. Explained'
    BY <2>1 DEF OrdersInv, OrdersTyped, Explained, Accounted, Queued, history
  <2>. QED
    BY <2>3, <2>6, <2>7 DEF OrdersInv
<1>4. CASE Get /\ ~queue[1].big
  <2>1. Head(queue) = queue[1]
    BY <1>4, TailElements DEF Get, OrdersInv, OrdersTyped
  <2>2. cons' = "work" /\ hand' = queue[1].id /\ queue' = Tail(queue)
        /\ UNCHANGED <<tried, consumed>> /\ UNCHANGED history
    BY <1>4, <2>1 DEF Get
  <2>3. Accounted' = Accounted
    BY <2>2 DEF Accounted, history
  <2>. QED
    BY <1>4, <2>2, <2>3, TakeKeeps DEF Get, history
<1>5. CASE Get /\ queue[1].big
  <2>1. Head(queue) = queue[1]
    BY <1>5, TailElements DEF Get, OrdersInv, OrdersTyped
  <2>2. cons' = "large" /\ UNCHANGED <<queue, hand, tried, consumed>> /\ UNCHANGED history
    BY <1>5, <2>1 DEF Get
  <2>3. OrdersTyped' /\ Increasing' /\ InHand'
    BY <1>5, <2>2 DEF OrdersInv, OrdersTyped, Increasing, InHand, ProcessedInOrder, Get
  <2>4. Explained'
    BY <1>5, <2>2 DEF OrdersInv, Explained, Accounted, Queued, history, Get
  <2>. QED
    BY <2>3, <2>4 DEF OrdersInv
<1>6. CASE GetLost
  <2>1. Head(queue) = queue[1]
    BY <1>6, TailElements DEF GetLost, OrdersInv, OrdersTyped
  <2>2. Accounted \subseteq Accounted' /\ queue[1].id \in Accounted'
    BY <1>6, <2>1 DEF GetLost, Accounted
  <2>3. hand = 0 /\ cons' = "get" /\ hand' = 0
    BY <1>6 DEF GetLost, OrdersInv, InHand
  <2>. QED
    BY <1>6, <2>2, <2>3, TakeKeeps DEF GetLost
<1>7. CASE Discard
  <2>1. Head(queue) = queue[1] /\ 1 \in DOMAIN queue
    BY <1>7, TailElements DEF Discard, OrdersInv, OrdersTyped
  <2>2. queue[1].id \in oversized
    BY <1>7, <2>1 DEF Discard, OrdersInv, Explained
  <2>3. Accounted \subseteq Accounted' /\ queue[1].id \in Accounted'
    BY <1>7, <2>1, <2>2 DEF Discard, Accounted
  <2>4. hand = 0 /\ cons' = "get" /\ hand' = 0
    BY <1>7 DEF Discard, OrdersInv, InHand
  <2>. QED
    BY <1>7, <2>3, <2>4, TakeKeeps DEF Discard
<1>11. CASE DiscardLost
  <2>1. Head(queue) = queue[1]
    BY <1>11, TailElements DEF DiscardLost, OrdersInv, OrdersTyped
  <2>2. Accounted \subseteq Accounted' /\ queue[1].id \in Accounted'
    BY <1>11, <2>1 DEF DiscardLost, Accounted
  <2>3. hand = 0 /\ cons' = "get" /\ hand' = 0
    BY <1>11 DEF DiscardLost, OrdersInv, InHand
  <2>. QED
    BY <1>11, <2>2, <2>3, TakeKeeps DEF DiscardLost
<1>8. CASE Work
  <2>. DEFINE n == Len(consumed)
  <2>1. /\ hand \in 1..tried /\ n \in Nat /\ tried \in Nat
        /\ consumed' \in Seq(Nat) /\ DOMAIN consumed = 1..n /\ DOMAIN consumed' = 1..(n + 1)
        /\ \A i \in 1..n : consumed'[i] = consumed[i]
        /\ consumed'[n + 1] = hand
    <3>1. hand \in 1..tried /\ tried \in Nat /\ hand \in Nat /\ consumed \in Seq(Nat)
      BY <1>8 DEF Work, OrdersInv, OrdersTyped, InHand
    <3>2. consumed' = Append(consumed, hand)
      BY <1>8 DEF Work
    <3>. QED
      BY <3>1, <3>2, AppendElements
  <2>2. cons' = "get" /\ hand' = 0 /\ UNCHANGED <<queue, tried>> /\ UNCHANGED history
    BY <1>8 DEF Work
  <2>3. \A i \in 1..n : consumed[i] < hand /\ consumed[i] <= tried
    BY <1>8, <2>1 DEF Work, OrdersInv, InHand, Increasing
  <2>4. ProcessedInOrder'
    <3>. SUFFICES ASSUME NEW i \in DOMAIN consumed', NEW j \in DOMAIN consumed', i < j
                  PROVE  consumed'[i] < consumed'[j]
      BY DEF ProcessedInOrder
    <3>1. CASE j = n + 1
      BY <2>1, <2>3, <3>1
    <3>2. CASE j \in 1..n
      BY <2>1, <3>2 DEF OrdersInv, Increasing, ProcessedInOrder
    <3>. QED
      BY <2>1, <3>1, <3>2
  <2>5. \A i \in DOMAIN consumed', j \in DOMAIN queue : consumed'[i] < queue[j].id
    <3>. SUFFICES ASSUME NEW i \in DOMAIN consumed', NEW j \in DOMAIN queue
                  PROVE  consumed'[i] < queue[j].id
      OBVIOUS
    <3>1. CASE i = n + 1
      BY <1>8, <2>1, <3>1 DEF Work, OrdersInv, InHand
    <3>2. CASE i \in 1..n
      BY <2>1, <3>2 DEF OrdersInv, Increasing
    <3>. QED
      BY <2>1, <3>1, <3>2
  <2>6. \A i \in DOMAIN consumed' : consumed'[i] <= tried
    BY <2>1, <2>3
  <2>7. Increasing' /\ OrdersTyped' /\ InHand'
    BY <2>1, <2>2, <2>4, <2>5, <2>6 DEF OrdersInv, OrdersTyped, Increasing, InHand
  <2>8. ToSet(consumed') = ToSet(consumed) \cup {hand}
    BY <1>8, AppendedSet DEF Work, OrdersInv, OrdersTyped
  <2>9. Explained'
    BY <2>2, <2>8 DEF OrdersInv, Explained, Accounted, Queued, history
  <2>. QED
    BY <2>7, <2>9 DEF OrdersInv
<1>9. CASE DiscardFails \/ ConsumerKilled
  <2>1. cons' = "get" /\ UNCHANGED <<queue, tried, consumed>>
        /\ UNCHANGED <<produced, enqueued, oversized, broken, discarded>>
    BY <1>9 DEF DiscardFails, ConsumerKilled, history
  <2>2. hand' = 0 /\ killed \subseteq killed' /\ (hand = 0 \/ hand \in killed')
    BY <1>9 DEF DiscardFails, ConsumerKilled, history, OrdersInv, InHand
  <2>3. OrdersTyped' /\ Increasing' /\ InHand'
    BY <2>1, <2>2 DEF OrdersInv, OrdersTyped, Increasing, InHand, ProcessedInOrder
  <2>4. Explained'
    BY <2>1, <2>2 DEF OrdersInv, Explained, Accounted, Queued
  <2>. QED
    BY <2>3, <2>4 DEF OrdersInv
<1>10. CASE Canary \/ CanaryKilled \/ Tick \/ QmgrStops \/ QmgrStarts \/ UNCHANGED vars
  <2>1. UNCHANGED orders /\ UNCHANGED history
    BY <1>10 DEF Canary, Probe, ProbeRefused, ProbeFound, ProbeNotFound, Wake, CanaryKilled, Tick,
                 QmgrStops, QmgrStarts, vars, Rest
  <2>. QED
    BY <2>1 DEF orders, history, OrdersInv, OrdersTyped, Increasing, ProcessedInOrder, InHand,
                Explained, Accounted, Queued
<1>. QED
  BY <1>1, <1>2, <1>3, <1>4, <1>5, <1>6, <1>7, <1>8, <1>9, <1>10, <1>11 DEF Next, Producer, Consumer

LEMMA AlwaysOrdersInv == Spec => []OrdersInv
<1>1. OrdersInv /\ [Next]_vars => OrdersInv'
  BY OrdersStep
<1>. QED
  BY <1>1, OrdersInit, PTL DEF Spec

(* No order is processed twice or out of turn, through lost replies, kills *)
(* and restarts: canary/src/index.mjs never repeats a call.                *)
THEOREM OrdersInOrder == Spec => []ProcessedInOrder
<1>1. OrdersInv => ProcessedInOrder
  BY DEF OrdersInv, Increasing
<1>. QED
  BY <1>1, AlwaysOrdersInv, PTL

(* What is gone and was not processed is in the books: killed in hand,     *)
(* taken by a GET that lost its reply, or discarded as oversized (mq.mjs). *)
THEOREM OrdersExplained == Spec => []LossIsExplained
<1>1. OrdersInv => LossIsExplained
  BY DEF OrdersInv, Explained, Accounted, LossIsExplained
<1>. QED
  BY <1>1, AlwaysOrdersInv, PTL
-----------------------------------------------------------------------------
(* The probes.  Debt(k): the ticks k probes take to be put.                *)
Debt(k) == k * Interval

LEMMA DebtGrows == \A k \in Int : Debt(k) \in Int /\ Debt(k + 1) = Debt(k) + Interval
BY FlowAssumption DEF Debt

ProbesTyped ==
  /\ probes \in Seq(0..Expiry - 1)
  /\ canary \in {"put", "get", "sleep"} /\ timer \in 0..Interval /\ restarts \in Nat
  /\ canary = "put" => timer = 0

OldestFirst(ages) == \A i, j \in DOMAIN ages : i < j => ages[i] >= ages[j]

Younger(i) == Len(probes) - i
Paid ==
  \A i \in DOMAIN probes :
    IF canary = "get" THEN Debt(Younger(i)) <= probes[i] + Debt(restarts)
    ELSE Debt(Younger(i) + 1) <= probes[i] + timer + Debt(restarts)

ProbesInv == ProbesTyped /\ OldestFirst(probes) /\ Paid

(* The queue manager's choice exists: the probes that have reached their   *)
(* expiry are the first so many.                                           *)
LEMMA ExpiredIsPrefix ==
  ASSUME NEW ages \in Seq(Nat), OldestFirst(ages)
  PROVE  /\ Expired(ages) \in 0..Len(ages)
         /\ \A i \in DOMAIN ages : i <= Expired(ages) <=> ages[i] + 1 >= Expiry
<1>. DEFINE Right(n) == \A i \in DOMAIN ages : i <= n <=> ages[i] + 1 >= Expiry
            Enough == {n \in 0..Len(ages) : \A i \in DOMAIN ages : i > n => ages[i] + 1 < Expiry}
<1>0. Expiry \in Nat /\ Len(ages) \in Nat /\ DOMAIN ages = 1..Len(ages)
      /\ \A i \in DOMAIN ages : ages[i] \in Nat
  BY FlowAssumption
<1>1. Len(ages) \in Enough /\ Enough \subseteq Nat
  BY <1>0
<1>2. PICK n \in Enough : \A m \in Enough : <<m, n>> \notin OpToRel(<, Nat)
  <2>. HIDE DEF Enough
  <2>. QED
    BY <1>1, WFMin, NatLessThanWellFounded
<1>3. \A m \in Enough : ~(m < n)
  BY <1>1, <1>2 DEF OpToRel
<1>4. Right(n)
  <2>. SUFFICES ASSUME NEW i \in DOMAIN ages, i <= n PROVE ages[i] + 1 >= Expiry
    BY <1>0
  <2>1. n \in 1..Len(ages) /\ n - 1 \notin Enough
    <3>1. n \in 1..Len(ages)
      BY <1>0
    <3>2. n - 1 < n
      BY <3>1
    <3>. QED
      BY <1>3, <3>1, <3>2
  <2>2. PICK j \in DOMAIN ages : j > n - 1 /\ ~(ages[j] + 1 < Expiry)
    BY <1>0, <2>1
  <2>3. j = n
    BY <1>0, <2>1, <2>2
  <2>4. i = n \/ ages[i] >= ages[n]
    BY <1>0, <2>1 DEF OldestFirst
  <2>. QED
    BY <1>0, <2>1, <2>2, <2>3, <2>4
<1>. QED
  BY <1>4 DEF Expired

LEMMA AgedProbes ==
  ASSUME NEW ages \in Seq(0..Expiry - 1), OldestFirst(ages)
  PROVE  \E n \in 0..Len(ages) :
           /\ Aged(ages) \in Seq(0..Expiry - 1)
           /\ Len(Aged(ages)) = Len(ages) - n /\ DOMAIN Aged(ages) = 1..(Len(ages) - n)
           /\ \A i \in 1..(Len(ages) - n) : i + n \in DOMAIN ages /\ Aged(ages)[i] = ages[i + n] + 1
<1>. DEFINE n == Expired(ages)
            m == Len(ages) - n
<1>0. ages \in Seq(Nat) /\ Expiry \in Nat /\ Len(ages) \in Nat /\ DOMAIN ages = 1..Len(ages)
      /\ \A i \in DOMAIN ages : ages[i] \in 0..Expiry - 1
  BY FlowAssumption
<1>1. n \in 0..Len(ages) /\ \A i \in DOMAIN ages : i <= n <=> ages[i] + 1 >= Expiry
  BY <1>0, ExpiredIsPrefix
<1>2. Aged(ages) = [i \in 1..m |-> ages[i + n] + 1]
  BY DEF Aged
<1>. HIDE DEF n
<1>3. m \in Nat /\ \A i \in 1..m : i + n \in DOMAIN ages /\ ages[i + n] + 1 \in 0..Expiry - 1
  BY <1>0, <1>1
<1>4. Aged(ages) \in Seq(0..Expiry - 1) /\ Len(Aged(ages)) = m /\ DOMAIN Aged(ages) = 1..m
  <2>. DEFINE Ages == 0..Expiry - 1
  <2>1. Aged(ages) \in [1..m -> Ages]
    BY <1>2, <1>3
  <2>. HIDE DEF Ages, m
  <2>2. Aged(ages) \in Seq(Ages)
    BY <1>3, <2>1, SeqDef
  <2>3. Len(Aged(ages)) = m
    BY <1>3, <2>1, <2>2, LenProperties
  <2>. QED
    BY <2>1, <2>2, <2>3 DEF Ages
<1>. QED
  BY <1>1, <1>2, <1>3, <1>4

LEMMA ProbesInit == Init => ProbesInv
BY FlowAssumption DEF Init, ProbesInv, ProbesTyped, OldestFirst, Paid

(* A probe is put: the time for it was paid while the canary slept.        *)
LEMMA ProbeKeeps ==
  ASSUME ProbesInv, Probe
  PROVE  ProbesInv'
<1>. DEFINE n == Len(probes)
<1>1. /\ n \in Nat /\ DOMAIN probes = 1..n /\ DOMAIN probes' = 1..(n + 1) /\ Len(probes') = n + 1
      /\ probes' \in Seq(0..Expiry - 1)
      /\ \A i \in 1..n : probes[i] \in 0..Expiry - 1 /\ probes'[i] = probes[i]
      /\ probes'[n + 1] = 0
  <2>. DEFINE Ages == 0..Expiry - 1
  <2>1. 0 \in Ages /\ probes' = Append(probes, 0) /\ probes \in Seq(Ages)
    BY FlowAssumption DEF Probe, ProbesInv, ProbesTyped
  <2>. HIDE DEF Ages
  <2>2. n \in Nat /\ DOMAIN probes = 1..n /\ \A i \in 1..n : probes[i] \in Ages
    BY <2>1
  <2>3. probes' \in Seq(Ages) /\ Len(probes') = n + 1 /\ DOMAIN probes' = 1..(n + 1)
        /\ (\A i \in 1..n : probes'[i] = probes[i]) /\ probes'[n + 1] = 0
    BY <2>1, AppendElements
  <2>. QED
    BY <2>2, <2>3 DEF Ages
<1>2. ProbesTyped'
  BY <1>1, FlowAssumption DEF Probe, Rest, ProbesInv, ProbesTyped
<1>3. OldestFirst(probes)'
  <2>. SUFFICES ASSUME NEW i \in DOMAIN probes', NEW j \in DOMAIN probes', i < j
                PROVE  probes'[i] >= probes'[j]
    BY DEF OldestFirst
  <2>1. CASE j = n + 1
    BY <1>1, <2>1, FlowAssumption
  <2>2. CASE j \in 1..n
    BY <1>1, <2>2 DEF ProbesInv, OldestFirst
  <2>. QED
    BY <1>1, <2>1, <2>2
<1>4. Paid'
  <2>. SUFFICES ASSUME NEW i \in DOMAIN probes'
                PROVE  IF canary' = "get"
                       THEN Debt(n + 1 - i) <= probes'[i] + Debt(restarts)
                       ELSE Debt(n + 1 - i + 1) <= probes'[i] + timer' + Debt(restarts)
    BY <1>1 DEF Paid, Younger, Probe
  <2>0. restarts \in Nat /\ Debt(restarts) \in Int /\ Debt(restarts) >= 0 /\ Debt(0) = 0
        /\ Interval \in Nat /\ (canary' = "get" \/ timer' = Interval)
    BY FlowAssumption DEF Probe, Rest, ProbesInv, ProbesTyped, Debt
  <2>1. Debt(n + 1 - i) <= probes'[i] + Debt(restarts)
    <3>1. CASE i = n + 1
      BY <1>1, <2>0, <3>1
    <3>2. CASE i \in 1..n
      <4>1. Debt(n - i + 1) <= probes[i] + 0 + Debt(restarts)
        BY <1>1, <3>2 DEF Probe, ProbesInv, ProbesTyped, Paid, Younger
      <4>2. n - i + 1 = n + 1 - i
        BY <1>1, <3>2
      <4>. QED
        BY <1>1, <2>0, <3>2, <4>1, <4>2
    <3>. QED
      BY <1>1, <3>1, <3>2
  <2>2. Debt(n + 1 - i + 1) = Debt(n + 1 - i) + Interval /\ Debt(n + 1 - i) \in Int
    <3>1. n + 1 - i \in Int
      BY <1>1
    <3>. HIDE DEF n
    <3>. QED
      BY <3>1, DebtGrows
  <2>3. probes'[i] \in Int
    BY <1>1, FlowAssumption
  <2>. QED
    BY <2>0, <2>1, <2>2, <2>3
<1>. QED
  BY <1>2, <1>3, <1>4 DEF ProbesInv

(* Whatever the canary was doing, a full sleep or a restart pays for one   *)
(* probe more.                                                             *)
LEMMA SleepPays ==
  ASSUME ProbesInv, NEW i \in DOMAIN probes
  PROVE  /\ Debt(Younger(i) + 1) <= probes[i] + Interval + Debt(restarts)
         /\ Debt(Younger(i)) \in Int /\ Debt(Younger(i) + 1) \in Int
         /\ probes[i] \in Int /\ Debt(restarts) \in Int
         /\ Debt(restarts + 1) = Debt(restarts) + Interval
<1>1. Younger(i) \in Int /\ restarts \in Int
  BY DEF ProbesInv, ProbesTyped, Younger
<1>2. Debt(Younger(i)) \in Int /\ Debt(Younger(i) + 1) = Debt(Younger(i)) + Interval
      /\ Debt(restarts) \in Int /\ Debt(restarts + 1) = Debt(restarts) + Interval
  BY <1>1, DebtGrows
<1>3. timer \in Int /\ timer <= Interval /\ Interval \in Nat /\ probes[i] \in Int
  BY FlowAssumption DEF ProbesInv, ProbesTyped
<1>. QED
  BY <1>2, <1>3 DEF ProbesInv, Paid

LEMMA RestKeeps ==
  ASSUME ProbesInv, Rest, UNCHANGED <<probes, restarts>>
  PROVE  ProbesInv'
<1>1. ProbesTyped' /\ OldestFirst(probes)'
  BY FlowAssumption DEF ProbesInv, ProbesTyped, OldestFirst, Rest
<1>2. Paid'
  <2>. SUFFICES ASSUME NEW i \in DOMAIN probes
                PROVE  Debt(Younger(i) + 1) <= probes[i] + Interval + Debt(restarts)
    BY DEF Paid, Younger, Rest
  <2>. QED
    BY SleepPays
<1>. QED
  BY <1>1, <1>2 DEF ProbesInv

LEMMA FoundKeeps ==
  ASSUME ProbesInv, ProbeFound
  PROVE  ProbesInv'
<1>. DEFINE n == Len(probes)
<1>1. /\ n \in Nat \ {0} /\ DOMAIN probes = 1..n /\ DOMAIN probes' = 1..(n - 1)
      /\ Len(probes') = n - 1 /\ probes' \in Seq(0..Expiry - 1)
      /\ \A i \in 1..(n - 1) : probes'[i] = probes[i]
  <2>. DEFINE Ages == 0..Expiry - 1
  <2>1. probes \in Seq(Ages) /\ probes # << >> /\ probes' = SubSeq(probes, 1, n - 1)
    BY DEF ProbeFound, Front, ProbesInv, ProbesTyped
  <2>. HIDE DEF Ages
  <2>2. n \in Nat \ {0} /\ DOMAIN probes = 1..n /\ \A i \in 1..(n - 1) : probes[i] \in Ages
    BY <2>1
  <2>3. probes' \in Seq(Ages) /\ Len(probes') = (IF 1 <= n - 1 THEN n - 1 - 1 + 1 ELSE 0)
        /\ \A i \in 1..(n - 1 - 1 + 1) : probes'[i] = probes[1 + i - 1]
    <3>. HIDE DEF n
    <3>. QED
      BY <2>1, <2>2, SubSeqProperties
  <2>4. Len(probes') = n - 1 /\ DOMAIN probes' = 1..(n - 1)
    <3>1. (IF 1 <= n - 1 THEN n - 1 - 1 + 1 ELSE 0) = n - 1
      BY <2>2
    <3>. QED
      BY <2>3, <3>1, LenProperties
  <2>5. \A i \in 1..(n - 1) : probes'[i] = probes[i]
    <3>. SUFFICES ASSUME NEW i \in 1..(n - 1) PROVE probes'[i] = probes[i]
      OBVIOUS
    <3>1. i \in 1..(n - 1 - 1 + 1) /\ 1 + i - 1 = i
      BY <2>2
    <3>. QED
      BY <2>3, <3>1
  <2>. QED
    BY <2>2, <2>3, <2>4, <2>5 DEF Ages
<1>2. ProbesTyped'
  BY <1>1, FlowAssumption DEF ProbeFound, Rest, ProbesInv, ProbesTyped
<1>3. OldestFirst(probes)'
  <2>1. \A i \in DOMAIN probes' : i \in DOMAIN probes /\ probes'[i] = probes[i]
    BY <1>1
  <2>. QED
    BY <2>1 DEF ProbesInv, OldestFirst
<1>4. Paid'
  <2>. SUFFICES ASSUME NEW i \in 1..(n - 1)
                PROVE  Debt(n - 1 - i + 1) <= probes[i] + Interval + Debt(restarts)
    BY <1>1 DEF Paid, Younger, ProbeFound, Rest
  <2>1. Debt(Younger(i)) <= probes[i] + Debt(restarts)
    BY <1>1 DEF ProbesInv, Paid, ProbeFound
  <2>2. Younger(i) = n - 1 - i + 1
    BY <1>1 DEF Younger
  <2>3. i \in DOMAIN probes /\ Interval \in Nat
    BY <1>1, FlowAssumption
  <2>4. Debt(Younger(i)) \in Int /\ probes[i] \in Int /\ Debt(restarts) \in Int
    BY <2>3, SleepPays
  <2>. QED
    BY <2>1, <2>2, <2>3, <2>4
<1>. QED
  BY <1>2, <1>3, <1>4 DEF ProbesInv

LEMMA TickKeeps ==
  ASSUME ProbesInv, Tick
  PROVE  ProbesInv'
<1>1. PICK n \in 0..Len(probes) :
        /\ probes' \in Seq(0..Expiry - 1)
        /\ Len(probes') = Len(probes) - n /\ DOMAIN probes' = 1..(Len(probes) - n)
        /\ \A i \in 1..(Len(probes) - n) : i + n \in DOMAIN probes /\ probes'[i] = probes[i + n] + 1
  BY AgedProbes DEF Tick, ProbesInv, ProbesTyped
<1>2. timer \in Nat \ {0} /\ timer' = timer - 1 /\ timer' \in 0..Interval
      /\ Len(probes) \in Nat /\ UNCHANGED <<canary, restarts>> /\ canary # "put"
  BY FlowAssumption DEF Tick, ProbesInv, ProbesTyped
<1>3. ProbesTyped'
  BY <1>1, <1>2 DEF ProbesInv, ProbesTyped
<1>4. OldestFirst(probes)'
  <2>. SUFFICES ASSUME NEW i \in DOMAIN probes', NEW j \in DOMAIN probes', i < j
                PROVE  probes'[i] >= probes'[j]
    BY DEF OldestFirst
  <2>1. i + n \in DOMAIN probes /\ j + n \in DOMAIN probes /\ i + n < j + n
        /\ probes'[i] = probes[i + n] + 1 /\ probes'[j] = probes[j + n] + 1
    BY <1>1, <1>2
  <2>2. probes[i + n] >= probes[j + n] /\ probes[i + n] \in Int /\ probes[j + n] \in Int
    BY <2>1, SleepPays DEF ProbesInv, OldestFirst
  <2>. QED
    BY <2>1, <2>2
<1>5. Paid'
  <2>. SUFFICES ASSUME NEW i \in DOMAIN probes'
                PROVE  IF canary = "get"
                       THEN Debt(Len(probes) - n - i) <= probes'[i] + Debt(restarts)
                       ELSE Debt(Len(probes) - n - i + 1) <= probes'[i] + timer' + Debt(restarts)
    BY <1>1, <1>2 DEF Paid, Younger
  <2>1. i + n \in DOMAIN probes /\ probes'[i] = probes[i + n] + 1
    BY <1>1
  <2>2. Younger(i + n) = Len(probes) - n - i
    BY <1>1, <1>2 DEF Younger
  <2>3. /\ Debt(Younger(i + n)) \in Int /\ Debt(Younger(i + n) + 1) \in Int
        /\ probes[i + n] \in Int /\ Debt(restarts) \in Int
    BY <2>1, SleepPays
  <2>4. IF canary = "get" THEN Debt(Younger(i + n)) <= probes[i + n] + Debt(restarts)
        ELSE Debt(Younger(i + n) + 1) <= probes[i + n] + timer + Debt(restarts)
    BY <2>1 DEF ProbesInv, Paid
  <2>. QED
    BY <1>2, <2>1, <2>2, <2>3, <2>4
<1>. QED
  BY <1>3, <1>4, <1>5 DEF ProbesInv

LEMMA ProbesStep ==
  ASSUME ProbesInv, [Next]_vars
  PROVE  ProbesInv'
<1>1. CASE Probe
  BY <1>1, ProbeKeeps
<1>2. CASE ProbeRefused
  BY <1>2, RestKeeps DEF ProbeRefused
<1>3. CASE ProbeFound
  BY <1>3, FoundKeeps
<1>4. CASE ProbeNotFound
  BY <1>4, RestKeeps DEF ProbeNotFound
<1>5. CASE Wake
  BY <1>5 DEF Wake, ProbesInv, ProbesTyped, OldestFirst, Paid, Younger
<1>6. CASE CanaryKilled
  <2>1. ProbesTyped' /\ OldestFirst(probes)'
    BY <1>6, FlowAssumption DEF CanaryKilled, ProbesInv, ProbesTyped, OldestFirst
  <2>2. Paid'
    <3>. SUFFICES ASSUME NEW i \in DOMAIN probes
                  PROVE  Debt(Younger(i) + 1) <= probes[i] + 0 + Debt(restarts + 1)
      BY <1>6 DEF CanaryKilled, Paid, Younger
    <3>. QED
      BY SleepPays, FlowAssumption
  <2>. QED
    BY <2>1, <2>2 DEF ProbesInv
<1>7. CASE Tick
  BY <1>7, TickKeeps
<1>8. CASE QmgrStops
  BY <1>8 DEF QmgrStops, ProbesInv, ProbesTyped, OldestFirst, Paid
<1>9. CASE Producer \/ Consumer \/ GetLost \/ DiscardLost \/ ConsumerKilled \/ QmgrStarts \/ UNCHANGED vars
  <2>1. UNCHANGED probing
    BY <1>9 DEF Producer, PutReturns, PutLost, PutRefused, Consumer, Get, Work, Discard, DiscardFails,
                GetLost, DiscardLost, ConsumerKilled, QmgrStarts, vars
  <2>. QED
    BY <2>1 DEF probing, ProbesInv, ProbesTyped, OldestFirst, Paid, Younger
<1>. QED
  BY <1>1, <1>2, <1>3, <1>4, <1>5, <1>6, <1>7, <1>8, <1>9 DEF Next, Canary

LEMMA ProbesInvIsEnough == ProbesInv => ProbesStayFew
<1>. SUFFICES ASSUME ProbesInv PROVE ProbesStayFew
  OBVIOUS
<1>. DEFINE n == Len(probes)
<1>1. n \in Nat /\ DOMAIN probes = 1..n /\ restarts \in Nat /\ Interval \in Nat \ {0}
      /\ Expiry \in Nat \ {0}
  BY FlowAssumption DEF ProbesInv, ProbesTyped
<1>2. Debt(restarts) = Interval * restarts /\ Debt(n) = n * Interval /\ Debt(restarts) >= 0
      /\ Debt(0) = 0 /\ Debt(restarts) \in Int
  BY <1>1 DEF Debt
<1>3. Debt(n) <= Expiry + Interval - 1 + Debt(restarts)
  <2>1. CASE n = 0
    BY <1>1, <1>2, <2>1
  <2>2. CASE n # 0
    <3>1. 1 \in DOMAIN probes /\ probes[1] \in 0..Expiry - 1
      BY <1>1, <2>2 DEF ProbesInv, ProbesTyped
    <3>2. Younger(1) + 1 = n
      BY <1>1 DEF Younger
    <3>3. Debt(n) <= probes[1] + Interval + Debt(restarts) /\ Debt(n) \in Int
      BY <3>1, <3>2, SleepPays
    <3>. QED
      BY <1>1, <1>2, <3>1, <3>3
  <2>. QED
    BY <2>1, <2>2
<1>. QED
  BY <1>2, <1>3 DEF ProbesStayFew

(* Probes do not pile up on APP.CANARY: their expiry and the interval      *)
(* bound them, whatever errors, stops and kills leave behind (mq.mjs).     *)
THEOREM ProbesBounded == Spec => []ProbesStayFew
<1>1. ProbesInv /\ [Next]_vars => ProbesInv'
  BY ProbesStep
<1>. QED
  BY <1>1, ProbesInit, ProbesInvIsEnough, PTL DEF Spec
=============================================================================

---------------------------- MODULE SiteInventory ----------------------------
(***************************************************************************)
(* From a registry to an accepted inventory: the adapter's toInventory()   *)
(* (tools/site/adapters/example.mjs), the product's inventory rules        *)
(* (checkInventory in tools/site/ibmmq.mjs) and what the generic core      *)
(* resolves and checks around them.  A row is a record [host, qmgr, env,   *)
(* shape, ip, exporter, client, native]; `wiring` gives an environment its *)
(* vantage, profile, monitoring host, receivers and secrets.               *)
(***************************************************************************)
EXTENDS Integers, Sequences, FiniteSets

CONSTANT None  \* an absent field

Or(value, default) == IF value = None THEN default ELSE value

\* The rows of one environment and name, and the first of some rows.
Group(rows, k) == {i \in DOMAIN rows : <<rows[i].env, rows[i].qmgr>> = k}
FirstOf(rows, group) == rows[CHOOSE i \in group : \A j \in group : i <= j]
Keys(rows) == {<<rows[i].env, rows[i].qmgr>> : i \in DOMAIN rows}

BugAdapterRefuses(rows, wiring) ==
  rows = << >> \/ \E i \in DOMAIN rows : rows[i].env \notin DOMAIN wiring
AdapterRefuses(rows, wiring) ==
  \/ rows = << >>
  \/ \E i, j \in DOMAIN rows : rows[i].host = rows[j].host /\ rows[i].env # rows[j].env
  \/ \E i \in DOMAIN rows : rows[i].env \notin DOMAIN wiring

\* One queue manager from its rows: the first row decides, all give hosts.
RowsToQmgr(rows, group) ==
  LET r == FirstOf(rows, group) IN
  [name |-> r.qmgr, env |-> r.env, shape |-> r.shape,
   hosts |-> {rows[i].host : i \in group},
   address |-> Or(r.ip, r.host), exporter_host |-> r.exporter,
   client_port |-> r.client, native_port |-> r.native]

\* resolveEnvironments(): a queue manager without an exporter host of its
\* own is scraped from the monitoring host of its environment.
Resolve(qm, wiring) ==
  [qm EXCEPT !.exporter_host = Or(@, wiring[qm.env].monitoring_host)]

ToInventory(rows, wiring) ==
  {Resolve(RowsToQmgr(rows, Group(rows, k)), wiring) : k \in Keys(rows)}

TooFewHosts(qm) == qm.shape = "rdqm-ha" /\ Cardinality(qm.hosts) < 3

NativePortMissing(qm, wiring) ==
  /\ wiring[qm.env].vantage = "dual" /\ wiring[qm.env].profile = "non-container"
  /\ qm.native_port = None

\* Unique per exporter host across environments; without an exporter host
\* the port is scoped to the environment.
BugClientKey(qm) == <<qm.env, qm.exporter_host, qm.client_port>>
ClientKey(qm) ==
  IF qm.exporter_host # None THEN <<qm.exporter_host, qm.client_port>>
  ELSE <<qm.env, None, qm.client_port>>
ClientPortTaken(a, b) == a.client_port # None /\ ClientKey(a) = ClientKey(b)

BugNativePortTaken(a, b) ==
  a.env = b.env /\ a.native_port # None /\ a.native_port = b.native_port /\ a.hosts = b.hosts
NativePortTaken(a, b) ==
  /\ a.env = b.env
  /\ a.native_port # None /\ a.native_port = b.native_port
  /\ a.hosts \cap b.hosts # {}

\* validateInventory(): an address is one instance's per environment.
AddressTaken(a, b) == a.env = b.env /\ a.address = b.address

CheckInventory(qmgrs, wiring) ==
  /\ \A qm \in qmgrs : ~TooFewHosts(qm) /\ ~NativePortMissing(qm, wiring)
  /\ \A a, b \in qmgrs : a # b =>
       ~ClientPortTaken(a, b) /\ ~NativePortTaken(a, b) /\ ~AddressTaken(a, b)

\* selectEnvironments(): --env names one, all, or is left out for only one.
Present(qmgrs) == {qm.env : qm \in qmgrs}
Selected(qmgrs, flag) ==
  IF flag = "all" THEN Present(qmgrs)
  ELSE IF flag = None THEN IF Cardinality(Present(qmgrs)) = 1 THEN Present(qmgrs) ELSE {}
  ELSE {flag} \cap Present(qmgrs)
=============================================================================

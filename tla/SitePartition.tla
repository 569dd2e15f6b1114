---------------------------- MODULE SitePartition ----------------------------
(***************************************************************************)
(* What tools/site/ renders for one environment other than the lab: the    *)
(* scrape targets of the file_sd files, the alert rules and the parts of   *)
(* the site pack that a single-vantage environment must lose, the          *)
(* Alertmanager routes of the environment and of the fleet, and the        *)
(* module's self-checks over all of it.  A receiver name is a sequence of  *)
(* the words between its hyphens, so prefixing a name with its environment *)
(* is concatenation.                                                       *)
(***************************************************************************)
EXTENDS SiteInventory, SequencesExt

CONSTANTS
  Refs,             \* channel references of the inventories
  ReceiverName(_),  \* receiverName(ref)
  EnvWords(_),      \* the name of an environment, which may have hyphens
  NeedsSecret       \* the pagerduty:// and # references

Severities == <<"SEV1", "SEV2", "SEV3">>
DefaultNativePort == 9157
-----------------------------------------------------------------------------
(* Scrape targets.                                                         *)

ExporterTarget(qm) == <<qm.exporter_host, qm.client_port>>
NativeTarget(qm) == <<qm.address, Or(qm.native_port, DefaultNativePort)>>
TargetLabels(qm, source) == [qmgr |-> qm.name, environment |-> qm.env, source |-> source]

Jobs(vantage) == IF vantage = "dual" THEN {"native", "exporter"} ELSE {"exporter"}
FileSd(qmgrs, e, vantage) ==
  {[target |-> IF job = "native" THEN NativeTarget(qm) ELSE ExporterTarget(qm),
    labels |-> TargetLabels(qm, job)] :
     qm \in {q \in qmgrs : q.env = e}, job \in Jobs(vantage)}
-----------------------------------------------------------------------------
(* Alert rules and the site pack.                                          *)

Rule(alert, sli, reads) == [alert |-> alert, sli |-> sli, reads |-> reads]

FsSli(vantage) == IF vantage = "single" THEN "qmgr_reachability" ELSE "qmgr_process_up"
Differential(vantage) ==
  IF vantage = "single"
  THEN {Rule("IBMMQQueueManagerUnreachable", "qmgr_reachability", {"exporter"}),
        Rule("IBMMQExporterDown", "qmgr_reachability", {"exporter"}),
        Rule("IBMMQTelemetryPipelineDown", "qmgr_reachability", {"exporter"}),
        Rule("IBMMQQueueManagerRestarted", "qmgr_reachability", {"exporter"})}
  ELSE {Rule("IBMMQQueueManagerDown", "qmgr_process_up", {"native"}),
        Rule("IBMMQQueueManagerUnreachable", "qmgr_reachability", {"exporter", "native"}),
        Rule("IBMMQExporterDown", "qmgr_reachability", {"exporter"}),
        Rule("IBMMQTelemetryPipelineDown", "qmgr_process_up", {"native"})}
Symptoms(vantage) ==
  {Rule("IBMMQQueueDepthHigh", "queue_depth_headroom", {"exporter"}),
   Rule("IBMMQQueueFull", "queue_depth_headroom", {"exporter"}),
   Rule("IBMMQOldestMessageAgeHigh", "oldest_message_age", {"exporter"}),
   Rule("IBMMQDeadLetterQueueNotEmpty", "dlq_depth", {"exporter"}),
   Rule("MQCanaryFailing", "canary_success", {}),
   Rule("MQCanaryLatencyHigh", "canary_roundtrip_p99", {}),
   Rule("IBMMQLogWriteLatencyHigh", "log_write_latency", {"exporter"}),
   Rule("IBMMQFileSystemLow", FsSli(vantage), {"exporter"})}
RulesOf(vantage) == Differential(vantage) \cup Symptoms(vantage)

\* The parts of packs/ibmmq.pack.yaml that name a queue-manager SLI or one
\* of its alerts, with the names they refer to.
Part(key, value, refers) == [key |-> key, value |-> value, refers |-> refers]
PackParts == {
  Part("id", "qmgr_process_up", {"native"}),
  Part("id", "qmgr_reachability", {"exporter"}),
  Part("id", "qmgr_process_up_99_9", {"qmgr_process_up"}),
  Part("id", "qmgr_reachability_99_9", {"qmgr_reachability"}),
  Part("name", "ibmmq:qmgr_process_up:ratio_5m", {"qmgr_process_up"}),
  Part("name", "ibmmq:qmgr_process_up:error_ratio_5m", {"ibmmq:qmgr_process_up:ratio_5m"}),
  Part("binds_to", "slis.qmgr_process_up", {"qmgr_process_up"}),
  Part("binds_to", "slos.qmgr_process_up_99_9", {"qmgr_process_up_99_9"}),
  Part("slo", "qmgr_process_up_99_9", {"qmgr_process_up_99_9"}),
  Part("slo", "qmgr_reachability_99_9", {"qmgr_reachability_99_9"}),
  Part("trigger", "alert:ibmmq-queue-manager-down", {"IBMMQQueueManagerDown"}),
  Part("trigger", "alert:ibmmq-queue-manager-unreachable", {"IBMMQQueueManagerUnreachable"}),
  Part("job_name", "native", {}),
  Part("job_name", "exporter", {}),
  Part("id", "qmgr-down", {"qmgr_process_up_99_9", "IBMMQQueueManagerDown", "MQCanaryFailing"}),
  Part("id", "listener-stopped",
       {"qmgr_reachability_99_9", "IBMMQQueueManagerUnreachable", "MQCanaryFailing"}) }

\* Fault for a mutant: the SLI and its scrape job go, their users stay.
BugPackRemovals(vantage) ==
  IF vantage = "single" THEN {<<"id", "qmgr_process_up">>, <<"job_name", "native">>} ELSE {}
PackRemovals(vantage) ==
  IF vantage = "single"
  THEN {<<"id", "qmgr_process_up">>, <<"id", "qmgr_process_up_99_9">>,
        <<"name", "ibmmq:qmgr_process_up:ratio_5m">>,
        <<"name", "ibmmq:qmgr_process_up:error_ratio_5m">>,
        <<"binds_to", "slis.qmgr_process_up">>, <<"binds_to", "slos.qmgr_process_up_99_9">>,
        <<"slo", "qmgr_process_up_99_9">>, <<"trigger", "alert:ibmmq-queue-manager-down">>,
        <<"job_name", "native">>, <<"id", "qmgr-down">>}
  ELSE {}

SitePack(vantage) == {p \in PackParts : <<p.key, p.value>> \notin PackRemovals(vantage)}
Named(vantage) ==
  {p.value : p \in SitePack(vantage)} \cup {r.alert : r \in RulesOf(vantage)}
-----------------------------------------------------------------------------
(* Alertmanager.                                                           *)

ReceiversOf(receivers) ==
  [n \in 1..3 |-> [sev |-> Severities[n], ref |-> receivers[Severities[n]],
                   name |-> ReceiverName(receivers[Severities[n]])]]
Root(receivers) == ReceiverName(receivers["SEV3"])

\* A SEV1 route always; one for SEV2 when its receiver is not the root's.
Routes(receivers) ==
  {"SEV1"} \cup IF ReceiverName(receivers["SEV2"]) # Root(receivers) THEN {"SEV2"} ELSE {}

\* The receivers block: one block a name, the first reference of that name.
\* Fault for a mutant: the last one, as a map built over them would keep.
BugBlocks(receivers, prefix) ==
  LET rs == ReceiversOf(receivers) IN
  [name \in {prefix \o rs[n].name : n \in 1..3} |->
     rs[CHOOSE n \in 1..3 : /\ prefix \o rs[n].name = name
                            /\ \A k \in (n + 1)..3 : rs[k].name # rs[n].name].ref]
Blocks(receivers, prefix) ==
  LET rs == ReceiversOf(receivers) IN
  [name \in {prefix \o rs[n].name : n \in 1..3} |->
     rs[CHOOSE n \in 1..3 : /\ prefix \o rs[n].name = name
                            /\ \A k \in 1..(n - 1) : rs[k].name # rs[n].name].ref]

\* Where Alertmanager sends an alert: the first matching route, else the root.
Reaches(receivers, sev, prefix) ==
  prefix \o IF sev \in Routes(receivers) THEN ReceiverName(receivers[sev]) ELSE Root(receivers)

\* The fleet file: a subtree for each environment under its own matcher,
\* names prefixed by it.  A name more than one environment gives keeps all
\* of its references here: Alertmanager refuses such a file.
Prefix(e) == EnvWords(e)
FleetBlocks(wiring, envs) ==
  LET blocks(e) == Blocks(wiring[e].receivers, Prefix(e)) IN
  [name \in UNION {DOMAIN blocks(e) : e \in envs} |->
     {blocks(e)[name] : e \in {x \in envs : name \in DOMAIN blocks(x)}}]

\* A block is rendered for the first reference of a name only, so a reference
\* behind another of its name needs no secret.
SecretMissing(w) ==
  LET blocks == Blocks(w.receivers, << >>) IN
  \E name \in DOMAIN blocks : blocks[name] \in NeedsSecret \ w.secrets
-----------------------------------------------------------------------------
(* checks(): the self-checks over the emitted files.                       *)

SelfChecks(qmgrs, e, vantage) ==
  LET mine == {q \in qmgrs : q.env = e}
      entries(job) == {x \in FileSd(qmgrs, e, vantage) : x.labels.source = job} IN
  /\ \A job \in Jobs(vantage) :
       /\ Cardinality(entries(job)) = Cardinality(mine)
       /\ \A x \in entries(job) : x.labels.environment = e /\ \E q \in mine : q.name = x.labels.qmgr
  /\ "native" \in {p.value : p \in SitePack(vantage)} <=> vantage = "dual"
  /\ \A a, b \in mine : a # b =>
       /\ a.client_port # None => ExporterTarget(a) # ExporterTarget(b)
       /\ a.native_port # None /\ a.native_port = b.native_port => a.hosts \cap b.hosts = {}
  /\ \A r \in RulesOf(vantage) :
       /\ (\E p \in PackParts : p.value = r.sli) => \E p \in SitePack(vantage) : p.value = r.sli
       /\ vantage = "single" => r.alert # "IBMMQQueueManagerDown" /\ "native" \notin r.reads
=============================================================================

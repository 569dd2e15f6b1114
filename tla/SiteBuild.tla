------------------------------ MODULE SiteBuild ------------------------------
(***************************************************************************)
(* tools/gen-site.mjs --registry --adapter: one invocation reads the       *)
(* registry, renders every selected environment in memory, and only then   *)
(* writes the partitions file by file.  Anything may stop a writing        *)
(* process: an exception of the file system, or a kill.  Invocations       *)
(* follow one another on the same output directory, each with whatever the *)
(* registry and the wiring say by then.                                    *)
(***************************************************************************)
EXTENDS SitePartition

CONSTANTS
  Envs,     \* environments of the reference pack the adapter has wiring for
  Inputs,   \* <<rows, wiring>> an invocation may find
  MaxRuns   \* bound on the invocations

ASSUME BuildAssumption == MaxRuns \in Nat \ {0} /\ None \notin Envs /\ "all" \notin Envs

\* What the schema lets through (ibmmq.mjs: a client_port per queue manager,
\* a monitoring_host per environment) and the adapter makes of absent fields.
Rows == [host : STRING, qmgr : STRING, env : STRING, shape : STRING,
         ip : {None} \cup STRING, exporter : {None} \cup STRING,
         client : Nat \ {None}, native : {None} \cup Nat]
Wirings == [vantage : {"dual", "single"}, profile : {"container", "non-container"},
            monitoring_host : STRING \ {None},
            receivers : [ToSet(Severities) -> Refs], secrets : SUBSET Refs]
ASSUME InputAssumption ==
  /\ \A i \in Inputs :
       /\ i[1] \in Seq(Rows)
       /\ DOMAIN i[2] \subseteq Envs /\ \A e \in DOMAIN i[2] : i[2][e] \in Wirings
  /\ \A ref \in Refs : ReceiverName(ref) \in Seq(STRING)
  /\ \A e \in Envs : EnvWords(e) \in Seq(STRING)

VARIABLES
  phase,   \* "idle", "loaded", "rendered", "writing"
  rows, wiring,        \* what this invocation read
  flag, dry,           \* --env, and --check or --dry-run
  left,    \* environments whose partition is not written to its end
  written, \* files of the current one that are written
  fleet,   \* the fleet file is still to write
  runs,    \* invocations so far
  exit,    \* exit code of the last one that ended by itself
  disk,    \* per path the invocation that wrote it last, 0 for none
  listed,  \* per environment the files its site.json lists
  before   \* history: disk when the invocation started

input == <<rows, wiring, flag, dry>>
tree == <<disk, listed>>
progress == <<left, written, fleet>>
vars == <<phase, input, progress, runs, exit, tree, before>>

Files == {"pack", "native", "qmgrs", "site.json"}
Fleet == <<"fleet", "alertmanager">>
Paths == (Envs \X Files) \cup {Fleet}

Qmgrs == ToInventory(rows, wiring)
Selection == Selected(Qmgrs, flag)
Vantage(e) == wiring[e].vantage

TypeOK ==
  /\ phase \in {"idle", "loaded", "rendered", "writing"}
  /\ flag \in Envs \cup {None, "all"} /\ dry \in BOOLEAN
  /\ left \subseteq Envs /\ written \in 0..3 /\ fleet \in BOOLEAN
  /\ runs \in 0..MaxRuns /\ exit \in 0..2
  /\ disk \in [Paths -> 0..MaxRuns]
  /\ before \in [Paths -> 0..MaxRuns]
  /\ listed \in [Envs -> SUBSET Files]

NoInput == rows = << >> /\ wiring = << >> /\ flag = None /\ dry = TRUE

Init ==
  /\ phase = "idle" /\ NoInput
  /\ left = {} /\ written = 0 /\ fleet = FALSE
  /\ runs = 0 /\ exit = 0
  /\ disk = [p \in Paths |-> 0] /\ listed = [e \in Envs |-> {}]
  /\ before = disk

Invoke ==
  /\ phase = "idle" /\ runs < MaxRuns
  /\ \E i \in Inputs : rows' = i[1] /\ wiring' = i[2]
  /\ flag' \in Envs \cup {None, "all"} /\ dry' \in BOOLEAN
  /\ phase' = "loaded" /\ runs' = runs + 1 /\ before' = disk
  /\ UNCHANGED <<progress, exit, tree>>

Leave(code) ==
  /\ phase' = "idle" /\ exit' = code
  /\ left' = {} /\ written' = 0 /\ fleet' = FALSE
  /\ rows' = << >> /\ wiring' = << >> /\ flag' = None /\ dry' = TRUE
  /\ UNCHANGED <<runs, tree, before>>

\* run() collects the errors of the inventory and of every partition.
InventoryRefused ==
  AdapterRefuses(rows, wiring) \/ ~CheckInventory(Qmgrs, wiring)
BugPartitionRefused(e) == FALSE
PartitionRefused(e) ==
  SecretMissing(wiring[e]) \/ ~SelfChecks(Qmgrs, e, Vantage(e))
RunRefused == \E e \in Selection : PartitionRefused(e)

Refuse ==
  /\ phase = "loaded"
  /\ \/ InventoryRefused /\ Leave(1)
     \/ ~InventoryRefused /\ Selection = {} /\ Leave(2)
     \/ ~InventoryRefused /\ Selection # {} /\ RunRefused /\ Leave(1)

\* The files of a partition in the order they are emitted, site.json last.
BugEmitted(e) == <<<<e, "site.json">>, <<e, "pack">>, <<e, "qmgrs">>>>
Emitted(e) ==
  IF Vantage(e) = "dual"
  THEN <<<<e, "pack">>, <<e, "native">>, <<e, "qmgrs">>, <<e, "site.json">>>>
  ELSE <<<<e, "pack">>, <<e, "qmgrs">>, <<e, "site.json">>>>

Names(e) == {p[2] : p \in ToSet(Emitted(e))}

HasFleet == flag = "all" /\ Cardinality(Selection) > 1

Render ==
  /\ phase = "loaded"
  /\ ~InventoryRefused /\ Selection # {} /\ ~RunRefused
  /\ phase' = "rendered"
  /\ left' = Selection /\ written' = 0 /\ fleet' = HasFleet
  /\ UNCHANGED <<input, runs, exit, tree, before>>

CheckEnds ==
  /\ phase = "rendered" /\ dry
  /\ Leave(0)

StartWriting ==
  /\ phase = "rendered" /\ ~dry
  /\ phase' = "writing"
  /\ UNCHANGED <<input, progress, runs, exit, tree, before>>

\* Environments in the order the rows first name them, then the fleet file.
Current == FirstOf(rows, {i \in DOMAIN rows : rows[i].env \in left}).env
Advance ==
  IF written + 1 = Len(Emitted(Current)) THEN left' = left \ {Current} /\ written' = 0
  ELSE written' = written + 1 /\ UNCHANGED left

\* Fault for a mutant: a file that is there already is kept.
BugWriteFile ==
  /\ phase = "writing" /\ left # {}
  /\ LET file == Emitted(Current)[written + 1] IN
     disk' = IF disk[file] = 0 THEN [disk EXCEPT ![file] = runs] ELSE disk
  /\ Advance
  /\ UNCHANGED <<listed, phase, input, fleet, runs, exit, before>>
WriteFile ==
  /\ phase = "writing" /\ left # {}
  /\ LET file == Emitted(Current)[written + 1] IN
     /\ disk' = [disk EXCEPT ![file] = runs]
     /\ listed' = IF file[2] = "site.json" THEN [listed EXCEPT ![Current] = Names(Current)]
                  ELSE listed
  /\ Advance
  /\ UNCHANGED <<phase, input, fleet, runs, exit, before>>

WriteFleet ==
  /\ phase = "writing" /\ left = {} /\ fleet
  /\ disk' = [disk EXCEPT ![Fleet] = runs]
  /\ fleet' = FALSE
  /\ UNCHANGED <<listed, phase, input, left, written, runs, exit, before>>

WriteThrows ==
  /\ phase = "writing" /\ (left # {} \/ fleet)
  /\ Leave(1)

Finish ==
  /\ phase = "writing" /\ left = {} /\ ~fleet
  /\ Leave(0)

Kill ==
  /\ phase # "idle"
  /\ Leave(exit)

Next ==
  \/ Invoke \/ Refuse \/ Render \/ CheckEnds
  \/ StartWriting \/ WriteFile \/ WriteFleet \/ WriteThrows \/ Finish \/ Kill

Spec == Init /\ [][Next]_vars
-----------------------------------------------------------------------------
Rendered == phase \in {"rendered", "writing"}

\* Of an accepted registry every queue manager of a selected environment is
\* scraped once a job, under its own environment.  Its client exporter is
\* scraped at an endpoint no other queue manager of any environment shares,
\* its native one at an endpoint no other of its environment shares; one of
\* another environment can only share it when an address that is not a host
\* of its queue manager (a floating one) was given.  Where exporters share a
\* host, their ports differ, and no host belongs to two environments.
Floating(qm) == qm.address \notin qm.hosts
EndpointsAreSeparate ==
  Rendered =>
    /\ \A a, b \in Qmgrs : a # b =>
         /\ ExporterTarget(a) # ExporterTarget(b)
         /\ NativeTarget(a) = NativeTarget(b) => a.env # b.env /\ (Floating(a) \/ Floating(b))
         /\ a.hosts \cap b.hosts # {} =>
              /\ a.env = b.env
              /\ Vantage(a.env) = "dual" /\ wiring[a.env].profile = "non-container"
                   => a.native_port # b.native_port
    /\ \A k \in Keys(rows) : k[1] \in Selection =>
         \A job \in Jobs(Vantage(k[1])) :
           Cardinality({x \in FileSd(Qmgrs, k[1], Vantage(k[1])) :
                          x.labels = [qmgr |-> k[2], environment |-> k[1], source |-> job]}) = 1

\* Every alert of a rendered environment reaches the channel its inventory
\* names for the severity, or that of a more severe one whose reference
\* derives the same receiver name; never a less severe one's, so SEV1 always
\* reaches its own.  In the fleet's Alertmanager the same holds unless some
\* other environment's name goes on from its own after a hyphen, or the
\* reverse (prod and prod-eu: eu-mq-oncall of the one is mq-oncall of the
\* other).
AsSevere(s, t) == \E k, n \in 1..3 : k <= n /\ Severities[k] = t /\ Severities[n] = s
NamedLike(r, s) ==
  {t \in ToSet(Severities) : AsSevere(s, t) /\ ReceiverName(r[t]) = ReceiverName(r[s])}
NamesApart(e) ==
  \A g \in Selection \ {e} :
    ~IsPrefix(EnvWords(e), EnvWords(g)) /\ ~IsPrefix(EnvWords(g), EnvWords(e))
AlertReachesItsChannel ==
  Rendered => \A e \in Selection, s \in ToSet(Severities) :
    LET r == wiring[e].receivers IN
    \E t \in NamedLike(r, s) :
      /\ Blocks(r, << >>)[Reaches(r, s, << >>)] = r[t]
      /\ HasFleet /\ NamesApart(e) =>
           FleetBlocks(wiring, Selection)[Reaches(r, s, Prefix(e))] = {r[t]}

\* No rule of a rendered environment reads a job it does not scrape, and no
\* part left in its site pack refers to one that is gone.
NothingDangles ==
  Rendered => \A e \in Selection :
    /\ \A r \in RulesOf(Vantage(e)) : r.reads \subseteq Jobs(Vantage(e))
    /\ \A p \in SitePack(Vantage(e)) : p.refers \subseteq Named(Vantage(e))
    /\ \A r \in RulesOf(Vantage(e)) :
         (\E p \in PackParts : p.value = r.sli) => r.sli \in Named(Vantage(e))

\* The self-checks never refuse what the inventory rules accepted: the two
\* implementations of the port rules agree.
ChecksAgree ==
  phase = "loaded" /\ ~InventoryRefused =>
    \A e \in Selection : SelfChecks(Qmgrs, e, Vantage(e))

\* gen-site.mjs:37: a refusal (any error, in any of the environments) comes
\* before the first write, so a partition is never rendered beside one that
\* was refused, and a check writes nothing.
RefusalWritesNothing ==
  [][disk' # disk => ~dry /\ ~InventoryRefused /\ \A e \in Selection : ~SecretMissing(wiring[e])]_vars

\* A site.json seals its partition: through exceptions, kills and later
\* invocations, the files it lists are at least as new as it is.
SiteJsonSeals ==
  \A e \in Envs : \A f \in listed[e] : disk[<<e, f>>] >= disk[<<e, "site.json">>]

\* An invocation that ends a write run with 0 renewed every file of every
\* selected environment and, of several, the fleet's; it touched no other.
SuccessIsComplete ==
  [][Finish =>
       /\ \A e \in Selection :
            listed[e] = Names(e) /\ \A p \in ToSet(Emitted(e)) : disk[p] = runs
       /\ disk[Fleet] = IF HasFleet THEN runs ELSE before[Fleet]
       /\ \A e \in Envs \ Selection, f \in Files : disk[<<e, f>>] = before[<<e, f>>]]_vars
=============================================================================

------------------------------- MODULE SiteProofs -------------------------------
(***************************************************************************)
(* What holds of the site generator for any registries and wirings the     *)
(* schema lets through and any number of invocations.                      *)
(*                                                                         *)
(* The files: at every moment of a writing invocation the environments     *)
(* that are done and the first files of the current one are of this        *)
(* invocation (Written), and no file is newer than it (NoneNewer); so a    *)
(* site.json, which comes last, seals what it lists.                       *)
(***************************************************************************)
EXTENDS SiteBuild, SequenceTheorems, FunctionTheorems, FiniteSetTheorems,
        WellFoundedInduction, TLAPS

Read == phase # "idle" => \E i \in Inputs : rows = i[1] /\ wiring = i[2]

(* Between the rendering and the last write the input is one that was      *)
(* accepted, and only an invocation that is to write does.                 *)
Accepted ==
  /\ Rendered => ~InventoryRefused /\ ~RunRefused
  /\ phase = "writing" => ~dry

NoneNewer == \A p \in Paths : disk[p] <= runs

Complete(e) == listed[e] = Names(e) /\ \A p \in ToSet(Emitted(e)) : disk[p] = runs
Written ==
  Rendered =>
    /\ left \subseteq Selection
    /\ left # {} =>
         /\ written < Len(Emitted(Current))
         /\ \A n \in 1..written : disk[Emitted(Current)[n]] = runs
    /\ \A e \in Selection \ left : Complete(e)
    /\ fleet => HasFleet
    /\ HasFleet /\ ~fleet => disk[Fleet] = runs

Untouched ==
  /\ phase \in {"loaded", "rendered"} => disk = before
  /\ phase = "writing" =>
       /\ ~HasFleet => disk[Fleet] = before[Fleet]
       /\ \A e \in Envs \ Selection, f \in Files : disk[<<e, f>>] = before[<<e, f>>]

Inductive ==
  TypeOK /\ Read /\ Accepted /\ NoneNewer /\ Written /\ Untouched /\ SiteJsonSeals
-----------------------------------------------------------------------------
(* The first of some rows.                                                 *)
LEMMA FirstOfIsFirst ==
  ASSUME NEW rs, DOMAIN rs \subseteq Nat, NEW group \in SUBSET DOMAIN rs, group # {}
  PROVE  \E i \in group : FirstOf(rs, group) = rs[i] /\ \A j \in group : i <= j
<1>1. PICK i \in group : \A j \in group : <<j, i>> \notin OpToRel(<, Nat)
  <2>1. group \subseteq Nat
    OBVIOUS
  <2>. QED
    BY <2>1, WFMin, NatLessThanWellFounded
<1>2. \A j \in group : i <= j
  <2>1. \A j \in group : j \in Nat /\ ~(j < i)
    BY <1>1 DEF OpToRel
  <2>. QED
    BY <2>1
<1>3. \A k \in group : (\A j \in group : k <= j) => k = i
  BY <1>2
<1>4. (CHOOSE k \in group : \A j \in group : k <= j) = i
  BY <1>2, <1>3
<1>. QED
  BY <1>2, <1>4 DEF FirstOf

(* The rows of a registry.                                                 *)
LEMMA RowsTyped ==
  ASSUME Read, phase # "idle"
  PROVE  /\ rows \in Seq(Rows) /\ DOMAIN rows = 1..Len(rows) /\ Len(rows) \in Nat
         /\ \A i \in DOMAIN rows : rows[i] \in Rows
         /\ DOMAIN wiring \subseteq Envs /\ \A e \in DOMAIN wiring : wiring[e] \in Wirings
<1>1. rows \in Seq(Rows)
      /\ DOMAIN wiring \subseteq Envs /\ \A e \in DOMAIN wiring : wiring[e] \in Wirings
  BY InputAssumption DEF Read
<1>. QED
  BY <1>1

(* A queue manager and the rows it comes from: the first one decides, all  *)
(* of them name it and its environment.                                    *)
LEMMA ResolveFields ==
  ASSUME NEW n, NEW e, NEW s, NEW h, NEW a, NEW x, NEW c, NEW v, NEW w
  PROVE  Resolve([name |-> n, env |-> e, shape |-> s, hosts |-> h, address |-> a,
                  exporter_host |-> x, client_port |-> c, native_port |-> v], w)
         = [name |-> n, env |-> e, shape |-> s, hosts |-> h, address |-> a,
            exporter_host |-> Or(x, w[e].monitoring_host), client_port |-> c, native_port |-> v]
BY DEF Resolve

QmgrOf(k) == Resolve(RowsToQmgr(rows, Group(rows, k)), wiring)
LEMMA QmgrFields ==
  ASSUME Read, phase # "idle", NEW k \in Keys(rows)
  PROVE  \E i \in Group(rows, k) :
           /\ rows[i] \in Rows
           /\ QmgrOf(k) =
                [name |-> k[2], env |-> k[1], shape |-> rows[i].shape,
                 hosts |-> {rows[j].host : j \in Group(rows, k)},
                 address |-> Or(rows[i].ip, rows[i].host),
                 exporter_host |-> Or(rows[i].exporter, wiring[k[1]].monitoring_host),
                 client_port |-> rows[i].client, native_port |-> rows[i].native]
<1>. DEFINE group == Group(rows, k)
<1>1. DOMAIN rows \subseteq Nat /\ group \in SUBSET DOMAIN rows /\ group # {}
  BY RowsTyped DEF Keys, Group
<1>2. PICK i \in group : FirstOf(rows, group) = rows[i]
  BY <1>1, FirstOfIsFirst
<1>3. rows[i] \in Rows /\ k = <<rows[i].env, rows[i].qmgr>>
  BY <1>1, RowsTyped DEF Group
<1>4. rows[i].env = k[1] /\ rows[i].qmgr = k[2]
  BY <1>3
<1>. DEFINE hosts == {rows[j].host : j \in group}
            x == Or(rows[i].exporter, wiring[k[1]].monitoring_host)
            address == Or(rows[i].ip, rows[i].host)
<1>5. RowsToQmgr(rows, group) =
        [name |-> k[2], env |-> k[1], shape |-> rows[i].shape,
         hosts |-> hosts, address |-> address, exporter_host |-> rows[i].exporter,
         client_port |-> rows[i].client, native_port |-> rows[i].native]
  BY <1>2, <1>4 DEF RowsToQmgr
<1>6. QmgrOf(k) =
        [name |-> k[2], env |-> k[1], shape |-> rows[i].shape, hosts |-> hosts,
         address |-> address, exporter_host |-> x,
         client_port |-> rows[i].client, native_port |-> rows[i].native]
  <2>1. QmgrOf(k) = Resolve(RowsToQmgr(rows, group), wiring)
    BY DEF QmgrOf
  <2>. HIDE DEF hosts, address, group
  <2>. QED
    BY <1>5, <2>1, ResolveFields
<1>. QED
  BY <1>3, <1>6

LEMMA QmgrsAre == Qmgrs = {QmgrOf(k) : k \in Keys(rows)}
BY DEF Qmgrs, ToInventory, QmgrOf

(* A selected environment is one the rows name.                            *)
LEMMA SelectedIsNamed ==
  ASSUME Read, phase # "idle", NEW e \in Selection
  PROVE  \E i \in DOMAIN rows : rows[i].env = e
<1>1. e \in Present(Qmgrs)
  BY DEF Selection, Selected
<1>2. PICK k \in Keys(rows) : QmgrOf(k).env = e
  BY <1>1, QmgrsAre DEF Present
<1>3. k[1] = e
  BY <1>2, QmgrFields
<1>4. PICK i \in DOMAIN rows : k = <<rows[i].env, rows[i].qmgr>>
  BY DEF Keys
<1>. QED
  BY <1>3, <1>4

LEMMA SelectedIsWired ==
  ASSUME Read, phase # "idle", ~InventoryRefused, NEW e \in Selection
  PROVE  e \in DOMAIN wiring /\ e \in Envs /\ wiring[e] \in Wirings
<1>1. PICK i \in DOMAIN rows : rows[i].env = e
  BY SelectedIsNamed
<1>2. e \in DOMAIN wiring
  BY <1>1 DEF InventoryRefused, AdapterRefuses
<1>. QED
  BY <1>2, RowsTyped

LEMMA CurrentIsLeft ==
  ASSUME Read, phase # "idle", left \subseteq Selection, left # {}
  PROVE  Current \in left
<1>. DEFINE group == {i \in DOMAIN rows : rows[i].env \in left}
<1>1. group \in SUBSET DOMAIN rows /\ group # {}
  BY SelectedIsNamed
<1>2. DOMAIN rows \subseteq Nat
  BY RowsTyped
<1>3. PICK i \in group : FirstOf(rows, group) = rows[i]
  BY <1>1, <1>2, FirstOfIsFirst
<1>. QED
  BY <1>3 DEF Current
-----------------------------------------------------------------------------
(* The files of a partition: its site.json is the last one.                *)
LEMMA EmittedFiles ==
  ASSUME NEW e
  PROVE  /\ Len(Emitted(e)) \in {3, 4} /\ DOMAIN Emitted(e) = 1..Len(Emitted(e))
         /\ \A n \in 1..Len(Emitted(e)) :
              /\ \E f \in Files : Emitted(e)[n] = <<e, f>>
              /\ Emitted(e)[n][2] = "site.json" <=> n = Len(Emitted(e))
<1>1. CASE Vantage(e) = "dual"
  <2>1. Emitted(e) = <<<<e, "pack">>, <<e, "native">>, <<e, "qmgrs">>, <<e, "site.json">>>>
    BY <1>1 DEF Emitted
  <2>2. Len(Emitted(e)) = 4 /\ DOMAIN Emitted(e) = 1..4
    BY <2>1
  <2>3. /\ Emitted(e)[1] = <<e, "pack">> /\ Emitted(e)[2] = <<e, "native">>
        /\ Emitted(e)[3] = <<e, "qmgrs">> /\ Emitted(e)[4] = <<e, "site.json">>
    BY <2>1
  <2>4. \A n \in 1..4 : /\ \E f \in Files : Emitted(e)[n] = <<e, f>>
                        /\ Emitted(e)[n][2] = "site.json" <=> n = 4
    BY <2>3 DEF Files
  <2>. QED
    BY <2>2, <2>4
<1>2. CASE Vantage(e) # "dual"
  <2>1. Emitted(e) = <<<<e, "pack">>, <<e, "qmgrs">>, <<e, "site.json">>>>
    BY <1>2 DEF Emitted
  <2>2. Len(Emitted(e)) = 3 /\ DOMAIN Emitted(e) = 1..3
    BY <2>1
  <2>3. /\ Emitted(e)[1] = <<e, "pack">>
        /\ Emitted(e)[2] = <<e, "qmgrs">> /\ Emitted(e)[3] = <<e, "site.json">>
    BY <2>1
  <2>4. \A n \in 1..3 : /\ \E f \in Files : Emitted(e)[n] = <<e, f>>
                        /\ Emitted(e)[n][2] = "site.json" <=> n = 3
    BY <2>3 DEF Files
  <2>. QED
    BY <2>2, <2>4
<1>. QED
  BY <1>1, <1>2

LEMMA EmittedPaths ==
  ASSUME NEW e \in Envs
  PROVE  \A n \in 1..Len(Emitted(e)) : Emitted(e)[n] \in Paths
<1>. SUFFICES ASSUME NEW n \in 1..Len(Emitted(e)) PROVE Emitted(e)[n] \in Paths
  OBVIOUS
<1>1. PICK f \in Files : Emitted(e)[n] = <<e, f>>
  BY EmittedFiles
<1>. QED
  BY <1>1 DEF Paths

LEMMA NamesAreFiles ==
  ASSUME NEW e
  PROVE  /\ Names(e) \subseteq Files
         /\ \A f \in Names(e) : <<e, f>> \in ToSet(Emitted(e))
         /\ \A p \in ToSet(Emitted(e)) : \E n \in 1..Len(Emitted(e)) : p = Emitted(e)[n]
<1>1. \A p \in ToSet(Emitted(e)) : \E n \in 1..Len(Emitted(e)) : p = Emitted(e)[n]
  BY EmittedFiles DEF ToSet
<1>2. \A n \in 1..Len(Emitted(e)) : \E f \in Files : Emitted(e)[n] = <<e, f>>
  BY EmittedFiles
<1>3. \A p \in ToSet(Emitted(e)) : \E f \in Files : p = <<e, f>>
  BY <1>1, <1>2
<1>. QED
  BY <1>1, <1>3 DEF Names
-----------------------------------------------------------------------------
(* What an invocation read stays as it was until it leaves.                *)
LEMMA InputDecides ==
  ASSUME UNCHANGED input
  PROVE  /\ InventoryRefused' = InventoryRefused /\ RunRefused' = RunRefused
         /\ Selection' = Selection /\ HasFleet' = HasFleet
         /\ \A e : Emitted(e)' = Emitted(e) /\ Names(e)' = Names(e)
BY DEF input, InventoryRefused, RunRefused, Qmgrs, Selection, PartitionRefused, Vantage, HasFleet,
       Emitted, Names

LEMMA InputStays ==
  ASSUME UNCHANGED input, left' = left
  PROVE  Current' = Current
BY DEF input, Current

LEMMA EmittedStays ==
  ASSUME UNCHANGED input, left' = left
  PROVE  Emitted(Current)' = Emitted(Current)
BY InputStays DEF input, Emitted, Vantage

LEMMA NotEmptyNext == 0 < Len(Emitted(Current))'
<1>. DEFINE c == Current'
<1>1. CASE Vantage(Current)' = "dual"
  <2>1. Emitted(Current)' = <<<<c, "pack">>, <<c, "native">>, <<c, "qmgrs">>, <<c, "site.json">>>>
    BY <1>1 DEF Emitted
  <2>. QED
    BY <2>1
<1>2. CASE Vantage(Current)' # "dual"
  <2>1. Emitted(Current)' = <<<<c, "pack">>, <<c, "qmgrs">>, <<c, "site.json">>>>
    BY <1>2 DEF Emitted
  <2>. QED
    BY <2>1
<1>. QED
  BY <1>1, <1>2

LEMMA InitInductive == Init => Inductive
<1>. SUFFICES ASSUME Init PROVE Inductive
  OBVIOUS
<1>1. disk \in [Paths -> 0..MaxRuns] /\ before \in [Paths -> 0..MaxRuns]
  BY BuildAssumption DEF Init
<1>2. listed \in [Envs -> SUBSET Files]
  BY DEF Init
<1>3. phase = "idle" /\ flag = None /\ dry = TRUE /\ runs = 0 /\ exit = 0 /\ MaxRuns \in Nat
      /\ left = {} /\ written = 0 /\ fleet = FALSE
  BY BuildAssumption DEF Init, NoInput
<1>4. NoneNewer /\ SiteJsonSeals
  BY DEF Init, NoneNewer, SiteJsonSeals
<1>5. TypeOK
  <2>1. phase \in {"idle", "loaded", "rendered", "writing"} /\ flag \in Envs \cup {None, "all"}
        /\ dry \in BOOLEAN
    BY <1>3
  <2>2. runs \in 0..MaxRuns /\ exit \in 0..2
    BY <1>3
  <2>3. left \subseteq Envs /\ fleet \in BOOLEAN
    BY <1>3
  <2>4. written \in 0..3
    BY <1>3
  <2>. QED
    BY <1>1, <1>2, <2>1, <2>2, <2>3, <2>4 DEF TypeOK
<1>6. Read /\ Accepted /\ Written /\ Untouched
  BY <1>3 DEF Read, Accepted, Rendered, Written, Untouched
<1>. QED
  BY <1>4, <1>5, <1>6 DEF Inductive

LEMMA LeaveInductive ==
  ASSUME Inductive, NEW code \in 0..2, Leave(code)
  PROVE  Inductive'
<1>1. TypeOK'
  <2>1. phase' \in {"idle", "loaded", "rendered", "writing"} /\ flag' \in Envs \cup {None, "all"}
        /\ dry' \in BOOLEAN
    BY DEF Leave
  <2>2. exit' \in 0..2 /\ UNCHANGED <<runs, disk, listed, before>>
    BY DEF Leave, tree
  <2>3. left' \subseteq Envs /\ fleet' \in BOOLEAN
    BY DEF Leave
  <2>4. written' \in 0..3
    BY DEF Leave
  <2>. QED
    BY <2>1, <2>2, <2>3, <2>4 DEF Inductive, TypeOK
<1>2. NoneNewer' /\ SiteJsonSeals'
  BY DEF Inductive, NoneNewer, SiteJsonSeals, Leave, tree
<1>. QED
  BY <1>1, <1>2 DEF Inductive, Read, Accepted, Rendered, Written, Untouched, Leave

LEMMA InvokeInductive ==
  ASSUME Inductive, Invoke
  PROVE  Inductive'
<1>1. runs' \in 0..MaxRuns /\ runs' = runs + 1 /\ runs \in 0..MaxRuns
  BY BuildAssumption DEF Inductive, TypeOK, Invoke
<1>2. TypeOK'
  <2>1. UNCHANGED <<left, written, fleet, exit, disk, listed>>
    BY DEF Invoke, tree, progress
  <2>2. phase' = "loaded" /\ before' = disk /\ flag' \in Envs \cup {None, "all"} /\ dry' \in BOOLEAN
    BY DEF Invoke
  <2>. QED
    BY <1>1, <2>1, <2>2 DEF Inductive, TypeOK
<1>3. NoneNewer'
  <2>. SUFFICES ASSUME NEW p \in Paths PROVE disk[p] <= runs'
    BY DEF NoneNewer, Invoke, tree
  <2>1. disk[p] \in 0..MaxRuns /\ disk[p] <= runs
    BY DEF Inductive, TypeOK, NoneNewer
  <2>. QED
    BY <1>1, <2>1, BuildAssumption
<1>4. SiteJsonSeals'
  BY DEF Inductive, SiteJsonSeals, Invoke, tree
<1>. QED
  BY <1>2, <1>3, <1>4 DEF Inductive, Read, Accepted, Rendered, Written, Untouched, Invoke, tree

LEMMA RenderInductive ==
  ASSUME Inductive, Render
  PROVE  Inductive'
<1>0. UNCHANGED input
  BY DEF Render
<1>1. left' \subseteq Envs
  <2>1. Read /\ phase # "idle" /\ ~InventoryRefused /\ left' = Selection
    BY DEF Inductive, Render
  <2>. QED
    BY <2>1, SelectedIsWired
<1>2. fleet' \in BOOLEAN
  BY DEF Render, HasFleet
<1>3. TypeOK'
  BY <1>1, <1>2 DEF Inductive, TypeOK, Render, input, tree
<1>4. Accepted' /\ Read'
  BY <1>0, InputDecides DEF Inductive, Accepted, Rendered, Render, Read, input
<1>5. NoneNewer' /\ SiteJsonSeals'
  BY DEF Inductive, NoneNewer, SiteJsonSeals, Render, tree
<1>6. Written'
  <2>1. left' = Selection' /\ written' = 0 /\ fleet' = HasFleet'
    BY <1>0, InputDecides DEF Render
  <2>2. 0 < Len(Emitted(Current))'
    BY NotEmptyNext
  <2>. QED
    BY <2>1, <2>2 DEF Written
<1>7. Untouched'
  BY DEF Inductive, Untouched, Render, tree
<1>. QED
  BY <1>3, <1>4, <1>5, <1>6, <1>7 DEF Inductive

(* One file more of the current environment.                               *)
LEMMA WriteInductive ==
  ASSUME Inductive, WriteFile
  PROVE  Inductive'
<1>. DEFINE e == Current
            files == Emitted(Current)
            file == files[written + 1]
<1>1. e \in left /\ e \in Selection /\ e \in Envs /\ Read /\ phase = "writing" /\ Rendered
  <2>1. Read /\ phase = "writing" /\ Rendered /\ left \subseteq Selection /\ left # {}
        /\ left \subseteq Envs
    BY DEF Inductive, TypeOK, WriteFile, Rendered, Written
  <2>. QED
    BY <2>1, CurrentIsLeft
<1>2. /\ Len(files) \in {3, 4} /\ DOMAIN files = 1..Len(files)
      /\ written + 1 \in 1..Len(files) /\ written \in Nat
      /\ file[2] = "site.json" <=> written + 1 = Len(files)
      /\ \E f \in Files : file = <<e, f>>
  <2>1. written \in 0..3 /\ written < Len(files)
    BY <1>1 DEF Inductive, TypeOK, Written
  <2>2. Len(files) \in {3, 4} /\ written + 1 \in 1..Len(files)
    BY <2>1, EmittedFiles
  <2>. QED
    BY <2>1, <2>2, EmittedFiles
<1>0. Len(files) \in Nat /\ Len(files) <= 4 /\ written + 1 <= Len(files) /\ written \in Nat
  <2>1. Len(files) \in Nat /\ Len(files) <= 4
    BY EmittedFiles
  <2>2. written \in 0..3 /\ written < Len(files)
    BY <1>1 DEF Inductive, TypeOK, Written
  <2>. QED
    BY <2>1, <2>2
<1>3. PICK f \in Files : file = <<e, f>>
  BY <1>2
<1>4. /\ disk' = [disk EXCEPT ![file] = runs]
      /\ listed' = IF file[2] = "site.json" THEN [listed EXCEPT ![e] = Names(e)] ELSE listed
      /\ UNCHANGED <<phase, fleet, runs, exit, before>> /\ UNCHANGED input
      /\ IF written + 1 = Len(files) THEN left' = left \ {e} /\ written' = 0
         ELSE written' = written + 1 /\ left' = left
  BY DEF WriteFile, Advance
<1>. HIDE DEF e, files, file
<1>5. file \in Paths /\ runs \in 0..MaxRuns /\ disk \in [Paths -> 0..MaxRuns]
      /\ listed \in [Envs -> SUBSET Files] /\ Names(e) \subseteq Files
  BY <1>1, <1>3, NamesAreFiles DEF Inductive, TypeOK, Paths
<1>6. TypeOK'
  <2>1. disk' \in [Paths -> 0..MaxRuns]
    BY <1>4, <1>5
  <2>2. listed' \in [Envs -> SUBSET Files]
    BY <1>4, <1>5
  <2>3. left' \subseteq Envs /\ written' \in 0..3
    <3>1. left \subseteq Envs
      BY DEF Inductive, TypeOK
    <3>2. written + 1 # Len(files) => written + 1 \in 0..3
      BY <1>0
    <3>. QED
      BY <1>4, <3>1, <3>2
  <2>. QED
    BY <1>4, <2>1, <2>2, <2>3 DEF Inductive, TypeOK, input
<1>7. Read' /\ Accepted'
  BY <1>4, InputDecides DEF Inductive, Read, Accepted, Rendered, input
<1>8. NoneNewer'
  <2>. SUFFICES ASSUME NEW p \in Paths PROVE disk'[p] <= runs
    BY <1>4 DEF NoneNewer
  <2>. QED
    BY <1>4, <1>5, BuildAssumption DEF Inductive, NoneNewer
<1>9. /\ \A p \in Paths : disk[p] = runs => disk'[p] = runs
      /\ \A p \in Paths : p # file => disk'[p] = disk[p]
      /\ disk'[file] = runs
      /\ \A p \in Paths : disk[p] <= disk'[p] /\ disk'[p] \in Nat /\ disk[p] <= runs
  <2>. SUFFICES ASSUME NEW p \in Paths
                PROVE  /\ disk'[p] = IF p = file THEN runs ELSE disk[p]
                       /\ disk[p] \in Nat /\ disk[p] <= runs /\ runs \in Nat
    BY <1>5
  <2>. QED
    BY <1>4, <1>5, BuildAssumption DEF Inductive, NoneNewer
<1>10. \A n \in 1..Len(files) : files[n] \in Paths
  BY <1>1, EmittedPaths DEF files, e
<1>11. written + 1 = Len(files) => \A p \in ToSet(Emitted(e)) : p \in Paths /\ disk'[p] = runs
  <2>. SUFFICES ASSUME written + 1 = Len(files), NEW p \in ToSet(Emitted(e))
                PROVE  p \in Paths /\ disk'[p] = runs
    OBVIOUS
  <2>1. PICK n \in 1..Len(files) : p = files[n]
    BY NamesAreFiles DEF files, e
  <2>2. n \in 1..written \/ p = file
    BY <1>0, <2>1 DEF file
  <2>3. n \in 1..written => disk[p] = runs
    BY <1>1, <2>1 DEF Inductive, Written, files
  <2>. QED
    BY <1>9, <1>10, <2>1, <2>2, <2>3
<1>12. SiteJsonSeals'
  <2>. SUFFICES ASSUME NEW g \in Envs, NEW h \in listed'[g]
                PROVE  disk'[<<g, h>>] >= disk'[<<g, "site.json">>]
    BY DEF SiteJsonSeals
  <2>0. h \in Files /\ <<g, h>> \in Paths /\ <<g, "site.json">> \in Paths
    BY <1>6 DEF TypeOK, Paths, Files
  <2>1. CASE file[2] = "site.json" /\ g = e
    <3>1. h \in Names(e) /\ written + 1 = Len(files) /\ file = <<e, "site.json">>
      BY <1>2, <1>3, <1>4, <1>5, <2>1
    <3>2. disk'[<<e, h>>] = runs
      BY <1>11, <3>1, NamesAreFiles
    <3>. QED
      BY <1>5, <1>9, <2>1, <3>1, <3>2, BuildAssumption
  <2>2. CASE ~(file[2] = "site.json" /\ g = e)
    <3>1. h \in listed[g]
      BY <1>1, <1>4, <1>5, <2>2
    <3>2. <<g, "site.json">> # file
      BY <1>3, <2>2
    <3>3. disk[<<g, h>>] >= disk[<<g, "site.json">>]
      BY <3>1 DEF Inductive, SiteJsonSeals
    <3>4. disk[<<g, h>>] \in Nat /\ disk[<<g, "site.json">>] \in Nat
      BY <1>5, <2>0
    <3>. QED
      BY <1>9, <2>0, <3>2, <3>3, <3>4
  <2>. QED
    BY <2>1, <2>2
<1>13. /\ Selection' = Selection /\ HasFleet' = HasFleet /\ Rendered' = Rendered
       /\ \A g : Emitted(g)' = Emitted(g) /\ Names(g)' = Names(g)
  BY <1>4, InputDecides DEF Rendered
<1>14. file # Fleet /\ Fleet \in Paths
  BY <1>3 DEF Fleet, Files, Paths
<1>15. Written'
  <2>1. left' \subseteq Selection'
    BY <1>1, <1>4, <1>13 DEF Inductive, Written
  <2>2. written' < Len(Emitted(Current))' /\ \A n \in 1..written' : disk'[Emitted(Current)'[n]] = runs
    <3>1. CASE written + 1 = Len(files)
      BY <1>4, <3>1, NotEmptyNext
    <3>2. CASE written + 1 # Len(files)
      <4>1. Emitted(Current)' = files /\ written' = written + 1
        BY <1>4, <3>2, EmittedStays DEF files
      <4>2. \A n \in 1..written : disk[files[n]] = runs
        BY <1>1 DEF Inductive, Written, files
      <4>3. ASSUME NEW n \in 1..(written + 1) PROVE disk'[files[n]] = runs
        <5>1. n \in 1..written \/ files[n] = file
          BY <1>0 DEF file
        <5>2. n \in 1..Len(files)
          BY <1>0
        <5>3. files[n] \in Paths
          BY <1>10, <5>2
        <5>. QED
          BY <1>9, <4>2, <5>1, <5>3
      <4>4. written + 1 < Len(files)
        BY <1>0, <3>2
      <4>. QED
        BY <4>1, <4>3, <4>4
    <3>. QED
      BY <3>1, <3>2
  <2>3. ASSUME NEW g \in Selection, g \notin left' PROVE Complete(g)'
    <3>1. CASE g = e
      <4>1. written + 1 = Len(files) /\ listed' = [listed EXCEPT ![e] = Names(e)]
        BY <1>1, <1>2, <1>4, <2>3, <3>1
      <4>2. listed'[e] = Names(e)
        BY <1>1, <1>5, <4>1
      <4>3. \A p \in ToSet(Emitted(e)) : disk'[p] = runs
        BY <1>11, <4>1
      <4>. QED
        BY <1>4, <1>13, <3>1, <4>2, <4>3 DEF Complete
    <3>2. CASE g # e
      <4>1. g \notin left
        BY <1>4, <2>3, <3>2
      <4>2. Complete(g)
        BY <1>1, <4>1 DEF Inductive, Written
      <4>3. g \in Envs
        BY <1>1, SelectedIsWired DEF Inductive, Accepted
      <4>4. \A p \in ToSet(Emitted(g)) : p \in Paths
        <5>. SUFFICES ASSUME NEW p \in ToSet(Emitted(g)) PROVE p \in Paths
          OBVIOUS
        <5>1. PICK n \in 1..Len(Emitted(g)) : p = Emitted(g)[n]
          BY NamesAreFiles
        <5>. QED
          BY <4>3, <5>1, EmittedPaths
      <4>5. listed'[g] = listed[g]
        BY <1>1, <1>4, <1>5, <3>2
      <4>. QED
        BY <1>4, <1>9, <1>13, <4>2, <4>4, <4>5 DEF Complete
    <3>. QED
      BY <3>1, <3>2
  <2>4. disk'[Fleet] = disk[Fleet]
    BY <1>9, <1>14
  <2>5. (fleet' => HasFleet') /\ (HasFleet' /\ ~fleet' => disk'[Fleet] = runs')
    BY <1>1, <1>4, <1>13, <2>4 DEF Inductive, Written
  <2>. QED
    BY <1>4, <1>13, <2>1, <2>2, <2>3, <2>5 DEF Written
<1>16. Untouched'
  <2>1. disk'[Fleet] = disk[Fleet]
    BY <1>9, <1>14
  <2>2. ASSUME NEW g \in Envs \ Selection, NEW h \in Files PROVE disk'[<<g, h>>] = disk[<<g, h>>]
    <3>1. <<g, h>> \in Paths /\ <<g, h>> # file
      BY <1>1, <1>3 DEF Paths
    <3>. QED
      BY <1>9, <3>1
  <2>. QED
    BY <1>1, <1>4, <1>13, <2>1, <2>2 DEF Inductive, Untouched
<1>. QED
  BY <1>6, <1>7, <1>8, <1>12, <1>15, <1>16 DEF Inductive

LEMMA FleetInductive ==
  ASSUME Inductive, WriteFleet
  PROVE  Inductive'
<1>1. /\ disk' = [disk EXCEPT ![Fleet] = runs] /\ fleet' = FALSE /\ left = {} /\ fleet
      /\ UNCHANGED <<listed, phase, left, written, runs, exit, before>> /\ UNCHANGED input
      /\ phase = "writing" /\ Rendered
  BY DEF WriteFleet, Rendered
<1>2. Fleet \in Paths /\ runs \in 0..MaxRuns /\ disk \in [Paths -> 0..MaxRuns]
  BY DEF Inductive, TypeOK, Paths
<1>3. disk' \in [Paths -> 0..MaxRuns]
  BY <1>1, <1>2
<1>4. /\ \A p \in Paths : p # Fleet => disk'[p] = disk[p]
      /\ disk'[Fleet] = runs
  BY <1>1, <1>2
<1>5. \A e \in Envs, f \in Files : <<e, f>> \in Paths /\ <<e, f>> # Fleet
  BY DEF Paths, Files, Fleet
<1>6. TypeOK'
  BY <1>1, <1>3 DEF Inductive, TypeOK, input
<1>7. Read' /\ Accepted'
  BY <1>1, InputDecides DEF Inductive, Read, Accepted, Rendered, input
<1>8. NoneNewer'
  <2>. SUFFICES ASSUME NEW p \in Paths PROVE disk'[p] <= runs
    BY <1>1 DEF NoneNewer
  <2>1. runs <= runs
    BY <1>2, BuildAssumption
  <2>. QED
    BY <1>4, <2>1 DEF Inductive, NoneNewer
<1>9. SiteJsonSeals'
  <2>. SUFFICES ASSUME NEW e \in Envs, NEW f \in listed[e]
                PROVE  disk'[<<e, f>>] >= disk'[<<e, "site.json">>]
    BY <1>1 DEF SiteJsonSeals
  <2>1. f \in Files /\ "site.json" \in Files
    BY DEF Inductive, TypeOK, Files
  <2>. QED
    BY <1>4, <1>5, <2>1 DEF Inductive, SiteJsonSeals
<1>10. /\ Selection' = Selection /\ HasFleet' = HasFleet
       /\ \A g : Emitted(g)' = Emitted(g) /\ Names(g)' = Names(g)
  BY <1>1, InputDecides
<1>11. Written'
  <2>1. ASSUME NEW g \in Selection PROVE Complete(g)'
    <3>1. Complete(g) /\ g \in Envs
      BY <1>1, SelectedIsWired DEF Inductive, Accepted, Written
    <3>2. ASSUME NEW p \in ToSet(Emitted(g)) PROVE disk'[p] = runs
      <4>1. PICK n \in 1..Len(Emitted(g)) : p = Emitted(g)[n]
        BY NamesAreFiles
      <4>2. PICK f \in Files : p = <<g, f>>
        BY <4>1, EmittedFiles
      <4>. QED
        BY <1>4, <1>5, <3>1, <4>2 DEF Complete
    <3>. QED
      BY <1>1, <1>10, <3>1, <3>2 DEF Complete
  <2>. QED
    BY <1>1, <1>4, <1>10, <2>1 DEF Written, Inductive
<1>12. Untouched'
  <2>1. HasFleet
    BY <1>1 DEF Inductive, Written
  <2>2. \A e \in Envs \ Selection, f \in Files : disk'[<<e, f>>] = disk[<<e, f>>]
    BY <1>4, <1>5
  <2>. QED
    BY <1>1, <1>10, <2>1, <2>2 DEF Inductive, Untouched
<1>. QED
  BY <1>6, <1>7, <1>8, <1>9, <1>11, <1>12 DEF Inductive

(* Steps that touch neither the files nor the input.                       *)
LEMMA QuietInductive ==
  ASSUME Inductive, StartWriting \/ UNCHANGED vars
  PROVE  Inductive'
<1>1. UNCHANGED <<left, written, fleet, runs, exit, disk, listed, before>> /\ UNCHANGED input
  BY DEF StartWriting, vars, progress, tree
<1>2. phase' \in {"idle", "loaded", "rendered", "writing"}
  BY DEF Inductive, TypeOK, StartWriting, vars
<1>3. TypeOK'
  BY <1>1, <1>2 DEF Inductive, TypeOK, input
<1>4. /\ phase' = phase \/ (phase = "rendered" /\ phase' = "writing" /\ ~dry)
      /\ Rendered' = Rendered
  BY DEF StartWriting, vars, Rendered
<1>5. Read' /\ Accepted'
  BY <1>1, <1>4, InputDecides DEF Inductive, Read, Accepted, input, Rendered
<1>6. NoneNewer' /\ SiteJsonSeals'
  BY <1>1 DEF Inductive, NoneNewer, SiteJsonSeals
<1>7. /\ Selection' = Selection /\ HasFleet' = HasFleet /\ Emitted(Current)' = Emitted(Current)
      /\ \A e : Complete(e)' = Complete(e)
  BY <1>1, InputDecides, EmittedStays DEF Complete
<1>8. Written'
  BY <1>1, <1>4, <1>7 DEF Inductive, Written
<1>9. Untouched'
  BY <1>1, <1>4, <1>7 DEF Inductive, Untouched
<1>. QED
  BY <1>3, <1>5, <1>6, <1>8, <1>9 DEF Inductive

LEMMA StepInductive == Inductive /\ [Next]_vars => Inductive'
<1>. SUFFICES ASSUME Inductive, [Next]_vars PROVE Inductive'
  OBVIOUS
<1>1. CASE Invoke
  BY <1>1, InvokeInductive
<1>2. CASE Refuse
  BY <1>2, LeaveInductive DEF Refuse
<1>3. CASE Render
  BY <1>3, RenderInductive
<1>4. CASE StartWriting \/ UNCHANGED vars
  BY <1>4, QuietInductive
<1>5. CASE WriteFile
  BY <1>5, WriteInductive
<1>6. CASE WriteFleet
  BY <1>6, FleetInductive
<1>7. CASE CheckEnds \/ WriteThrows \/ Finish \/ Kill
  <2>1. exit \in 0..2
    BY DEF Inductive, TypeOK
  <2>. QED
    BY <1>7, <2>1, LeaveInductive DEF CheckEnds, WriteThrows, Finish, Kill
<1>. QED
  BY <1>1, <1>2, <1>3, <1>4, <1>5, <1>6, <1>7 DEF Next

(* The invariant holds of every registry, wiring and number of invocations. *)
THEOREM AlwaysInductive == Spec => []Inductive
BY InitInductive, StepInductive, PTL DEF Spec

(* Every variable keeps its type, whatever the invocations find.           *)
THEOREM TypeCorrect == Spec => []TypeOK
<1>1. Inductive => TypeOK
  BY DEF Inductive
<1>. QED
  BY <1>1, AlwaysInductive, PTL

(* A site.json is the last file of its partition (gen-site.mjs:117): what  *)
(* it lists is never older, through write errors, kills and later runs.    *)
THEOREM SiteJsonIsLast == Spec => []SiteJsonSeals
<1>1. Inductive => SiteJsonSeals
  BY DEF Inductive
<1>. QED
  BY <1>1, AlwaysInductive, PTL

LEMMA StepWritesAccepted ==
  ASSUME Inductive, [Next]_vars, disk' # disk
  PROVE  ~dry /\ ~InventoryRefused /\ \A e \in Selection : ~SecretMissing(wiring[e])
<1>1. WriteFile \/ WriteFleet
  BY DEF Next, Invoke, Refuse, Render, CheckEnds, StartWriting, WriteThrows, Finish, Kill,
         Leave, vars, tree
<1>2. ~dry /\ ~InventoryRefused /\ ~RunRefused
  BY <1>1 DEF Inductive, Accepted, Rendered, WriteFile, WriteFleet
<1>. QED
  BY <1>2 DEF RunRefused, PartitionRefused

(* gen-site.mjs: every error of every environment is found before the      *)
(* first write, and --check writes nothing.                                *)
THEOREM RefusedWritesNothing == Spec => RefusalWritesNothing
<1>1. Inductive /\ [Next]_vars =>
        [disk' # disk => ~dry /\ ~InventoryRefused
                           /\ \A e \in Selection : ~SecretMissing(wiring[e])]_vars
  BY StepWritesAccepted
<1>. QED
  BY <1>1, AlwaysInductive, PTL DEF Spec, RefusalWritesNothing

Success ==
  /\ \A e \in Selection :
       listed[e] = Names(e) /\ \A p \in ToSet(Emitted(e)) : disk[p] = runs
  /\ disk[Fleet] = IF HasFleet THEN runs ELSE before[Fleet]
  /\ \A e \in Envs \ Selection, f \in Files : disk[<<e, f>>] = before[<<e, f>>]

LEMMA FinishSucceeds ==
  ASSUME Inductive, Finish
  PROVE  Success
<1>1. phase = "writing" /\ Rendered /\ left = {} /\ ~fleet
  BY DEF Finish, Rendered
<1>2. \A e \in Selection : Complete(e)
  BY <1>1 DEF Inductive, Written
<1>. QED
  BY <1>1, <1>2 DEF Inductive, Written, Untouched, Success, Complete

(* A writing invocation that ends with 0 renewed every file of every       *)
(* selected environment and, of several, the fleet's, and no other.        *)
THEOREM SuccessRenewsAll == Spec => SuccessIsComplete
<1>1. Inductive /\ [Next]_vars => [Finish => Success]_vars
  BY FinishSucceeds
<1>. QED
  BY <1>1, AlwaysInductive, PTL DEF Spec, SuccessIsComplete, Success
-----------------------------------------------------------------------------
(* What the inventory rules leave.                                         *)
Admitted == Read /\ phase # "idle" /\ ~InventoryRefused

LEMMA RenderedAdmitted == Inductive /\ Rendered => Admitted
BY DEF Inductive, Accepted, Rendered, Admitted

(* A queue manager of an admitted registry: where it is scraped from and   *)
(* by what it is known.                                                    *)
LEMMA QmgrTyped ==
  ASSUME Admitted, NEW a \in Qmgrs
  PROVE  \E k \in Keys(rows) :
           /\ a = QmgrOf(k) /\ k = <<a.env, a.name>>
           /\ a.hosts = {rows[j].host : j \in Group(rows, k)}
           /\ a.env \in DOMAIN wiring /\ wiring[a.env] \in Wirings
           /\ a.exporter_host # None /\ a.client_port # None
<1>1. PICK k \in Keys(rows) : a = QmgrOf(k)
  BY QmgrsAre
<1>2. PICK i \in Group(rows, k) :
        /\ rows[i] \in Rows
        /\ a = [name |-> k[2], env |-> k[1], shape |-> rows[i].shape,
                hosts |-> {rows[j].host : j \in Group(rows, k)},
                address |-> Or(rows[i].ip, rows[i].host),
                exporter_host |-> Or(rows[i].exporter, wiring[k[1]].monitoring_host),
                client_port |-> rows[i].client, native_port |-> rows[i].native]
  BY <1>1, QmgrFields DEF Admitted
<1>3. /\ a.name = k[2] /\ a.env = k[1] /\ a.hosts = {rows[j].host : j \in Group(rows, k)}
      /\ a.exporter_host = Or(rows[i].exporter, wiring[k[1]].monitoring_host)
      /\ a.client_port = rows[i].client
  BY <1>2
<1>4. i \in DOMAIN rows /\ k = <<rows[i].env, rows[i].qmgr>>
  BY DEF Group
<1>5. k = <<k[1], k[2]>> /\ k[1] = rows[i].env
  BY <1>4
<1>6. k[1] \in DOMAIN wiring /\ wiring[k[1]] \in Wirings
  BY <1>4, <1>5, RowsTyped DEF Admitted, InventoryRefused, AdapterRefuses
<1>7. a.exporter_host # None
  BY <1>3, <1>6 DEF Or, Wirings
<1>8. a.client_port # None
  BY <1>2, <1>3 DEF Rows
<1>. QED
  BY <1>1, <1>3, <1>5, <1>6, <1>7, <1>8

LEMMA NamesAreUnique ==
  ASSUME Admitted, NEW a \in Qmgrs, NEW b \in Qmgrs, a.env = b.env, a.name = b.name
  PROVE  a = b
BY QmgrTyped

LEMMA HostsAreOfOneEnvironment ==
  ASSUME Admitted, NEW a \in Qmgrs, NEW b \in Qmgrs, a.hosts \cap b.hosts # {}
  PROVE  a.env = b.env
<1>1. PICK k \in Keys(rows) : k = <<a.env, a.name>> /\ a.hosts = {rows[j].host : j \in Group(rows, k)}
  BY QmgrTyped
<1>2. PICK l \in Keys(rows) : l = <<b.env, b.name>> /\ b.hosts = {rows[j].host : j \in Group(rows, l)}
  BY QmgrTyped
<1>3. PICK i \in Group(rows, k), j \in Group(rows, l) : rows[i].host = rows[j].host
  BY <1>1, <1>2
<1>4. i \in DOMAIN rows /\ j \in DOMAIN rows
      /\ <<rows[i].env, rows[i].qmgr>> = k /\ <<rows[j].env, rows[j].qmgr>> = l
  BY DEF Group
<1>5. rows[i].env = rows[j].env
  BY <1>3, <1>4 DEF Admitted, InventoryRefused, AdapterRefuses
<1>. QED
  BY <1>1, <1>2, <1>4, <1>5

LEMMA PortsAreFree ==
  ASSUME Admitted, NEW a \in Qmgrs, NEW b \in Qmgrs, a # b
  PROVE  ~ClientPortTaken(a, b) /\ ~NativePortTaken(a, b) /\ ~AddressTaken(a, b)
         /\ ~NativePortMissing(a, wiring)
BY DEF Admitted, InventoryRefused, CheckInventory

LEMMA TargetsDiffer ==
  ASSUME Admitted, NEW a \in Qmgrs, NEW b \in Qmgrs, a # b
  PROVE  /\ ExporterTarget(a) # ExporterTarget(b)
         /\ NativeTarget(a) = NativeTarget(b) => a.env # b.env /\ (Floating(a) \/ Floating(b))
<1>1. a.exporter_host # None /\ a.client_port # None /\ b.exporter_host # None
  BY QmgrTyped
<1>2. ExporterTarget(a) # ExporterTarget(b)
  BY <1>1, PortsAreFree DEF ClientPortTaken, ClientKey, ExporterTarget
<1>3. a.env = b.env => a.address # b.address
  BY PortsAreFree DEF AddressTaken
<1>4. a.address = b.address => Floating(a) \/ Floating(b)
  BY <1>3, HostsAreOfOneEnvironment DEF Floating
<1>5. NativeTarget(a) = NativeTarget(b) => a.address = b.address
  BY DEF NativeTarget
<1>. QED
  BY <1>2, <1>3, <1>4, <1>5

(* One entry a job: the environment and the name pick the queue manager.   *)
Entry(qm, job) ==
  [target |-> IF job = "native" THEN NativeTarget(qm) ELSE ExporterTarget(qm),
   labels |-> TargetLabels(qm, job)]

LEMMA FileSdEntries ==
  ASSUME NEW e, NEW v
  PROVE  /\ \A qm \in Qmgrs, job \in Jobs(v) : qm.env = e => Entry(qm, job) \in FileSd(Qmgrs, e, v)
         /\ \A x \in FileSd(Qmgrs, e, v) :
              \E qm \in Qmgrs, job \in Jobs(v) : qm.env = e /\ x = Entry(qm, job)
BY DEF FileSd, Entry

LEMMA EntryLabels ==
  ASSUME NEW qm, NEW job
  PROVE  /\ Entry(qm, job).labels = [qmgr |-> qm.name, environment |-> qm.env, source |-> job]
         /\ Entry(qm, job).labels.qmgr = qm.name /\ Entry(qm, job).labels.environment = qm.env
         /\ Entry(qm, job).labels.source = job
BY DEF Entry, TargetLabels

LEMMA EndpointsSeparate ==
  ASSUME Admitted
  PROVE  EndpointsAreSeparate
<1>1. ASSUME NEW a \in Qmgrs, NEW b \in Qmgrs, a # b
      PROVE  /\ ExporterTarget(a) # ExporterTarget(b)
             /\ NativeTarget(a) = NativeTarget(b) => a.env # b.env /\ (Floating(a) \/ Floating(b))
             /\ a.hosts \cap b.hosts # {} =>
                  /\ a.env = b.env
                  /\ Vantage(a.env) = "dual" /\ wiring[a.env].profile = "non-container"
                       => a.native_port # b.native_port
  <2>1. a.env = b.env /\ Vantage(a.env) = "dual" /\ wiring[a.env].profile = "non-container"
          /\ a.hosts \cap b.hosts # {} => a.native_port # b.native_port
    BY <1>1, PortsAreFree DEF NativePortTaken, NativePortMissing, Vantage
  <2>. QED
    BY <1>1, <2>1, TargetsDiffer, HostsAreOfOneEnvironment
<1>2. ASSUME NEW k \in Keys(rows), NEW job \in Jobs(Vantage(k[1]))
      PROVE  Cardinality({x \in FileSd(Qmgrs, k[1], Vantage(k[1])) :
                            x.labels = [qmgr |-> k[2], environment |-> k[1], source |-> job]}) = 1
  <2>. DEFINE qm == QmgrOf(k)
              found == {x \in FileSd(Qmgrs, k[1], Vantage(k[1])) :
                          x.labels = [qmgr |-> k[2], environment |-> k[1], source |-> job]}
  <2>1. qm \in Qmgrs /\ qm.env = k[1] /\ qm.name = k[2]
    BY QmgrsAre, QmgrFields DEF Admitted
  <2>. HIDE DEF qm
  <2>2. Entry(qm, job) \in found
    BY <2>1, FileSdEntries, EntryLabels
  <2>3. ASSUME NEW x \in found PROVE x = Entry(qm, job)
    <3>1. PICK q \in Qmgrs, j \in Jobs(Vantage(k[1])) : q.env = k[1] /\ x = Entry(q, j)
      BY FileSdEntries
    <3>2. x.labels.qmgr = k[2] /\ x.labels.source = job
      OBVIOUS
    <3>3. Entry(q, j).labels.qmgr = q.name /\ Entry(q, j).labels.source = j
      BY EntryLabels
    <3>4. q.name = k[2] /\ j = job
      BY <3>1, <3>2, <3>3
    <3>. QED
      BY <2>1, <3>1, <3>4, NamesAreUnique
  <2>4. found = {Entry(qm, job)}
    BY <2>2, <2>3
  <2>. QED
    BY <2>4, FS_Singleton
<1>. QED
  BY <1>1, <1>2 DEF EndpointsAreSeparate

(* The endpoints of what is rendered are separate, but for a floating      *)
(* address given in two environments: what the port, address and host      *)
(* rules of toInventory(), validateInventory() and checkInventory() leave. *)
THEOREM EndpointsStaySeparate == Spec => []EndpointsAreSeparate
<1>1. Inductive => EndpointsAreSeparate
  <2>1. Inductive /\ Rendered => EndpointsAreSeparate
    BY RenderedAdmitted, EndpointsSeparate
  <2>2. ~Rendered => EndpointsAreSeparate
    BY DEF EndpointsAreSeparate
  <2>. QED
    BY <2>1, <2>2
<1>. QED
  BY <1>1, AlwaysInductive, PTL
-----------------------------------------------------------------------------
(* The self-checks against the inventory rules.                            *)
LEMMA QmgrsFinite ==
  ASSUME Admitted
  PROVE  IsFiniteSet(Qmgrs)
<1>. DEFINE f == [i \in DOMAIN rows |-> QmgrOf(<<rows[i].env, rows[i].qmgr>>)]
<1>1. IsFiniteSet(DOMAIN rows)
  BY RowsTyped, FS_Interval DEF Admitted
<1>2. f \in Surjection(DOMAIN rows, Qmgrs)
  <2>1. \A i \in DOMAIN rows : f[i] \in Qmgrs
    BY QmgrsAre DEF Keys
  <2>2. \A q \in Qmgrs : \E i \in DOMAIN rows : f[i] = q
    BY QmgrsAre DEF Keys
  <2>. QED
    BY <2>1, <2>2 DEF Surjection
<1>. HIDE DEF f
<1>. QED
  BY <1>1, <1>2, FS_Surjection

Mine(e) == {q \in Qmgrs : q.env = e}
Entries(e, v, job) == {x \in FileSd(Qmgrs, e, v) : x.labels.source = job}
LEMMA OneEntryEach ==
  ASSUME Admitted, NEW e, NEW v, NEW job \in Jobs(v)
  PROVE  /\ Cardinality(Entries(e, v, job)) = Cardinality(Mine(e))
         /\ \A x \in Entries(e, v, job) :
              x.labels.environment = e /\ \E q \in Mine(e) : q.name = x.labels.qmgr
<1>. DEFINE f == [q \in Mine(e) |-> Entry(q, job)]
<1>1. \A x \in Entries(e, v, job) : \E q \in Mine(e) : x = Entry(q, job)
  <2>. SUFFICES ASSUME NEW x \in Entries(e, v, job) PROVE \E q \in Mine(e) : x = Entry(q, job)
    OBVIOUS
  <2>1. PICK q \in Qmgrs, j \in Jobs(v) : q.env = e /\ x = Entry(q, j)
    BY FileSdEntries DEF Entries
  <2>2. Entry(q, j).labels.source = j /\ x.labels.source = job
    BY EntryLabels DEF Entries
  <2>. QED
    BY <2>1, <2>2 DEF Mine
<1>2. \A q \in Mine(e) : Entry(q, job) \in Entries(e, v, job)
  <2>. SUFFICES ASSUME NEW q \in Mine(e) PROVE Entry(q, job) \in Entries(e, v, job)
    OBVIOUS
  <2>1. q \in Qmgrs /\ q.env = e
    BY DEF Mine
  <2>2. Entry(q, job) \in FileSd(Qmgrs, e, v)
    BY <2>1, FileSdEntries
  <2>3. Entry(q, job).labels.source = job
    BY EntryLabels
  <2>. QED
    BY <2>2, <2>3 DEF Entries
<1>3. \A a, b \in Mine(e) : Entry(a, job) = Entry(b, job) => a = b
  <2>. SUFFICES ASSUME NEW a \in Mine(e), NEW b \in Mine(e), Entry(a, job) = Entry(b, job)
                PROVE  a = b
    OBVIOUS
  <2>1. Entry(a, job).labels.qmgr = a.name /\ Entry(b, job).labels.qmgr = b.name
    BY EntryLabels
  <2>. QED
    BY <2>1, NamesAreUnique DEF Mine
<1>4. f \in Bijection(Mine(e), Entries(e, v, job))
  <2>1. f \in [Mine(e) -> Entries(e, v, job)] /\ \A q \in Mine(e) : f[q] = Entry(q, job)
    BY <1>2
  <2>. HIDE DEF f
  <2>2. \A a, b \in Mine(e) : f[a] = f[b] => a = b
    BY <1>3, <2>1
  <2>3. \A x \in Entries(e, v, job) : \E q \in Mine(e) : f[q] = x
    BY <1>1, <2>1
  <2>. QED
    BY <2>1, <2>2, <2>3, Fun_IsBij
<1>5. IsFiniteSet(Mine(e))
  BY QmgrsFinite, FS_Subset DEF Mine
<1>6. ExistsBijection(Mine(e), Entries(e, v, job))
  BY <1>4 DEF ExistsBijection
<1>7. \A x \in Entries(e, v, job) :
        x.labels.environment = e /\ \E q \in Mine(e) : q.name = x.labels.qmgr
  <2>. SUFFICES ASSUME NEW x \in Entries(e, v, job)
                PROVE  x.labels.environment = e /\ \E q \in Mine(e) : q.name = x.labels.qmgr
    OBVIOUS
  <2>1. PICK q \in Mine(e) : x = Entry(q, job)
    BY <1>1
  <2>2. x.labels.environment = q.env /\ x.labels.qmgr = q.name
    BY <2>1, EntryLabels
  <2>. QED
    BY <2>2 DEF Mine
<1>. QED
  BY <1>5, <1>6, <1>7, FS_Bijection

(* What is left of the pack for an environment scraped from one side: no   *)
(* part is called native, and every rule's SLI and every name a part       *)
(* refers to is still there.                                               *)
LEMMA PartFields ==
  ASSUME NEW k, NEW v, NEW r
  PROVE  Part(k, v, r).key = k /\ Part(k, v, r).value = v /\ Part(k, v, r).refers = r
BY DEF Part

LEMMA RuleFields ==
  ASSUME NEW a, NEW s, NEW r
  PROVE  Rule(a, s, r).alert = a /\ Rule(a, s, r).sli = s /\ Rule(a, s, r).reads = r
BY DEF Rule

SingleParts == {
  Part("id", "qmgr_reachability", {"exporter"}),
  Part("id", "qmgr_reachability_99_9", {"qmgr_reachability"}),
  Part("slo", "qmgr_reachability_99_9", {"qmgr_reachability_99_9"}),
  Part("trigger", "alert:ibmmq-queue-manager-unreachable", {"IBMMQQueueManagerUnreachable"}),
  Part("job_name", "exporter", {}),
  Part("id", "listener-stopped",
       {"qmgr_reachability_99_9", "IBMMQQueueManagerUnreachable", "MQCanaryFailing"}) }
LEMMA SingleSitePack == SitePack("single") = SingleParts
<1>1. \A p \in SitePack("single") : p \in SingleParts
  BY PartFields DEF SitePack, PackRemovals, PackParts, SingleParts
<1>2. \A p \in SingleParts : p \in SitePack("single")
  BY PartFields DEF SitePack, PackRemovals, PackParts, SingleParts
<1>. QED
  BY <1>1, <1>2
LEMMA DualSitePack ==
  ASSUME NEW v, v # "single"
  PROVE  SitePack(v) = PackParts
BY DEF SitePack, PackRemovals

SymptomSlis == {"queue_depth_headroom", "oldest_message_age", "dlq_depth", "canary_success",
                "canary_roundtrip_p99", "log_write_latency", "qmgr_reachability"}
LEMMA SingleRules ==
  \A r \in RulesOf("single") :
    /\ r.sli \in SymptomSlis /\ r.reads \subseteq {"exporter"}
    /\ r.alert # "IBMMQQueueManagerDown"
BY RuleFields DEF RulesOf, Differential, Symptoms, FsSli, SymptomSlis
LEMMA DualRules ==
  \A r \in RulesOf("dual") : r.reads \subseteq {"exporter", "native"}
BY RuleFields DEF RulesOf, Differential, Symptoms, FsSli

(* The values of the pack that are an SLI of a symptom rule.               *)
LEMMA SliParts ==
  \A p \in PackParts : p.value \in SymptomSlis => p.value = "qmgr_reachability"
BY PartFields DEF PackParts, SymptomSlis
LEMMA SingleSli ==
  /\ \E p \in SitePack("single") : p.value = "qmgr_reachability"
  /\ \A p \in SitePack("single") : p.value # "native"
BY SingleSitePack, PartFields DEF SingleParts
LEMMA DualNative == \E p \in SitePack("dual") : p.value = "native"
<1>1. Part("job_name", "native", {}) \in PackParts
  BY DEF PackParts
<1>. QED
  BY <1>1, DualSitePack, PartFields

(* Every rule's SLI the whole pack has is left in the site pack.           *)
LEMMA RuleSlisStay ==
  ASSUME NEW v \in {"dual", "single"}, NEW r \in RulesOf(v), \E p \in PackParts : p.value = r.sli
  PROVE  \E p \in SitePack(v) : p.value = r.sli
<1>1. CASE v = "dual"
  BY <1>1, DualSitePack
<1>2. CASE v = "single"
  BY <1>2, SingleRules, SliParts, SingleSli
<1>. QED
  BY <1>1, <1>2

LEMMA SelfChecksPass ==
  ASSUME Admitted, NEW e \in Selection
  PROVE  SelfChecks(Qmgrs, e, Vantage(e))
<1>. DEFINE v == Vantage(e)
<1>1. v \in {"dual", "single"}
  BY SelectedIsWired DEF Admitted, Vantage, Wirings
<1>. HIDE DEF v
<1>2. \A job \in Jobs(v) :
        /\ Cardinality(Entries(e, v, job)) = Cardinality(Mine(e))
        /\ \A x \in Entries(e, v, job) :
             x.labels.environment = e /\ \E q \in Mine(e) : q.name = x.labels.qmgr
  BY OneEntryEach
<1>3. "native" \in {p.value : p \in SitePack(v)} <=> v = "dual"
  BY <1>1, SingleSli, DualNative
<1>4. ASSUME NEW a \in Mine(e), NEW b \in Mine(e), a # b
      PROVE  /\ ExporterTarget(a) # ExporterTarget(b)
             /\ a.native_port # None /\ a.native_port = b.native_port => a.hosts \cap b.hosts = {}
  <2>1. a \in Qmgrs /\ b \in Qmgrs /\ a.env = b.env
    BY DEF Mine
  <2>. QED
    BY <1>4, <2>1, TargetsDiffer, PortsAreFree DEF NativePortTaken
<1>5. \A r \in RulesOf(v) :
        /\ (\E p \in PackParts : p.value = r.sli) => \E p \in SitePack(v) : p.value = r.sli
        /\ v = "single" => r.alert # "IBMMQQueueManagerDown" /\ "native" \notin r.reads
  BY <1>1, RuleSlisStay, SingleRules
<1>6. SelfChecks(Qmgrs, e, v)
  BY <1>2, <1>3, <1>4, <1>5 DEF SelfChecks, Mine, Entries
<1>. QED
  BY <1>6 DEF v

(* The rendered artefacts' own checks never refuse what the inventory      *)
(* rules let through: the two copies of the port rules agree, each job has *)
(* one target a queue manager, and the site pack is whole.                 *)
THEOREM ChecksAlwaysAgree == Spec => []ChecksAgree
<1>1. Inductive => ChecksAgree
  BY SelfChecksPass DEF Inductive, Admitted, ChecksAgree
<1>. QED
  BY <1>1, AlwaysInductive, PTL

DualNames ==
  {"IBMMQQueueManagerDown", "IBMMQQueueManagerUnreachable", "MQCanaryFailing"}
LEMMA DualAlerts == \A n \in DualNames : \E r \in RulesOf("dual") : r.alert = n
<1>1. /\ Rule("IBMMQQueueManagerDown", "qmgr_process_up", {"native"}) \in RulesOf("dual")
      /\ Rule("IBMMQQueueManagerUnreachable", "qmgr_reachability", {"exporter", "native"})
           \in RulesOf("dual")
      /\ Rule("MQCanaryFailing", "canary_success", {}) \in RulesOf("dual")
  BY DEF RulesOf, Differential, Symptoms
<1>. QED
  BY <1>1, RuleFields DEF DualNames
LEMMA SingleAlerts ==
  \A n \in {"IBMMQQueueManagerUnreachable", "MQCanaryFailing"} :
    \E r \in RulesOf("single") : r.alert = n
<1>1. /\ Rule("IBMMQQueueManagerUnreachable", "qmgr_reachability", {"exporter"})
           \in RulesOf("single")
      /\ Rule("MQCanaryFailing", "canary_success", {}) \in RulesOf("single")
  BY DEF RulesOf, Differential, Symptoms
<1>. QED
  BY <1>1, RuleFields

(* Whatever a part of a site pack refers to is in it or is a rule's alert. *)
PartNames == {"native", "exporter", "qmgr_process_up", "qmgr_reachability",
              "qmgr_process_up_99_9", "qmgr_reachability_99_9", "ibmmq:qmgr_process_up:ratio_5m"}
LEMMA DualParts == \A n \in PartNames : \E p \in PackParts : p.value = n
<1>1. /\ Part("job_name", "native", {}) \in PackParts
      /\ Part("job_name", "exporter", {}) \in PackParts
      /\ Part("id", "qmgr_process_up", {"native"}) \in PackParts
      /\ Part("id", "qmgr_reachability", {"exporter"}) \in PackParts
      /\ Part("id", "qmgr_process_up_99_9", {"qmgr_process_up"}) \in PackParts
      /\ Part("id", "qmgr_reachability_99_9", {"qmgr_reachability"}) \in PackParts
      /\ Part("name", "ibmmq:qmgr_process_up:ratio_5m", {"qmgr_process_up"}) \in PackParts
  BY DEF PackParts
<1>. QED
  BY <1>1, PartFields DEF PartNames
LEMMA DualRefers == \A p \in PackParts : p.refers \subseteq PartNames \cup DualNames
BY PartFields DEF PackParts, PartNames, DualNames
LEMMA SingleParted ==
  \A n \in {"exporter", "qmgr_reachability", "qmgr_reachability_99_9"} :
    \E p \in SingleParts : p.value = n
<1>1. /\ Part("job_name", "exporter", {}) \in SingleParts
      /\ Part("id", "qmgr_reachability", {"exporter"}) \in SingleParts
      /\ Part("id", "qmgr_reachability_99_9", {"qmgr_reachability"}) \in SingleParts
  BY DEF SingleParts
<1>. QED
  BY <1>1, PartFields
LEMMA SingleRefers ==
  \A p \in SingleParts :
    p.refers \subseteq {"exporter", "qmgr_reachability", "qmgr_reachability_99_9"}
                         \cup {"IBMMQQueueManagerUnreachable", "MQCanaryFailing"}
BY PartFields DEF SingleParts

LEMMA NothingIsLost ==
  ASSUME NEW v \in {"dual", "single"}
  PROVE  /\ \A r \in RulesOf(v) : r.reads \subseteq Jobs(v)
         /\ \A p \in SitePack(v) : p.refers \subseteq Named(v)
         /\ \A r \in RulesOf(v) : (\E p \in PackParts : p.value = r.sli) => r.sli \in Named(v)
<1>1. \A r \in RulesOf(v) : r.reads \subseteq Jobs(v)
  BY SingleRules, DualRules DEF Jobs
<1>2. \A r \in RulesOf(v) : (\E p \in PackParts : p.value = r.sli) => r.sli \in Named(v)
  BY RuleSlisStay DEF Named
<1>3. CASE v = "dual"
  <2>1. \A n \in PartNames : n \in Named("dual")
    BY DualParts, DualSitePack DEF Named
  <2>2. \A n \in DualNames : n \in Named("dual")
    BY DualAlerts DEF Named
  <2>. QED
    BY <1>1, <1>2, <1>3, <2>1, <2>2, DualRefers, DualSitePack
<1>4. CASE v = "single"
  <2>1. \A n \in {"exporter", "qmgr_reachability", "qmgr_reachability_99_9"} : n \in Named("single")
    BY SingleParted, SingleSitePack DEF Named
  <2>2. \A n \in {"IBMMQQueueManagerUnreachable", "MQCanaryFailing"} : n \in Named("single")
    BY SingleAlerts DEF Named
  <2>. QED
    BY <1>1, <1>2, <1>4, <2>1, <2>2, SingleRefers, SingleSitePack
<1>. QED
  BY <1>3, <1>4

(* After the removals for one vantage no rule reads a job that is gone and *)
(* nothing in the site pack refers to what is gone.                        *)
THEOREM NothingEverDangles == Spec => []NothingDangles
<1>1. ASSUME Admitted, NEW e \in Selection
      PROVE  Vantage(e) \in {"dual", "single"}
  BY <1>1, SelectedIsWired DEF Admitted, Vantage, Wirings
<1>2. Inductive => NothingDangles
  BY <1>1, RenderedAdmitted, NothingIsLost DEF NothingDangles
<1>. QED
  BY <1>2, AlwaysInductive, PTL
-----------------------------------------------------------------------------
(* Alertmanager: the route of a severity leads to its receiver's name, the *)
(* block of that name holds its channel.                                   *)
Sevs == {"SEV1", "SEV2", "SEV3"}
LEMMA SeveritiesAre ==
  /\ ToSet(Severities) = Sevs
  /\ Severities[1] = "SEV1" /\ Severities[2] = "SEV2" /\ Severities[3] = "SEV3"
  /\ \A s \in Sevs : \E n \in 1..3 : Severities[n] = s
  /\ \A n \in 1..3 : Severities[n] \in Sevs
<1>1. Severities[1] = "SEV1" /\ Severities[2] = "SEV2" /\ Severities[3] = "SEV3"
  BY DEF Severities
<1>2. DOMAIN Severities = 1..3
  BY DEF Severities
<1>. QED
  BY <1>1, <1>2 DEF Sevs, ToSet

LEMMA ReachesItsReceiver ==
  ASSUME NEW r, NEW s \in Sevs, NEW prefix
  PROVE  Reaches(r, s, prefix) = prefix \o ReceiverName(r[s])
<1>1. s \notin Routes(r) => ReceiverName(r[s]) = Root(r)
  <2>1. CASE s = "SEV1"
    BY <2>1 DEF Routes
  <2>2. CASE s = "SEV2"
    BY <2>2 DEF Routes
  <2>3. CASE s = "SEV3"
    BY <2>3 DEF Root
  <2>. QED
    BY <2>1, <2>2, <2>3 DEF Sevs
<1>. QED
  BY <1>1 DEF Reaches

LEMMA BlockNames ==
  ASSUME NEW r, NEW prefix
  PROVE  /\ \A s \in Sevs : prefix \o ReceiverName(r[s]) \in DOMAIN Blocks(r, prefix)
         /\ \A name \in DOMAIN Blocks(r, prefix) :
              \E s \in Sevs : name = prefix \o ReceiverName(r[s])
         /\ \A n \in 1..3 : /\ ReceiversOf(r)[n].ref = r[Severities[n]]
                            /\ ReceiversOf(r)[n].name = ReceiverName(r[Severities[n]])
<1>1. \A n \in 1..3 : /\ ReceiversOf(r)[n].ref = r[Severities[n]]
                      /\ ReceiversOf(r)[n].name = ReceiverName(r[Severities[n]])
  BY DEF ReceiversOf
<1>2. DOMAIN Blocks(r, prefix) = {prefix \o ReceiversOf(r)[n].name : n \in 1..3}
  BY DEF Blocks
<1>3. ASSUME NEW s \in Sevs
      PROVE  prefix \o ReceiverName(r[s]) \in DOMAIN Blocks(r, prefix)
  <2>1. PICK n \in 1..3 : Severities[n] = s
    BY SeveritiesAre
  <2>2. prefix \o ReceiversOf(r)[n].name = prefix \o ReceiverName(r[s])
    BY <1>1, <2>1
  <2>3. prefix \o ReceiversOf(r)[n].name \in DOMAIN Blocks(r, prefix)
    BY <1>2
  <2>. QED
    BY <2>2, <2>3
<1>4. ASSUME NEW name \in DOMAIN Blocks(r, prefix)
      PROVE  \E s \in Sevs : name = prefix \o ReceiverName(r[s])
  <2>1. PICK n \in 1..3 : name = prefix \o ReceiversOf(r)[n].name
    BY <1>2
  <2>2. name = prefix \o ReceiverName(r[Severities[n]]) /\ Severities[n] \in Sevs
    BY <1>1, <2>1, SeveritiesAre
  <2>. QED
    BY <2>2
<1>. QED
  BY <1>1, <1>3, <1>4

LEMMA BlockHasAName ==
  \A r, prefix : \A name \in DOMAIN Blocks(r, prefix) :
    \E s \in Sevs : name = prefix \o ReceiverName(r[s])
BY BlockNames

LEMMA CancelLeft ==
  ASSUME NEW s \in Seq(STRING), NEW t \in Seq(STRING), NEW u \in Seq(STRING), s \o t = s \o u
  PROVE  t = u
BY ConcatSimplifications

IsFirst(r, prefix, name, n) ==
  /\ prefix \o ReceiversOf(r)[n].name = name
  /\ \A k \in 1..(n - 1) : ReceiversOf(r)[k].name # ReceiversOf(r)[n].name
LEMMA OneIsFirst ==
  ASSUME NEW r, NEW prefix, NEW n \in 1..3
  PROVE  \E m \in 1..3 : IsFirst(r, prefix, prefix \o ReceiversOf(r)[n].name, m)
<1>. DEFINE rs == ReceiversOf(r)
            name == prefix \o rs[n].name
<1>1. CASE rs[1].name = rs[n].name
  <2>1. \A k \in 1..(1 - 1) : FALSE
    OBVIOUS
  <2>2. IsFirst(r, prefix, name, 1)
    BY <1>1, <2>1 DEF IsFirst
  <2>. QED
    BY <2>2
<1>2. CASE rs[1].name # rs[n].name /\ rs[2].name = rs[n].name
  <2>1. \A k \in 1..(2 - 1) : k = 1
    OBVIOUS
  <2>2. IsFirst(r, prefix, name, 2)
    BY <1>2, <2>1 DEF IsFirst
  <2>. QED
    BY <2>2
<1>3. CASE rs[1].name # rs[n].name /\ rs[2].name # rs[n].name
  <2>1. n = 3 /\ \A k \in 1..(3 - 1) : k \in {1, 2}
    BY <1>3
  <2>2. IsFirst(r, prefix, name, 3)
    BY <1>3, <2>1 DEF IsFirst
  <2>. QED
    BY <2>2
<1>. QED
  BY <1>1, <1>2, <1>3

(* Under any prefix the block of a severity's name is the one of the same   *)
(* severity, which comes no later and derives the same name.               *)
LEMMA BlockHoldsOneChannel ==
  ASSUME NEW r \in [Sevs -> Refs], NEW s \in Sevs
  PROVE  \E t \in NamedLike(r, s) :
           \A prefix \in Seq(STRING) : Blocks(r, prefix)[prefix \o ReceiverName(r[s])] = r[t]
<1>1. PICK n \in 1..3 : Severities[n] = s
  BY SeveritiesAre
<1>2. \A k \in 1..3 : /\ ReceiversOf(r)[k].name = ReceiverName(r[Severities[k]])
                      /\ ReceiversOf(r)[k].ref = r[Severities[k]]
                      /\ Severities[k] \in Sevs
                      /\ ReceiverName(r[Severities[k]]) \in Seq(STRING)
  BY BlockNames, SeveritiesAre, InputAssumption
<1>3. << >> \in Seq(STRING)
  BY EmptySeq
<1>4. PICK m \in 1..3 : IsFirst(r, << >>, << >> \o ReceiversOf(r)[n].name, m)
  BY OneIsFirst
<1>5. ReceiversOf(r)[m].name = ReceiversOf(r)[n].name
  BY <1>2, <1>3, <1>4, CancelLeft DEF IsFirst
<1>6. m <= n
  <2>1. n < m => n \in 1..(m - 1)
    OBVIOUS
  <2>. QED
    BY <1>4, <1>5, <2>1 DEF IsFirst
<1>7. Severities[m] \in NamedLike(r, s)
  <2>1. AsSevere(s, Severities[m])
    BY <1>1, <1>6 DEF AsSevere
  <2>. QED
    BY <1>1, <1>2, <1>5, <2>1, SeveritiesAre DEF NamedLike
<1>8. ASSUME NEW prefix \in Seq(STRING)
      PROVE  Blocks(r, prefix)[prefix \o ReceiverName(r[s])] = r[Severities[m]]
  <2>. DEFINE name == prefix \o ReceiverName(r[s])
              n0 == CHOOSE k \in 1..3 : IsFirst(r, prefix, name, k)
  <2>1. name \in {prefix \o ReceiversOf(r)[k].name : k \in 1..3}
    BY <1>1, <1>2
  <2>2. Blocks(r, prefix)[name] = ReceiversOf(r)[n0].ref
    BY <2>1 DEF Blocks, IsFirst
  <2>3. n0 \in 1..3 /\ IsFirst(r, prefix, name, n0)
    <3>1. name = prefix \o ReceiversOf(r)[n].name
      BY <1>1, <1>2
    <3>2. \E k \in 1..3 : IsFirst(r, prefix, name, k)
      BY <3>1, OneIsFirst
    <3>. QED
      BY <3>2
  <2>. HIDE DEF n0
  <2>4. ReceiversOf(r)[n0].name = ReceiversOf(r)[m].name
    <3>1. prefix \o ReceiversOf(r)[n0].name = prefix \o ReceiversOf(r)[n].name
      BY <1>1, <1>2, <2>3 DEF IsFirst
    <3>2. /\ ReceiversOf(r)[n0].name \in Seq(STRING)
          /\ ReceiversOf(r)[n].name \in Seq(STRING)
      BY <1>2, <2>3
    <3>3. ReceiversOf(r)[n0].name = ReceiversOf(r)[n].name
      BY <3>1, <3>2, CancelLeft
    <3>. QED
      BY <1>5, <3>3
  <2>5. ~(n0 < m)
    <3>1. n0 < m => n0 \in 1..(m - 1)
      BY <2>3
    <3>. QED
      BY <1>4, <2>4, <3>1 DEF IsFirst
  <2>6. ~(m < n0)
    <3>1. m < n0 => m \in 1..(n0 - 1)
      BY <2>3
    <3>. QED
      BY <2>3, <2>4, <3>1 DEF IsFirst
  <2>7. n0 = m
    BY <2>3, <2>5, <2>6
  <2>. QED
    BY <1>2, <2>2, <2>7
<1>. QED
  BY <1>7, <1>8

(* Of two equal concatenations one begins with the other's beginning.      *)
LEMMA SamePrefix ==
  ASSUME NEW S, NEW a \in Seq(S), NEW b \in Seq(S), NEW s \in Seq(S), NEW t \in Seq(S),
         a \o s = b \o t, Len(a) <= Len(b)
  PROVE  IsPrefix(a, b)
<1>. DEFINE m == Len(a)
<1>1. m \in Nat /\ Len(b) \in Nat /\ Len(s) \in Nat /\ Len(t) \in Nat
  OBVIOUS
<1>2. \A i \in 1..m : a[i] = b[i]
  <2>. SUFFICES ASSUME NEW i \in 1..m PROVE a[i] = b[i]
    OBVIOUS
  <2>1. (a \o s)[i] = a[i]
    BY <1>1, ConcatProperties
  <2>2. (b \o t)[i] = b[i]
    BY <1>1, ConcatProperties
  <2>. QED
    BY <2>1, <2>2
<1>3. SubSeq(a, 1, m) = a
  BY SubSeqFull
<1>4. /\ SubSeq(b, 1, m) \in Seq(S) /\ Len(SubSeq(b, 1, m)) = m
      /\ \A i \in 1..m : SubSeq(b, 1, m)[i] = b[i]
  <2>1. \A i \in 1..m : b[i] \in S
    BY <1>1, ElementOfSeq
  <2>. QED
    BY <1>1, <2>1, SubSeqProperties
<1>5. a = SubSeq(b, 1, m)
  BY <1>2, <1>4, SeqEqual
<1>. QED
  BY <1>3, <1>5 DEF IsPrefix

LEMMA PrefixTellsEnvironments ==
  ASSUME NEW e \in Envs, NEW g \in Envs, NEW s \in Seq(STRING), NEW t \in Seq(STRING),
         Prefix(e) \o s = Prefix(g) \o t
  PROVE  IsPrefix(EnvWords(e), EnvWords(g)) \/ IsPrefix(EnvWords(g), EnvWords(e))
<1>1. EnvWords(e) \in Seq(STRING) /\ EnvWords(g) \in Seq(STRING)
  BY InputAssumption
<1>2. Len(EnvWords(e)) <= Len(EnvWords(g)) \/ Len(EnvWords(g)) <= Len(EnvWords(e))
  BY <1>1
<1>3. EnvWords(e) \o s = EnvWords(g) \o t
  BY DEF Prefix
<1>. QED
  BY <1>1, <1>2, <1>3, SamePrefix

(* The fleet's file has the blocks of every environment, each under its    *)
(* prefix; a name of one environment is no other's.                        *)
LEMMA FleetHoldsOwnBlock ==
  ASSUME Admitted, NEW e \in Selection, NEW s \in Sevs, NamesApart(e)
  PROVE  LET r == wiring[e].receivers
             name == Prefix(e) \o ReceiverName(r[s]) IN
         FleetBlocks(wiring, Selection)[name] = {Blocks(r, Prefix(e))[name]}
<1>. DEFINE r == wiring[e].receivers
            name == Prefix(e) \o ReceiverName(r[s])
<1>1. \A g \in Selection : g \in Envs /\ wiring[g].receivers \in [Sevs -> Refs]
  BY SelectedIsWired, SeveritiesAre DEF Admitted, Wirings
<1>2. \A g \in Selection, t \in Sevs : ReceiverName(wiring[g].receivers[t]) \in Seq(STRING)
  BY <1>1, InputAssumption
<1>3. name \in DOMAIN Blocks(r, Prefix(e))
  BY BlockNames
<1>4. ASSUME NEW g \in Selection, name \in DOMAIN Blocks(wiring[g].receivers, Prefix(g))
      PROVE  g = e
  <2>1. PICK t \in Sevs : name = Prefix(g) \o ReceiverName(wiring[g].receivers[t])
    <3>. DEFINE rg == wiring[g].receivers
    <3>1. \A p : \A n \in DOMAIN Blocks(rg, p) : \E t \in Sevs : n = p \o ReceiverName(rg[t])
      <4>. HIDE DEF rg
      <4>. QED
        BY BlockHasAName
    <3>. QED
      BY <1>4, <3>1
  <2>. QED
    BY <1>1, <1>2, <2>1, PrefixTellsEnvironments DEF NamesApart
<1>5. {x \in Selection : name \in DOMAIN Blocks(wiring[x].receivers, Prefix(x))} = {e}
  BY <1>3, <1>4
<1>6. name \in UNION {DOMAIN Blocks(wiring[x].receivers, Prefix(x)) : x \in Selection}
  BY <1>3
<1>7. FleetBlocks(wiring, Selection)[name]
        = {Blocks(wiring[x].receivers, Prefix(x))[name] :
             x \in {y \in Selection : name \in DOMAIN Blocks(wiring[y].receivers, Prefix(y))}}
  BY <1>6 DEF FleetBlocks
<1>. QED
  BY <1>5, <1>7

(* Whatever the channels of the environments, the alert of a severity gets *)
(* to the one its inventory names, or to that of a more severe one of the  *)
(* same receiver name, alone and (unless the environment's name goes on    *)
(* from another's, or another's from it) in the fleet's file.              *)
THEOREM AlertsReachTheirChannels == Spec => []AlertReachesItsChannel
<1>1. ASSUME Inductive, Rendered, NEW e \in Selection, NEW s \in Sevs
      PROVE  LET r == wiring[e].receivers IN
             \E t \in NamedLike(r, s) :
               /\ Blocks(r, << >>)[Reaches(r, s, << >>)] = r[t]
               /\ NamesApart(e) => FleetBlocks(wiring, Selection)[Reaches(r, s, Prefix(e))] = {r[t]}
  <2>. DEFINE r == wiring[e].receivers
  <2>1. Admitted
    BY <1>1, RenderedAdmitted
  <2>2. r \in [Sevs -> Refs] /\ e \in Envs
    BY <2>1, SelectedIsWired, SeveritiesAre DEF Admitted, Wirings
  <2>3. Prefix(e) \in Seq(STRING) /\ << >> \in Seq(STRING)
    BY <2>2, InputAssumption, EmptySeq DEF Prefix
  <2>4. PICK t \in NamedLike(r, s) :
          \A prefix \in Seq(STRING) : Blocks(r, prefix)[prefix \o ReceiverName(r[s])] = r[t]
    <3>. HIDE DEF r
    <3>. QED
      BY <2>2, BlockHoldsOneChannel
  <2>5. \A prefix : Reaches(r, s, prefix) = prefix \o ReceiverName(r[s])
    BY ReachesItsReceiver
  <2>6. NamesApart(e) => FleetBlocks(wiring, Selection)[Prefix(e) \o ReceiverName(r[s])]
                            = {Blocks(r, Prefix(e))[Prefix(e) \o ReceiverName(r[s])]}
    BY <2>1, FleetHoldsOwnBlock
  <2>. QED
    BY <2>3, <2>4, <2>5, <2>6
<1>2. Inductive => AlertReachesItsChannel
  BY <1>1, SeveritiesAre DEF AlertReachesItsChannel
<1>. QED
  BY <1>2, AlwaysInductive, PTL
=============================================================================

------------------------- MODULE CertificationProofs -------------------------
(***************************************************************************)
(* What the certification guarantees for every set of outcomes, any number *)
(* of processes and every pack.                                            *)
(*                                                                         *)
(* The run (CertRun): the types, that report and exit code agree, that a   *)
(* PASS is earned, that a quick run leaves the full report alone and that  *)
(* the boards show complete runs.  The invariant (Inductive) adds what is  *)
(* known of a run under way: the files it has written so far are its own,  *)
(* only a complete run publishes, and a verdict of PASS was computed from  *)
(* the checks that are still there.                                        *)
(*                                                                         *)
(* Its read-only suites (LabChecks): a row that passes was good and a row  *)
(* that fails was not, at some moment of its own queries.  The invariant   *)
(* (Knows) says of what moment an answer is evidence, and that no query    *)
(* the verdict depends on is forgotten.                                    *)
(***************************************************************************)
EXTENDS CertRun, LabChecks, FiniteSetTheorems, FunctionTheorems, TLAPS

(* A run under way has a number and a directory of its own.                *)
Started == Busy => run \in 1..MaxRuns /\ dir \in OutDirs(requested, scenarios, outGiven)

(* What it has written so far is its report.                               *)
Written == pc = "write" => \A j \in 1..3 : j < k => files[dir][Files[j]] = Report

(* Only a complete run with all its files publishes.                       *)
Complete ==
  pc = "publish" =>
    /\ ~Partial(requested, scenarios)
    /\ \A f \in FileNames : files[dir][f] = Report

(* Only fail() reports an error, and a verdict of PASS has its checks.     *)
Graded ==
  /\ pc \in {"write", "publish"} => verdict # "ERROR"
  /\ pc \in {"write", "publish"} /\ verdict = "PASS" =>
       \A s \in requested : checks[s] = {"PASS"}

Inductive ==
  /\ TypeOK
  /\ Started /\ Written /\ Complete /\ Graded
  /\ ReportMatchesExit /\ PassIsEarned

LEMMA FilesNamed ==
  /\ FileNames = {Files[j] : j \in 1..3}
  /\ Len(Files) = 3
BY DEF FileNames, Files

LEMMA SuitesNamed ==
  /\ Len(SUITES) = 3
  /\ \A j \in 1..3 : SUITES[j] \in Suites
BY DEF SUITES, Suites

LEMMA ExitTyped ==
  \A v \in Verdicts : EXIT[v] \in 0..3 /\ (EXIT[v] = 0 <=> v = "PASS")
                       /\ (EXIT[v] = 3 <=> v = "ERROR")
BY DEF Verdicts, EXIT

LEMMA InitInductive == Init => Inductive
<1>. SUFFICES ASSUME Init PROVE Inductive
  OBVIOUS
<1>1. TypeOK
  <2>1. run \in 0..MaxRuns /\ k \in 1..4
    BY MaxRunsAssumption DEF Init
  <2>2. checks \in [Suites -> SUBSET Statuses]
    BY DEF Init, NoChecks
  <2>3. files \in [Dirs -> [FileNames -> Reports \cup {Missing, Torn}]]
        /\ ended \in [Dirs -> 0..3 \cup {Killed}] /\ board \in Reports \cup {Missing}
    BY DEF Init
  <2>4. pc = "idle" /\ requested = {} /\ scenarios = "all" /\ outGiven = FALSE
        /\ dir \in Dirs /\ verdict \in Verdicts
    BY DEF Init, Dirs, Verdicts
  <2>. QED
    BY <2>1, <2>2, <2>3, <2>4 DEF TypeOK
<1>2. ~Busy /\ Started /\ Written /\ Complete /\ Graded
  BY DEF Init, Busy, Started, Written, Complete, Graded
<1>3. \A d \in Dirs : ended[d] = 137
  BY DEF Init, Killed
<1>4. dir \in Dirs
  BY DEF Init, Dirs
<1>. QED
  BY <1>1, <1>2, <1>3, <1>4 DEF Inductive, ReportMatchesExit, PassIsEarned

(* A verdict of PASS: no check of a requested suite is anything else, and  *)
(* none of these suites is empty.                                          *)
LEMMA VerdictEarned ==
  ASSUME TypeOK
  PROVE  /\ VerdictOf \in Verdicts \ {"ERROR"}
         /\ VerdictOf = "PASS" => \A s \in requested : checks[s] = {"PASS"}
<1>1. VerdictOf \in Verdicts \ {"ERROR"}
  BY DEF VerdictOf, Verdicts
<1>2. ASSUME VerdictOf = "PASS", NEW s \in requested
      PROVE  checks[s] = {"PASS"}
  <2>1. s \in Suites /\ checks[s] \subseteq Statuses /\ checks[s] \subseteq All
    BY DEF TypeOK, All
  <2>2. "FAIL" \notin All /\ {"WARN", "SKIP"} \cap All = {} /\ EmptySuites = {}
    BY <1>2 DEF VerdictOf
  <2>3. checks[s] # {}
    BY <2>2 DEF EmptySuites
  <2>4. \A c \in checks[s] : c = "PASS"
    BY <2>1, <2>2 DEF Statuses
  <2>. QED
    BY <2>3, <2>4
<1>. QED
  BY <1>1, <1>2

LEMMA ReportTyped ==
  ASSUME TypeOK, Started, Busy
  PROVE  Report \in Reports
BY DEF TypeOK, Started, Report, Reports, Partial

(* A run that leaves with a code: the other directory keeps its promise.   *)
LEMMA LeaveMatches ==
  ASSUME Inductive, NEW code \in 0..3 \cup {Killed}, Leave(code), Busy,
         dir' = dir, \A d \in Dirs : d # dir => files'[d] = files[d],
         code \in 0..2 => \E r \in Reports :
                            EXIT[r.verdict] = code /\ \A f \in FileNames : files'[dir][f] = r
  PROVE  ReportMatchesExit'
<1>. SUFFICES ASSUME NEW d \in Dirs, ended'[d] \in 0..2
              PROVE  \E r \in Reports :
                       EXIT[r.verdict] = ended'[d] /\ \A f \in FileNames : files'[d][f] = r
  BY DEF ReportMatchesExit
<1>0. ended \in [Dirs -> 0..3 \cup {Killed}] /\ dir \in Dirs
      /\ ended' = [ended EXCEPT ![dir] = code]
  BY DEF Inductive, TypeOK, Leave
<1>1. CASE d = dir
  BY <1>0, <1>1
<1>2. CASE d # dir
  BY <1>0, <1>2 DEF Inductive, ReportMatchesExit
<1>. QED
  BY <1>1, <1>2

(* A broken write keeps the types and the other directory.                 *)
LEMMA TearKeeps ==
  ASSUME TypeOK, MayTear
  PROVE  /\ files' \in [Dirs -> [FileNames -> Reports \cup {Missing, Torn}]]
         /\ \A d \in Dirs : d # dir => files'[d] = files[d]
<1>1. CASE files' = files
  BY <1>1 DEF TypeOK
<1>2. CASE k <= Len(Files) /\ files' = [files EXCEPT ![dir][Files[k]] = Torn]
  <2>1. Files[k] \in FileNames
    BY <1>2, FilesNamed DEF TypeOK
  <2>. QED
    BY <1>2, <2>1 DEF TypeOK
<1>. QED
  BY <1>1, <1>2 DEF MayTear

LEMMA WriteFileInductive ==
  ASSUME Inductive, WriteFile
  PROVE  Inductive'
<1>1. k \in 1..3 /\ Busy /\ dir \in Dirs /\ Report \in Reports
      /\ Files[k] \in FileNames /\ Report' = Report
  <2>1. k \in 1..3 /\ Busy /\ dir \in Dirs
    BY FilesNamed DEF Inductive, TypeOK, WriteFile, Busy
  <2>2. Files[k] \in FileNames
    BY <2>1, FilesNamed
  <2>3. Report \in Reports
    BY <2>1, ReportTyped DEF Inductive
  <2>4. Report' = Report
    BY DEF Report, Partial, WriteFile, args
  <2>. QED
    BY <2>1, <2>2, <2>3, <2>4
<1>2. files' \in [Dirs -> [FileNames -> Reports \cup {Missing, Torn}]]
      /\ files'[dir][Files[k]] = Report
      /\ \A d \in Dirs, f \in FileNames :
           d # dir \/ f # Files[k] => files'[d][f] = files[d][f]
  BY <1>1 DEF Inductive, TypeOK, WriteFile
<1>3. TypeOK' /\ Started'
  BY <1>1, <1>2 DEF Inductive, TypeOK, Started, WriteFile, args, Busy
<1>4. Written'
  <2>. SUFFICES ASSUME pc = "write", NEW j \in 1..3, j < k + 1
                PROVE  files'[dir][Files[j]] = Report
    BY <1>1 DEF Written, WriteFile, args
  <2>1. CASE j = k
    BY <1>2, <2>1
  <2>2. CASE j # k
    <3>1. j < k /\ Files[j] \in FileNames /\ Files[j] # Files[k]
      BY <1>1, <2>2, FilesNamed DEF Files
    <3>. QED
      BY <1>1, <1>2, <3>1 DEF Inductive, Written
  <2>. QED
    BY <2>1, <2>2
<1>5. Complete' /\ Graded' /\ PassIsEarned'
  BY DEF Inductive, Complete, Graded, PassIsEarned, WriteFile, args, Busy
<1>6. ReportMatchesExit'
  <2>1. \A d \in Dirs : d # dir => \A f \in FileNames : files'[d][f] = files[d][f]
    BY <1>2
  <2>2. Busy' /\ dir' = dir /\ ended' = ended
    BY DEF WriteFile, Busy, args
  <2>. QED
    BY <1>1, <2>1, <2>2 DEF Inductive, ReportMatchesExit
<1>. QED
  BY <1>3, <1>4, <1>5, <1>6 DEF Inductive

LEMMA WriteThrowsInductive ==
  ASSUME Inductive, WriteThrows
  PROVE  Inductive'
<1>1. k \in 1..3 /\ Busy /\ dir \in Dirs /\ Files[k] \in FileNames
  BY FilesNamed DEF Inductive, TypeOK, WriteThrows, Busy
<1>2. files' \in [Dirs -> [FileNames -> Reports \cup {Missing, Torn}]]
      /\ \A d \in Dirs, f \in FileNames : d # dir => files'[d][f] = files[d][f]
  BY TearKeeps DEF Inductive, WriteThrows
<1>3. UNCHANGED <<run, requested, scenarios, outGiven, dir, checks, board>>
  BY DEF WriteThrows, args
<1>4. CASE pc = "write"
  <2>1. pc' = "fail" /\ verdict' = "ERROR" /\ k' = 1 /\ ended' = ended
    BY <1>4 DEF WriteThrows
  <2>2. TypeOK' /\ Started' /\ Written' /\ Complete' /\ Graded' /\ PassIsEarned'
    BY <1>1, <1>2, <1>3, <2>1
       DEF Inductive, TypeOK, Started, Written, Complete, Graded, PassIsEarned, Busy, Verdicts
  <2>3. ReportMatchesExit'
    BY <1>1, <1>2, <1>3, <2>1 DEF Inductive, ReportMatchesExit, Busy
  <2>. QED
    BY <2>2, <2>3 DEF Inductive
<1>5. CASE pc = "fail"
  <2>1. pc' = "idle" /\ ended' = [ended EXCEPT ![dir] = 3] /\ UNCHANGED <<verdict, k>>
    BY <1>5 DEF WriteThrows, Leave, EXIT
  <2>2. TypeOK' /\ Started' /\ Written' /\ Complete' /\ Graded' /\ PassIsEarned'
    BY <1>1, <1>2, <1>3, <2>1
       DEF Inductive, TypeOK, Started, Written, Complete, Graded, PassIsEarned, Busy
  <2>3. ReportMatchesExit'
    BY <1>1, <1>2, <1>3, <2>1 DEF Inductive, TypeOK, ReportMatchesExit, Busy
  <2>. QED
    BY <2>2, <2>3 DEF Inductive
<1>. QED
  BY <1>4, <1>5 DEF WriteThrows

LEMMA LaunchInductive ==
  ASSUME Inductive, Launch
  PROVE  Inductive'
<1>1. Busy' /\ run' \in 1..MaxRuns /\ requested' \subseteq Suites
      /\ scenarios' \in {"all", "some", "none"} /\ outGiven' \in BOOLEAN
      /\ dir' \in OutDirs(requested', scenarios', outGiven')
  BY MaxRunsAssumption DEF Inductive, TypeOK, Launch, Busy
<1>2. dir' \in Dirs
  BY <1>1 DEF OutDirs, Dirs
<1>3. TypeOK'
  BY <1>1, <1>2, MaxRunsAssumption DEF Inductive, TypeOK, Launch, NoChecks, Verdicts
<1>4. Started' /\ Written' /\ Complete' /\ Graded' /\ PassIsEarned'
  BY <1>1 DEF Launch, Started, Written, Complete, Graded, PassIsEarned
<1>5. ReportMatchesExit'
  BY DEF Inductive, ReportMatchesExit, Launch
<1>. QED
  BY <1>3, <1>4, <1>5 DEF Inductive

LEMMA ReportedInductive ==
  ASSUME Inductive, Reported
  PROVE  Inductive'
<1>1. Busy /\ k = 4 /\ Report \in Reports /\ verdict \in Verdicts
      /\ UNCHANGED <<run, k, requested, scenarios, outGiven, dir, checks, verdict, files, board>>
  BY FilesNamed, ReportTyped DEF Inductive, TypeOK, Reported, Busy, args
<1>2. \A f \in FileNames : files[dir][f] = Report
  BY <1>1, FilesNamed DEF Inductive, Written, Reported
<1>3. Report.verdict = verdict
  BY DEF Report
<1>4. CASE Partial(requested, scenarios)
  <2>1. Leave(EXIT[verdict]) /\ EXIT[verdict] \in 0..3
    BY <1>1, <1>4, ExitTyped DEF Reported
  <2>2. ReportMatchesExit'
    BY <1>1, <1>2, <1>3, <2>1, LeaveMatches
  <2>3. TypeOK' /\ Started' /\ Written' /\ Complete' /\ Graded'
    BY <1>1, <2>1 DEF Inductive, TypeOK, Started, Written, Complete, Graded, Busy, Leave
  <2>4. PassIsEarned'
    BY <1>1, <2>1, ExitTyped DEF Inductive, TypeOK, Graded, PassIsEarned, Leave, Reported, Busy
  <2>. QED
    BY <2>2, <2>3, <2>4 DEF Inductive
<1>5. CASE ~Partial(requested, scenarios)
  <2>1. pc' = "publish" /\ ended' = ended /\ Report' = Report
    BY <1>1, <1>5 DEF Reported, Report
  <2>2. ReportMatchesExit'
    BY <1>1, <2>1 DEF Inductive, ReportMatchesExit, Busy
  <2>3. TypeOK' /\ Started' /\ Written' /\ PassIsEarned'
    BY <1>1, <2>1 DEF Inductive, TypeOK, Started, Written, PassIsEarned, Busy
  <2>4. Complete' /\ Graded'
    BY <1>1, <1>2, <1>5, <2>1 DEF Inductive, Complete, Graded, Reported
  <2>. QED
    BY <2>2, <2>3, <2>4 DEF Inductive
<1>. QED
  BY <1>4, <1>5

LEMMA PublishInductive ==
  ASSUME Inductive, Publish
  PROVE  Inductive'
<1>1. Busy /\ Report \in Reports /\ verdict \in Verdicts /\ Report.verdict = verdict
      /\ Leave(EXIT[verdict]) /\ EXIT[verdict] \in 0..3
      /\ UNCHANGED <<run, k, requested, scenarios, outGiven, dir, checks, verdict, files>>
  BY ReportTyped, ExitTyped DEF Inductive, TypeOK, Publish, Busy, args, Report
<1>6. board' \in Reports \cup {Missing}
  BY <1>1 DEF Inductive, TypeOK, Publish, MayTell
<1>2. \A f \in FileNames : files[dir][f] = Report
  BY DEF Inductive, Complete, Publish
<1>3. ReportMatchesExit'
  BY <1>1, <1>2, LeaveMatches
<1>4. TypeOK' /\ Started' /\ Written' /\ Complete' /\ Graded'
  BY <1>1, <1>6 DEF Inductive, TypeOK, Started, Written, Complete, Graded, Busy, Leave
<1>5. PassIsEarned'
  BY <1>1, ExitTyped DEF Inductive, TypeOK, Graded, PassIsEarned, Leave, Publish, Busy
<1>. QED
  BY <1>3, <1>4, <1>5 DEF Inductive

LEMMA NextInductive ==
  ASSUME Inductive, [Next]_vars
  PROVE  Inductive'
<1>1. CASE Launch
  BY <1>1, LaunchInductive
<1>2. CASE Environment
  BY <1>2 DEF Environment, args, Inductive, TypeOK, Started, Written, Complete, Graded,
              ReportMatchesExit, PassIsEarned, Busy
<1>3. CASE RunSuite
  <2>1. checks' \in [Suites -> SUBSET Statuses] /\ k' \in 1..4
    <3>1. PICK statuses \in IF SUITES[k] \in requested THEN Results(SUITES[k]) ELSE {{}} :
            checks' = [checks EXCEPT ![SUITES[k]] = statuses]
      BY <1>3 DEF RunSuite
    <3>2. statuses \in SUBSET Statuses
      BY <3>1, OutcomesAssumption DEF Results
    <3>. QED
      BY <1>3, <3>1, <3>2, SuitesNamed DEF RunSuite, Inductive, TypeOK
  <2>. QED
    BY <1>3, <2>1 DEF RunSuite, args, Inductive, TypeOK, Started, Written, Complete, Graded,
                      ReportMatchesExit, PassIsEarned, Busy
<1>4. CASE SuitesDone
  <2>1. VerdictOf \in Verdicts \ {"ERROR"}
        /\ (VerdictOf = "PASS" => \A s \in requested : checks[s] = {"PASS"})
    BY VerdictEarned DEF Inductive
  <2>. QED
    BY <1>4, <2>1 DEF SuitesDone, args, Inductive, TypeOK, Started, Written, Complete, Graded,
                      ReportMatchesExit, PassIsEarned, Busy
<1>5. CASE Fails
  <2>1. board' \in Reports \cup {Missing}
    BY <1>5, ReportTyped DEF Fails, MayTell, Inductive, TypeOK, Busy
  <2>. QED
    BY <1>5, <2>1 DEF Fails, args, Inductive, TypeOK, Started, Written, Complete, Graded,
                      ReportMatchesExit, PassIsEarned, Busy, Verdicts
<1>6. CASE WriteFile
  BY <1>6, WriteFileInductive
<1>7. CASE WriteThrows
  BY <1>7, WriteThrowsInductive
<1>8. CASE Reported
  BY <1>8, ReportedInductive
<1>9. CASE FailureReported
  <2>1. Leave(3) /\ Busy
        /\ UNCHANGED <<run, k, requested, scenarios, outGiven, dir, checks, verdict, files, board>>
    BY <1>9 DEF FailureReported, EXIT, Busy, args
  <2>2. ReportMatchesExit'
    BY <2>1, LeaveMatches
  <2>3. TypeOK' /\ Started' /\ Written' /\ Complete' /\ Graded' /\ PassIsEarned'
    BY <2>1 DEF Inductive, TypeOK, Started, Written, Complete, Graded, PassIsEarned, Busy, Leave
  <2>. QED
    BY <2>2, <2>3 DEF Inductive
<1>10. CASE Publish
  BY <1>10, PublishInductive
<1>11. CASE Kill
  <2>1. Leave(Killed) /\ Busy /\ Killed \notin 0..2
        /\ UNCHANGED <<run, k, requested, scenarios, outGiven, dir, checks, verdict>>
    BY <1>11 DEF Kill, Killed, args
  <2>2. /\ files' \in [Dirs -> [FileNames -> Reports \cup {Missing, Torn}]]
        /\ \A d \in Dirs : d # dir => files'[d] = files[d]
    BY <1>11, TearKeeps DEF Kill, Inductive
  <2>4. board' \in Reports \cup {Missing}
    BY <1>11, ReportTyped DEF Kill, MayTell, Inductive, TypeOK
  <2>5. ReportMatchesExit'
    BY <2>1, <2>2, LeaveMatches
  <2>6. pc' = "idle" /\ ended' \in [Dirs -> 0..3 \cup {Killed}] /\ ended'[dir] # 0
    BY <2>1 DEF Inductive, TypeOK, Leave
  <2>7. TypeOK'
    BY <2>1, <2>2, <2>4, <2>6 DEF Inductive, TypeOK
  <2>3. TypeOK' /\ Started' /\ Written' /\ Complete' /\ Graded' /\ PassIsEarned'
    BY <2>1, <2>6, <2>7 DEF Started, Written, Complete, Graded, PassIsEarned, Busy
  <2>. QED
    BY <2>3, <2>5 DEF Inductive
<1>12. CASE SinkRestarts
  BY <1>12 DEF SinkRestarts, args, Inductive, TypeOK, Started, Written, Complete, Graded,
               ReportMatchesExit, PassIsEarned, Busy, Report
<1>13. ASSUME NEW d \in Dirs, Republish(d)
       PROVE  Inductive'
  BY <1>13, MaxRunsAssumption
     DEF Republish, args, Inductive, TypeOK, Started, Written, Complete, Graded,
         ReportMatchesExit, PassIsEarned, Busy
<1>14. CASE UNCHANGED vars
  BY <1>14 DEF vars, Inductive, TypeOK, Started, Written, Complete, Graded,
               ReportMatchesExit, PassIsEarned, Busy, Report
<1>. QED
  BY <1>1, <1>2, <1>3, <1>4, <1>5, <1>6, <1>7, <1>8, <1>9, <1>10, <1>11, <1>12, <1>13, <1>14
     DEF Next, Harness

LEMMA AlwaysInductive == Spec => []Inductive
<1>1. Inductive /\ [Next]_vars => Inductive'
  BY NextInductive
<1>. QED
  BY <1>1, InitInductive, PTL DEF Spec

(* Every variable of the run keeps its type.                               *)
THEOREM TypeCorrect == Spec => []TypeOK
<1>1. Inductive => TypeOK
  BY DEF Inductive
<1>. QED
  BY <1>1, AlwaysInductive, PTL

(* Where the last run that reports to a directory ended with 0, 1 or 2,    *)
(* its three files are one report with the verdict of that code            *)
(* (run.mjs, the end of main() and fail()).                                *)
THEOREM ReportAgrees == Spec => []ReportMatchesExit
<1>1. Inductive => ReportMatchesExit
  BY DEF Inductive
<1>. QED
  BY <1>1, AlwaysInductive, PTL

(* Exit 0: every suite that was asked for has checks, and all passed       *)
(* (verdictOf and the empty-suite rule of run.mjs).                        *)
THEOREM PassEarned == Spec => []PassIsEarned
<1>1. Inductive => PassIsEarned
  BY DEF Inductive
<1>. QED
  BY <1>1, AlwaysInductive, PTL

LEMMA StepKeepsFull ==
  ASSUME Inductive, [Next]_vars, ~outGiven, requested # Suites \/ scenarios # "all"
  PROVE  files'["reports"] = files["reports"]
<1>1. ASSUME WriteFile \/ WriteThrows \/ Kill
      PROVE  files'["reports"] = files["reports"]
  <2>1. Busy /\ dir = "reports/quick"
    BY <1>1 DEF Inductive, Started, OutDirs, Partial, Busy, WriteFile, WriteThrows, Kill
  <2>2. files \in [Dirs -> [FileNames -> Reports \cup {Missing, Torn}]] /\ "reports" \in Dirs
    BY DEF Inductive, TypeOK, Dirs
  <2>. QED
    BY <1>1, <2>1, <2>2 DEF WriteFile, WriteThrows, Kill, MayTear
<1>2. ASSUME ~(WriteFile \/ WriteThrows \/ Kill)
      PROVE  UNCHANGED files
  BY <1>2 DEF Next, Harness, Launch, Environment, RunSuite, SuitesDone, Fails, Reported,
              FailureReported, Publish, SinkRestarts, Republish, vars
<1>. QED
  BY <1>1, <1>2

(* "the full run's report is never overwritten by a quick one" (run.mjs).  *)
THEOREM FullReportStays == Spec => FullReportKept
<1>1. Inductive /\ [Next]_vars =>
        [~outGiven /\ (requested # Suites \/ scenarios # "all")
           => files'["reports"] = files["reports"]]_vars
  BY StepKeepsFull
<1>. QED
  BY <1>1, AlwaysInductive, PTL DEF Spec, FullReportKept

LEMMA StepShowsComplete ==
  ASSUME Inductive, [Next]_vars, Busy, board' \notin {board, Missing}
  PROVE  /\ requested = Suites /\ scenarios = "all"
         /\ board'.verdict # "ERROR"
         /\ \A f \in FileNames : files[dir][f] = board'
<1>1. MayTell
  BY DEF Next, Harness, Launch, Environment, RunSuite, SuitesDone, Fails, Reported, WriteFile,
         WriteThrows, FailureReported, Publish, Kill, SinkRestarts, Republish, vars
<1>2. pc = "publish" /\ board' = Report
  BY <1>1 DEF MayTell
<1>. QED
  BY <1>2 DEF Inductive, Complete, Graded, Partial, Report

(* What run.mjs publishes by itself is a complete run and what its report  *)
(* files say.                                                              *)
THEOREM BoardComplete == Spec => BoardShowsCompleteRun
<1>1. Inductive /\ [Next]_vars =>
        [(Busy /\ board' \notin {board, Missing}) =>
           /\ requested = Suites /\ scenarios = "all"
           /\ board'.verdict # "ERROR"
           /\ \A f \in FileNames : files[dir][f] = board']_vars
  BY StepShowsComplete
<1>. QED
  BY <1>1, AlwaysInductive, PTL DEF Spec, BoardShowsCompleteRun

-----------------------------------------------------------------------------
(* The read-only suites.                                                   *)

Health == Of("health", DOMAIN Backend)
Links == <<"trace", "links">>
Spans == <<"trace", "spans">>

\* What may be asked: no query mixes /health with anything else.
Queries == (SUBSET Items) \cup (SUBSET Health)
Asked(queries) == UNION {queries[i] : i \in DOMAIN queries}

(* A set put into some order is a sequence of all its members.             *)
LEMMA OrderCovers ==
  ASSUME NEW S, IsFiniteSet(S)
  PROVE  /\ SetToSeq(S) \in Seq(S)
         /\ \A x \in S : \E i \in DOMAIN SetToSeq(S) : SetToSeq(S)[i] = x
<1>. DEFINE n == Cardinality(S)
            order == SetToSeq(S)
<1>1. n \in Nat /\ ExistsBijection(1..n, S)
  BY FS_CardinalityType
<1>2. PICK g : g \in Bijection(1..n, S)
  BY <1>1 DEF ExistsBijection
<1>3. g \in Injection(1..n, S)
  BY <1>2, Fun_BijectionProperties
<1>4. g \in [1..n -> S] /\ IsInjective(g)
  BY <1>3 DEF Injection
<1>5. order \in [1..n -> S] /\ IsInjective(order)
  <2>1. \E f \in [1..n -> S] : IsInjective(f)
    BY <1>4
  <2>. QED
    BY <2>1 DEF SetToSeq
<1>6. order \in Injection(1..n, S)
  BY <1>5 DEF Injection, IsInjective
<1>7. order \in Surjection(1..n, S)
  <2>1. Cardinality(1..n) = n
    BY <1>1, FS_Interval
  <2>. QED
    BY <1>6, <2>1, FS_Injection
<1>. QED
  BY <1>1, <1>5, <1>7 DEF Surjection

LEMMA EachIsAsked ==
  ASSUME NEW kind, NEW S, NEW order \in Seq(S)
  PROVE  \A n : (\E i \in DOMAIN order : order[i] = n) => <<kind, n>> \in Asked(Each(kind, order))
BY DEF Each, Asked

LEMMA EachOfSet ==
  ASSUME NEW kind, NEW S, IsFiniteSet(S)
  PROVE  Of(kind, S) \subseteq Asked(Each(kind, SetToSeq(S)))
<1>1. SetToSeq(S) \in Seq(S) /\ \A x \in S : \E i \in DOMAIN SetToSeq(S) : SetToSeq(S)[i] = x
  BY OrderCovers
<1>. QED
  BY <1>1, EachIsAsked DEF Of

LEMMA EachTyped ==
  ASSUME NEW kind, NEW S, NEW order \in Seq(S), NEW Q, \A n \in S : {<<kind, n>>} \in Q
  PROVE  Each(kind, order) \in Seq(Q)
<1>1. Len(order) \in Nat /\ DOMAIN order = 1..Len(order)
  OBVIOUS
<1>2. Each(kind, order) \in [1..Len(order) -> Q]
  BY <1>1 DEF Each
<1>. QED
  BY <1>1, <1>2

LEMMA AskedConcat ==
  ASSUME NEW Q, NEW s \in Seq(Q), NEW t \in Seq(Q)
  PROVE  Asked(s \o t) = Asked(s) \cup Asked(t)
<1>1. \A i \in DOMAIN s : i \in DOMAIN (s \o t) /\ (s \o t)[i] = s[i]
  OBVIOUS
<1>2. \A i \in DOMAIN t : Len(s) + i \in DOMAIN (s \o t) /\ (s \o t)[Len(s) + i] = t[i]
  OBVIOUS
<1>3. ASSUME NEW i \in DOMAIN (s \o t)
      PROVE  \/ i \in DOMAIN s /\ (s \o t)[i] = s[i]
             \/ i - Len(s) \in DOMAIN t /\ (s \o t)[i] = t[i - Len(s)]
  OBVIOUS
<1>4. Asked(s \o t) \subseteq Asked(s) \cup Asked(t)
  BY <1>3 DEF Asked
<1>5. Asked(s) \cup Asked(t) \subseteq Asked(s \o t)
  BY <1>1, <1>2 DEF Asked
<1>. QED
  BY <1>4, <1>5

LEMMA AskedHead ==
  ASSUME NEW Q, NEW s \in Seq(Q), s # << >>
  PROVE  Head(s) \in Q /\ Tail(s) \in Seq(Q) /\ Asked(s) = Head(s) \cup Asked(Tail(s))
<1>1. Head(s) \in Q /\ Tail(s) \in Seq(Q) /\ 1 \in DOMAIN s /\ Head(s) = s[1]
  OBVIOUS
<1>2. \A i \in DOMAIN Tail(s) : i + 1 \in DOMAIN s /\ Tail(s)[i] = s[i + 1]
  OBVIOUS
<1>3. \A i \in DOMAIN s : i = 1 \/ (i - 1 \in DOMAIN Tail(s) /\ Tail(s)[i - 1] = s[i])
  OBVIOUS
<1>4. Asked(s) \subseteq Head(s) \cup Asked(Tail(s))
  BY <1>1, <1>3 DEF Asked
<1>5. Head(s) \cup Asked(Tail(s)) \subseteq Asked(s)
  BY <1>1, <1>2 DEF Asked
<1>. QED
  BY <1>1, <1>4, <1>5

-----------------------------------------------------------------------------
(* The queries of the blocks: none mixes kinds, none asks for links of its *)
(* own accord, and all that a FAIL may blame is among them.                *)
Opening == {q \in Queries : Links \notin q}

LEMMA ItemsNamed ==
  /\ \A m \in Metrics : <<"metric", m>> \in Items
  /\ Of("sli", Slis) \subseteq Items /\ Of("family", Families) \subseteq Items
  /\ Of("board", Dashboards \ Templated) \subseteq Items /\ Of("series", Records) \subseteq Items
  /\ RulesApi \subseteq Items /\ Firing \subseteq Items /\ Services \subseteq Items
  /\ Of("datasource", DOMAIN Backend) \subseteq Items /\ Of("log", {"ibmmq", "apps"}) \subseteq Items
  /\ <<"trace", "services">> \in Items /\ Spans \in Items /\ Links \in Items
<1>1. \A m \in Metrics : <<"metric", m>> \in Items
  <2>. SUFFICES ASSUME NEW m \in Metrics PROVE <<"metric", m>> \in Items
    OBVIOUS
  <2>1. CASE m \in Metrics \ {"put errors", "failed"}
    BY <2>1 DEF Items, Data, Of
  <2>2. CASE m \in Metrics \ {"sent"}
    BY <2>2 DEF Items, Values, Of
  <2>. QED
    BY <2>1, <2>2
<1>. QED
  BY <1>1 DEF Items, Data, Values, Of, Spans, Links

LEMMA SingleOpens ==
  ASSUME NEW x \in Items \cup Health, x # Links
  PROVE  {x} \in Opening
BY DEF Opening, Queries

LEMMA OrderOpens ==
  ASSUME NEW kind, NEW S, IsFiniteSet(S), Of(kind, S) \subseteq Items, kind # "trace"
  PROVE  Each(kind, SetToSeq(S)) \in Seq(Opening)
<1>1. \A n \in S : {<<kind, n>>} \in Opening
  BY SingleOpens DEF Links, Of
<1>2. SetToSeq(S) \in Seq(S)
  BY OrderCovers
<1>. QED
  BY <1>1, <1>2, EachTyped

LEMMA ListOpens ==
  ASSUME NEW kind, NEW S, NEW order \in Seq(S), \A n \in S : <<kind, n>> \in Items \cup Health,
         kind # "trace" \/ "links" \notin S
  PROVE  Each(kind, order) \in Seq(Opening)
<1>1. \A n \in S : {<<kind, n>>} \in Opening
  BY SingleOpens DEF Links
<1>. QED
  BY <1>1, EachTyped

LEMMA BlockFields ==
  /\ Len(Blocks) = 12
  /\ Blocks[1].rows = {"C1"} /\ Blocks[2].rows = {"C2"} /\ Blocks[3].rows = {"C3"}
  /\ Blocks[4].rows = {"C4", "C5"} /\ Blocks[5].rows = {"C6"} /\ Blocks[6].rows = {"C7"}
  /\ Blocks[7].rows = {"C8"} /\ Blocks[8].rows = {"C9"} /\ Blocks[9].rows = {"C10"}
  /\ Blocks[10].rows = {"S1", "S2", "S3"} /\ Blocks[11].rows = {"S4"}
  /\ Blocks[12].rows = {"S5", "S6"}
  /\ Blocks[1].asks = << >>
  /\ Blocks[2].asks = Each("metric", <<"native", "exporter">>)
  /\ Blocks[3].asks = Each("sli", SetToSeq(Slis))
  /\ Blocks[4].asks = << RulesApi >>
  /\ Blocks[5].asks = Each("family", SetToSeq(Families))
  /\ Blocks[6].asks = Each("board", SetToSeq(Dashboards \ Templated))
                        \o Each("health", <<"prom", "loki", "tempo", "alertmanager">>)
  /\ Blocks[7].asks = Each("log", <<"ibmmq", "apps">>)
  /\ Blocks[8].asks = Each("trace", <<"services", "spans">>)
  /\ Blocks[9].asks = Each("metric", <<"failed", "sent">>)
  /\ Blocks[10].asks = Each("metric", <<"attempts", "success", "p99">>)
  /\ Blocks[11].asks = Each("metric", <<"produced", "consumed", "put errors", "headroom", "age">>)
  /\ Blocks[12].asks = << Firing >>
BY DEF Blocks

LEMMA EntryAsked ==
  ASSUME NEW kind, NEW order, NEW i \in DOMAIN order
  PROVE  <<kind, order[i]>> \in Asked(Each(kind, order))
BY DEF Each, Asked

LEMMA ListAsked ==
  /\ {<<"metric", "native">>, <<"metric", "exporter">>} \subseteq Asked(Blocks[2].asks)
  /\ {<<"log", "ibmmq">>, <<"log", "apps">>} \subseteq Asked(Blocks[7].asks)
  /\ {<<"trace", "services">>, Spans} \subseteq Asked(Blocks[8].asks)
  /\ {<<"metric", "attempts">>, <<"metric", "success">>} \subseteq Asked(Blocks[10].asks)
  /\ {<<"metric", "produced">>, <<"metric", "consumed">>} \subseteq Asked(Blocks[11].asks)
  /\ RulesApi \subseteq Asked(Blocks[4].asks)
<1>. DEFINE pair(kind, a, b) == Each(kind, <<a, b>>)
<1>1. ASSUME NEW kind, NEW a, NEW b PROVE {<<kind, a>>, <<kind, b>>} \subseteq Asked(pair(kind, a, b))
  <2>. DEFINE order == <<a, b>>
  <2>1. 1 \in DOMAIN order /\ order[1] = a /\ 2 \in DOMAIN order /\ order[2] = b
    OBVIOUS
  <2>. HIDE DEF order
  <2>2. <<kind, order[1]>> \in Asked(Each(kind, order)) /\ <<kind, order[2]>> \in Asked(Each(kind, order))
    BY <2>1, EntryAsked
  <2>. QED
    BY <2>1, <2>2 DEF order
<1>2. {<<"metric", "attempts">>, <<"metric", "success">>} \subseteq Asked(Blocks[10].asks)
  <2>. DEFINE order == <<"attempts", "success", "p99">>
  <2>1. 1 \in DOMAIN order /\ order[1] = "attempts" /\ 2 \in DOMAIN order /\ order[2] = "success"
    OBVIOUS
  <2>2. Blocks[10].asks = Each("metric", order)
    BY BlockFields
  <2>. HIDE DEF order
  <2>. QED
    BY <2>1, <2>2, EntryAsked
<1>3. {<<"metric", "produced">>, <<"metric", "consumed">>} \subseteq Asked(Blocks[11].asks)
  <2>. DEFINE order == <<"produced", "consumed", "put errors", "headroom", "age">>
  <2>1. 1 \in DOMAIN order /\ order[1] = "produced" /\ 2 \in DOMAIN order /\ order[2] = "consumed"
    OBVIOUS
  <2>2. Blocks[11].asks = Each("metric", order)
    BY BlockFields
  <2>. HIDE DEF order
  <2>. QED
    BY <2>1, <2>2, EntryAsked
<1>4. RulesApi \subseteq Asked(Blocks[4].asks)
  <2>1. Blocks[4].asks = << RulesApi >>
    BY BlockFields
  <2>. QED
    BY <2>1 DEF Asked
<1>5. /\ Blocks[2].asks = pair("metric", "native", "exporter")
      /\ Blocks[7].asks = pair("log", "ibmmq", "apps")
      /\ Blocks[8].asks = pair("trace", "services", "spans")
  BY BlockFields
<1>. HIDE DEF pair
<1>. QED
  BY <1>1, <1>2, <1>3, <1>4, <1>5 DEF Spans

(* Block 6 asks for the boards and for the health of every datasource.     *)
LEMMA BoardsAsked ==
  /\ Of("board", Dashboards \ Templated) \subseteq Asked(Blocks[6].asks)
  /\ Health \subseteq Asked(Blocks[6].asks)
  /\ Blocks[6].asks \in Seq(Opening)
<1>. DEFINE boards == Each("board", SetToSeq(Dashboards \ Templated))
            names == <<"prom", "loki", "tempo", "alertmanager">>
            health == Each("health", names)
<1>1. IsFiniteSet(Dashboards \ Templated)
  BY PackAssumption, FS_Subset
<1>2. boards \in Seq(Opening)
  BY <1>1, ItemsNamed, OrderOpens
<1>3. DOMAIN Backend = {"prom", "loki", "tempo", "alertmanager"}
  BY DEF Backend
<1>4. names \in Seq(DOMAIN Backend)
  BY <1>3
<1>5. \A n \in DOMAIN Backend : <<"health", n>> \in Items \cup Health
  BY DEF Health, Of
<1>6. health \in Seq(Opening)
  BY <1>4, <1>5, ListOpens
<1>7. Blocks[6].asks = boards \o health
  BY BlockFields
<1>8. Of("board", Dashboards \ Templated) \subseteq Asked(boards)
  BY <1>1, EachOfSet
<1>9. Health \subseteq Asked(health)
  <2>1. 1 \in DOMAIN names /\ 2 \in DOMAIN names /\ 3 \in DOMAIN names /\ 4 \in DOMAIN names
        /\ names[1] = "prom" /\ names[2] = "loki" /\ names[3] = "tempo" /\ names[4] = "alertmanager"
    OBVIOUS
  <2>. HIDE DEF names
  <2>2. /\ <<"health", names[1]>> \in Asked(health) /\ <<"health", names[2]>> \in Asked(health)
        /\ <<"health", names[3]>> \in Asked(health) /\ <<"health", names[4]>> \in Asked(health)
    BY <2>1, EntryAsked
  <2>. HIDE DEF health
  <2>. QED
    BY <2>1, <2>2, <1>3 DEF Health, Of
<1>. HIDE DEF boards, health
<1>10. boards \o health \in Seq(Opening)
  BY <1>2, <1>6
<1>11. Asked(boards \o health) = Asked(boards) \cup Asked(health)
  BY <1>2, <1>6, AskedConcat
<1>. QED
  BY <1>7, <1>8, <1>9, <1>10, <1>11

LEMMA MetricsOpen ==
  ASSUME NEW order \in Seq(Metrics)
  PROVE  Each("metric", order) \in Seq(Opening)
<1>1. \A n \in Metrics : <<"metric", n>> \in Items \cup Health
  BY ItemsNamed
<1>. QED
  BY <1>1, ListOpens

LEMMA BlocksOpen ==
  ASSUME NEW b \in 1..12
  PROVE  Blocks[b].asks \in Seq(Opening)
<1>1. CASE b = 1
  <2>1. Blocks[1].asks = << >>
    BY BlockFields
  <2>. QED
    BY <1>1, <2>1
<1>2. CASE b \in {2, 9, 10, 11}
  <2>1. /\ Blocks[2].asks = Each("metric", <<"native", "exporter">>)
        /\ Blocks[9].asks = Each("metric", <<"failed", "sent">>)
        /\ Blocks[10].asks = Each("metric", <<"attempts", "success", "p99">>)
        /\ Blocks[11].asks = Each("metric", <<"produced", "consumed", "put errors", "headroom", "age">>)
    BY BlockFields
  <2>2. <<"native", "exporter">> \in Seq(Metrics) /\ <<"failed", "sent">> \in Seq(Metrics)
    BY DEF Metrics
  <2>3. <<"attempts", "success", "p99">> \in Seq(Metrics)
    BY DEF Metrics
  <2>4. <<"produced", "consumed", "put errors", "headroom", "age">> \in Seq(Metrics)
    BY DEF Metrics
  <2>5. Blocks[2].asks \in Seq(Opening) /\ Blocks[9].asks \in Seq(Opening)
    BY <2>1, <2>2, MetricsOpen
  <2>6. Blocks[10].asks \in Seq(Opening)
    BY <2>1, <2>3, MetricsOpen
  <2>7. Blocks[11].asks \in Seq(Opening)
    BY <2>1, <2>4, MetricsOpen
  <2>. QED
    BY <1>2, <2>5, <2>6, <2>7
<1>3. CASE b \in {3, 5}
  <2>1. Blocks[3].asks = Each("sli", SetToSeq(Slis)) /\ Blocks[5].asks = Each("family", SetToSeq(Families))
    BY BlockFields
  <2>2. Each("sli", SetToSeq(Slis)) \in Seq(Opening)
    BY PackAssumption, ItemsNamed, OrderOpens
  <2>3. Each("family", SetToSeq(Families)) \in Seq(Opening)
    BY PackAssumption, ItemsNamed, OrderOpens
  <2>. QED
    BY <1>3, <2>1, <2>2, <2>3
<1>4. CASE b \in {4, 12}
  <2>1. Blocks[4].asks = << RulesApi >> /\ Blocks[12].asks = << Firing >>
    BY BlockFields
  <2>2. RulesApi \in Opening
    BY ItemsNamed DEF Opening, Queries, RulesApi, Of, Links
  <2>3. Firing \in Opening
    BY ItemsNamed DEF Opening, Queries, Firing, Of, Links
  <2>4. ASSUME NEW q \in Opening PROVE << q >> \in Seq(Opening)
    OBVIOUS
  <2>5. Blocks[4].asks \in Seq(Opening) /\ Blocks[12].asks \in Seq(Opening)
    BY <2>1, <2>2, <2>3, <2>4
  <2>. QED
    BY <1>4, <2>5
<1>5. CASE b = 6
  BY <1>5, BoardsAsked
<1>6. CASE b = 7
  <2>1. Blocks[7].asks = Each("log", <<"ibmmq", "apps">>)
    BY BlockFields
  <2>2. \A n \in {"ibmmq", "apps"} : <<"log", n>> \in Items \cup Health
    BY ItemsNamed DEF Of
  <2>3. <<"ibmmq", "apps">> \in Seq({"ibmmq", "apps"})
    OBVIOUS
  <2>4. Each("log", <<"ibmmq", "apps">>) \in Seq(Opening)
    BY <2>2, <2>3, ListOpens
  <2>. QED
    BY <1>6, <2>1, <2>4
<1>7. CASE b = 8
  <2>1. Blocks[8].asks = Each("trace", <<"services", "spans">>)
    BY BlockFields
  <2>2. \A n \in {"services", "spans"} : <<"trace", n>> \in Items \cup Health
    BY ItemsNamed DEF Spans
  <2>3. <<"services", "spans">> \in Seq({"services", "spans"}) /\ "links" \notin {"services", "spans"}
    OBVIOUS
  <2>4. Each("trace", <<"services", "spans">>) \in Seq(Opening)
    BY <2>2, <2>3, ListOpens
  <2>. QED
    BY <1>7, <2>1, <2>4
<1>. QED
  BY <1>1, <1>2, <1>3, <1>4, <1>5, <1>6, <1>7

-----------------------------------------------------------------------------
(* What the run knows.  An answer is evidence of its item at some moment   *)
(* of the block (Evidence); every query of the block is sent, or still to  *)
(* be (Sent), and so is what depends on its answer (FollowedUp); links are *)
(* looked for only once spans were found.                                  *)
Pending(x) == x \in DOMAIN ans \/ x \in Asked(todo)

Typed ==
  /\ block \in 1..13 /\ todo \in Seq(Queries) /\ poor \subseteq Values
  /\ block = 13 => todo = << >>
Current == Good \subseteq held /\ Bad \subseteq lapsed
Evidence ==
  /\ \A x \in Items \cap DOMAIN ans : x \in (IF ans[x] = "good" THEN held ELSE lapsed)
  /\ \A d \in DOMAIN Backend :
       <<"health", d>> \in DOMAIN ans /\ ans[<<"health", d>>] = "good"
         => <<"datasource", d>> \in held
  /\ \A x \in DOMAIN ans :
       ans[x] \in {"good", "none"} \/ (ans[x] = "poor" /\ x \in Values)
Sent == block <= 12 => \A x \in Asked(Blocks[block].asks) : Pending(x)
FollowedUp ==
  /\ \A r \in Records :
       <<"rule", r>> \in DOMAIN ans /\ ans[<<"rule", r>>] # "none" => Pending(<<"series", r>>)
  /\ \A d \in DOMAIN Backend :
       <<"health", d>> \in DOMAIN ans /\ ans[<<"health", d>>] # "good"
         => Pending(<<"datasource", d>>)
  /\ Pending(Links) => Spans \in held

Knows == Typed /\ Current /\ Evidence /\ Sent /\ FollowedUp

(* A datasource whose /health is good is good.                             *)
LEMMA HealthIsDatasource ==
  ASSUME Typed, NEW d \in DOMAIN Backend, Look(<<"health", d>>) = "good"
  PROVE  <<"datasource", d>> \in Good
<1>. DEFINE h == <<"health", d>>
            x == <<"datasource", d>>
<1>1. Needs(h) = Needs(x)
  BY DEF Needs
<1>2. x \notin Values
  BY DEF Values, Firing, Of
<1>3. x \notin missing /\ Of("service", Needs(h)) \cap missing = {}
  BY DEF Look
<1>4. Look(x) = "good"
  BY <1>1, <1>2, <1>3 DEF Look, Typed
<1>5. x \in Items
  BY ItemsNamed DEF Of
<1>. QED
  BY <1>4, <1>5 DEF Good

LEMMA InitKnows ==
  ASSUME ChecksInit
  PROVE  Knows
<1>1. Typed /\ Current
  BY DEF ChecksInit, Typed, Current
<1>2. Asked(todo) = {} /\ DOMAIN ans = {}
  BY DEF ChecksInit, Asked
<1>3. Sent
  <2>1. Blocks[1].asks = << >>
    BY BlockFields
  <2>. QED
    BY <2>1 DEF Sent, ChecksInit, Asked
<1>. QED
  BY <1>1, <1>2, <1>3 DEF Knows, Evidence, FollowedUp, Pending

(* What comes and goes beside the harness only adds to the history.        *)
LEMMA WorldKnows ==
  ASSUME Knows, Witness, UNCHANGED <<block, todo, ans>>, poor' \subseteq Values
  PROVE  Knows'
<1>1. held \subseteq held' /\ lapsed \subseteq lapsed' /\ Good' \subseteq held' /\ Bad' \subseteq lapsed'
  BY DEF Witness
<1>2. Typed' /\ Current'
  BY <1>1 DEF Knows, Typed, Current
<1>3. Evidence'
  BY <1>1 DEF Knows, Evidence
<1>4. Sent' /\ FollowedUp'
  BY <1>1 DEF Knows, Sent, FollowedUp, Pending
<1>. QED
  BY <1>2, <1>3, <1>4 DEF Knows

(* A note of some items is evidence of each.                               *)
LEMMA NoteIsEvidence ==
  ASSUME Knows, NEW items \in SUBSET (Items \cup Health), ans' = Note(items),
         held' = held, lapsed' = lapsed
  PROVE  /\ Evidence' /\ DOMAIN ans' = items \cup DOMAIN ans
         /\ \A x \in DOMAIN ans' : ans'[x] = IF x \in items THEN Look(x) ELSE ans[x]
<1>1. DOMAIN ans' = items \cup DOMAIN ans
      /\ \A x \in DOMAIN ans' : ans'[x] = IF x \in items THEN Look(x) ELSE ans[x]
  BY DEF Note
<1>2. \A x \in Items : Look(x) = "good" => x \in held
  BY DEF Knows, Current, Good
<1>3. \A x \in Items : Look(x) # "good" => x \in lapsed
  BY DEF Knows, Current, Good, Bad
<1>4. \A d \in DOMAIN Backend : Look(<<"health", d>>) = "good" => <<"datasource", d>> \in held
  BY HealthIsDatasource DEF Knows, Current
<1>5. ASSUME NEW x \in Items \cap DOMAIN ans'
      PROVE  x \in (IF ans'[x] = "good" THEN held' ELSE lapsed')
  <2>1. CASE x \in items
    BY <1>1, <1>2, <1>3, <2>1
  <2>2. CASE x \notin items
    BY <1>1, <2>2 DEF Knows, Evidence
  <2>. QED
    BY <2>1, <2>2
<1>6. ASSUME NEW d \in DOMAIN Backend, <<"health", d>> \in DOMAIN ans',
             ans'[<<"health", d>>] = "good"
      PROVE  <<"datasource", d>> \in held'
  <2>1. CASE <<"health", d>> \in items
    BY <1>1, <1>4, <1>6, <2>1
  <2>2. CASE <<"health", d>> \notin items
    BY <1>1, <1>6, <2>2 DEF Knows, Evidence
  <2>. QED
    BY <2>1, <2>2
<1>7. ASSUME NEW x \in DOMAIN ans'
      PROVE  ans'[x] \in {"good", "none"} \/ (ans'[x] = "poor" /\ x \in Values)
  <2>1. CASE x \in items
    <3>1. Look(x) \in {"good", "none"} \/ (Look(x) = "poor" /\ x \in Values)
      BY DEF Look, Knows, Typed
    <3>. QED
      BY <1>1, <2>1, <3>1
  <2>2. CASE x \notin items
    BY <1>1, <2>2 DEF Knows, Evidence
  <2>. QED
    BY <2>1, <2>2
<1>8. Evidence'
  BY <1>5, <1>6, <1>7 DEF Evidence
<1>. QED
  BY <1>1, <1>8

LEMMA PingKnows ==
  ASSUME Knows, NEW s \in Services, Ping(s)
  PROVE  Knows'
<1>1. {s} \in SUBSET (Items \cup Health)
  BY ItemsNamed
<1>2. ans' = Note({s}) /\ UNCHANGED <<missing, poor, block, todo, held, lapsed>>
  BY DEF Ping, world
<1>3. /\ Evidence' /\ DOMAIN ans' = {s} \cup DOMAIN ans
      /\ \A x \in DOMAIN ans' : ans'[x] = IF x \in {s} THEN Look(x) ELSE ans[x]
  BY <1>1, <1>2, NoteIsEvidence
<1>4. Typed'
  BY <1>2 DEF Knows, Typed
<1>5. Current'
  BY <1>2 DEF Knows, Current, Good, Bad, Look
<1>6. \A x : Pending(x) => Pending(x)'
  BY <1>2, <1>3 DEF Pending
<1>7. Sent'
  BY <1>2, <1>6 DEF Knows, Sent
<1>8. s[1] = "service"
  BY DEF Services, Of
<1>9. FollowedUp'
  <2>1. \A x \in DOMAIN ans' : x # s => x \in DOMAIN ans /\ ans'[x] = ans[x]
    BY <1>3
  <2>2. /\ \A r : <<"rule", r>> # s
        /\ \A d : <<"health", d>> # s
        /\ Links # s
    BY <1>8 DEF Links
  <2>3. ASSUME NEW r \in Records, <<"rule", r>> \in DOMAIN ans', ans'[<<"rule", r>>] # "none"
        PROVE  Pending(<<"series", r>>)'
    BY <1>6, <2>1, <2>2, <2>3 DEF Knows, FollowedUp
  <2>4. ASSUME NEW d \in DOMAIN Backend, <<"health", d>> \in DOMAIN ans',
               ans'[<<"health", d>>] # "good"
        PROVE  Pending(<<"datasource", d>>)'
    BY <1>6, <2>1, <2>2, <2>4 DEF Knows, FollowedUp
  <2>5. ASSUME Pending(Links)' PROVE Spans \in held'
    BY <1>2, <2>1, <2>2, <2>5 DEF Knows, FollowedUp, Pending
  <2>. QED
    BY <2>3, <2>4, <2>5 DEF FollowedUp
<1>. QED
  BY <1>3, <1>4, <1>5, <1>7, <1>9 DEF Knows

LEMMA EachAsksItsKind ==
  ASSUME NEW kind, NEW order, NEW x \in Asked(Each(kind, order))
  PROVE  x[1] = kind
<1>1. PICK i \in DOMAIN order : x = <<kind, order[i]>>
  BY DEF Asked, Each
<1>. QED
  BY <1>1

LEMMA BackendsFinite == IsFiniteSet(DOMAIN Backend)
<1>1. DOMAIN Backend = ((({} \cup {"prom"}) \cup {"loki"}) \cup {"tempo"}) \cup {"alertmanager"}
  BY DEF Backend
<1>2. IsFiniteSet({} \cup {"prom"})
  BY FS_EmptySet, FS_AddElement
<1>3. IsFiniteSet(({} \cup {"prom"}) \cup {"loki"})
  BY <1>2, FS_AddElement
<1>4. IsFiniteSet((({} \cup {"prom"}) \cup {"loki"}) \cup {"tempo"})
  BY <1>3, FS_AddElement
<1>5. IsFiniteSet(((({} \cup {"prom"}) \cup {"loki"}) \cup {"tempo"}) \cup {"alertmanager"})
  BY <1>4, FS_AddElement
<1>. QED
  BY <1>1, <1>5

(* What a query's answer makes the harness ask next.                       *)
LEMMA FollowUpsFollow ==
  ASSUME NEW query \in Queries
  PROVE  LET next == FollowUps(query, [x \in query |-> Look(x)]) IN
         /\ next \in Seq(Queries)
         /\ \A r \in Records : <<"rule", r>> \in query /\ Look(<<"rule", r>>) # "none"
              => <<"series", r>> \in Asked(next)
         /\ \A d \in DOMAIN Backend : <<"health", d>> \in query /\ Look(<<"health", d>>) # "good"
              => <<"datasource", d>> \in Asked(next)
         /\ Links \in Asked(next) => Spans \in query /\ Look(Spans) = "good"
<1>. DEFINE next == FollowUps(query, [x \in query |-> Look(x)])
            loaded == {r \in Records : <<"rule", r>> \in query /\ Look(<<"rule", r>>) # "none"}
            unsure == {d \in DOMAIN Backend :
                         <<"health", d>> \in query /\ Look(<<"health", d>>) # "good"}
<1>1. next = IF loaded # {} THEN Each("series", SetToSeq(loaded))
             ELSE IF unsure # {} THEN Each("datasource", SetToSeq(unsure))
             ELSE IF Spans \in query /\ Look(Spans) = "good" THEN << {Links} >>
             ELSE << >>
  <2>. DEFINE seen == [x \in query |-> Look(x)]
  <2>1. loaded = {r \in Records : <<"rule", r>> \in query /\ seen[<<"rule", r>>] # "none"}
    OBVIOUS
  <2>2. unsure = {d \in DOMAIN Backend : <<"health", d>> \in query /\ seen[<<"health", d>>] # "good"}
    OBVIOUS
  <2>3. (Spans \in query /\ Look(Spans) = "good") <=> (Spans \in query /\ seen[Spans] = "good")
    OBVIOUS
  <2>4. next = FollowUps(query, seen)
    OBVIOUS
  <2>. HIDE DEF next, seen, loaded, unsure
  <2>. QED
    BY <2>1, <2>2, <2>3, <2>4 DEF FollowUps, Spans, Links
<1>2. IsFiniteSet(loaded) /\ IsFiniteSet(unsure)
  BY PackAssumption, BackendsFinite, FS_Subset
<1>3. \A n \in Records : {<<"series", n>>} \in Queries
  BY ItemsNamed DEF Queries, Of
<1>4. \A n \in DOMAIN Backend : {<<"datasource", n>>} \in Queries
  BY ItemsNamed DEF Queries, Of
<1>5. {Links} \in Queries
  BY ItemsNamed DEF Queries
<1>6. loaded = {} \/ unsure = {}
  <2>1. \A x \in Health : x[1] = "health"
    BY DEF Health, Of
  <2>2. \A x \in Items : x[1] # "health"
    <3>1. ASSUME NEW kind, NEW names, NEW x \in Of(kind, names) PROVE x[1] = kind
      BY DEF Of
    <3>. QED
      BY <3>1 DEF Items, Services, Data, Values, RulesApi, Firing
  <2>3. ASSUME NEW r \in loaded, NEW d \in unsure PROVE FALSE
    <3>1. <<"rule", r>> \in query /\ <<"health", d>> \in query
      OBVIOUS
    <3>2. <<"rule", r>>[1] = "rule" /\ <<"health", d>>[1] = "health"
      OBVIOUS
    <3>. QED
      BY <2>1, <2>2, <3>1, <3>2 DEF Queries
  <2>. QED
    BY <2>3
<1>7. loaded \subseteq Records /\ unsure \subseteq DOMAIN Backend
  OBVIOUS
<1>8. /\ \A r \in Records : <<"rule", r>> \in query /\ Look(<<"rule", r>>) # "none" => r \in loaded
      /\ \A d \in DOMAIN Backend : <<"health", d>> \in query /\ Look(<<"health", d>>) # "good"
           => d \in unsure
  OBVIOUS
<1>. HIDE DEF next, loaded, unsure
<1>9. /\ Each("series", SetToSeq(loaded)) \in Seq(Queries)
      /\ Each("datasource", SetToSeq(unsure)) \in Seq(Queries)
  <2>1. SetToSeq(loaded) \in Seq(loaded) /\ SetToSeq(unsure) \in Seq(unsure)
    BY <1>2, OrderCovers
  <2>2. (\A n \in loaded : {<<"series", n>>} \in Queries)
        /\ (\A n \in unsure : {<<"datasource", n>>} \in Queries)
    BY <1>3, <1>4, <1>7
  <2>. QED
    BY <2>1, <2>2, EachTyped
<1>10. /\ \A r \in loaded : <<"series", r>> \in Asked(Each("series", SetToSeq(loaded)))
       /\ \A d \in unsure : <<"datasource", d>> \in Asked(Each("datasource", SetToSeq(unsure)))
  BY <1>2, EachOfSet DEF Of
<1>11. /\ Links \notin Asked(Each("series", SetToSeq(loaded)))
       /\ Links \notin Asked(Each("datasource", SetToSeq(unsure)))
       /\ Links \notin Asked(<< >>)
  BY EachAsksItsKind DEF Links, Asked
<1>12. << {Links} >> \in Seq(Queries) /\ << >> \in Seq(Queries)
  BY <1>5
<1>13. next \in Seq(Queries)
  BY <1>1, <1>9, <1>12
<1>14. \A r \in loaded : <<"series", r>> \in Asked(next)
  BY <1>1, <1>10
<1>15. \A d \in unsure : <<"datasource", d>> \in Asked(next)
  BY <1>1, <1>6, <1>10
<1>16. Links \in Asked(next) => Spans \in query /\ Look(Spans) = "good"
  BY <1>1, <1>11
<1>. QED
  BY <1>8, <1>13, <1>14, <1>15, <1>16 DEF next

LEMMA AskKnows ==
  ASSUME Knows, Ask
  PROVE  Knows'
<1>. DEFINE query == Head(todo)
            next == FollowUps(query, [x \in query |-> Look(x)])
<1>1. todo \in Seq(Queries) /\ todo # << >>
  BY DEF Ask, Knows, Typed
<1>2. query \in Queries /\ Tail(todo) \in Seq(Queries) /\ Asked(todo) = query \cup Asked(Tail(todo))
  BY <1>1, AskedHead
<1>3. /\ ans' = Note(query) /\ todo' = next \o Tail(todo)
      /\ UNCHANGED <<missing, poor, block, held, lapsed>>
  BY DEF Ask, world
<1>. HIDE DEF query
<1>4. /\ next \in Seq(Queries)
      /\ \A r \in Records : <<"rule", r>> \in query /\ Look(<<"rule", r>>) # "none"
           => <<"series", r>> \in Asked(next)
      /\ \A d \in DOMAIN Backend : <<"health", d>> \in query /\ Look(<<"health", d>>) # "good"
           => <<"datasource", d>> \in Asked(next)
      /\ Links \in Asked(next) => Spans \in query /\ Look(Spans) = "good"
  BY <1>2, FollowUpsFollow
<1>. HIDE DEF next
<1>5. todo' \in Seq(Queries) /\ Asked(todo') = Asked(next) \cup Asked(Tail(todo))
  <2>. DEFINE rest == Tail(todo)
  <2>1. rest \in Seq(Queries) /\ todo' = next \o rest
    BY <1>2, <1>3
  <2>. HIDE DEF rest
  <2>2. Asked(next \o rest) = Asked(next) \cup Asked(rest)
    BY <1>4, <2>1, AskedConcat
  <2>3. next \o rest \in Seq(Queries)
    BY <1>4, <2>1
  <2>. QED
    BY <2>1, <2>2, <2>3 DEF rest
<1>6. query \in SUBSET (Items \cup Health)
  BY <1>2 DEF Queries
<1>7. /\ Evidence' /\ DOMAIN ans' = query \cup DOMAIN ans
      /\ \A x \in DOMAIN ans' : ans'[x] = IF x \in query THEN Look(x) ELSE ans[x]
  BY <1>3, <1>6, NoteIsEvidence
<1>8. \A x : Pending(x) => Pending(x)'
  BY <1>2, <1>5, <1>7 DEF Pending
<1>9. \A x \in Asked(next) : Pending(x)'
  BY <1>5 DEF Pending
<1>10. Typed'
  BY <1>1, <1>3, <1>5 DEF Knows, Typed
<1>11. Current'
  BY <1>3 DEF Knows, Current, Good, Bad, Look
<1>12. Sent'
  BY <1>3, <1>8 DEF Knows, Sent
<1>13. ASSUME NEW r \in Records, <<"rule", r>> \in DOMAIN ans', ans'[<<"rule", r>>] # "none"
       PROVE  Pending(<<"series", r>>)'
  BY <1>4, <1>7, <1>8, <1>9, <1>13 DEF Knows, FollowedUp
<1>14. ASSUME NEW d \in DOMAIN Backend, <<"health", d>> \in DOMAIN ans',
              ans'[<<"health", d>>] # "good"
       PROVE  Pending(<<"datasource", d>>)'
  BY <1>4, <1>7, <1>8, <1>9, <1>14 DEF Knows, FollowedUp
<1>15. ASSUME Pending(Links)' PROVE Spans \in held'
  <2>1. CASE Links \in Asked(next)
    <3>1. Look(Spans) = "good" /\ Spans \in Items
      BY <1>4, <2>1, ItemsNamed
    <3>. QED
      BY <1>3, <3>1 DEF Knows, Current, Good
  <2>2. CASE Links \notin Asked(next)
    <3>1. Pending(Links)
      BY <1>2, <1>5, <1>7, <1>15, <2>2 DEF Pending
    <3>. QED
      BY <1>3, <3>1 DEF Knows, FollowedUp
  <2>. QED
    BY <2>1, <2>2
<1>16. FollowedUp'
  BY <1>13, <1>14, <1>15 DEF FollowedUp
<1>. QED
  BY <1>7, <1>10, <1>11, <1>12, <1>16 DEF Knows

LEMMA ConcludeKnows ==
  ASSUME Knows, Conclude
  PROVE  Knows'
<1>1. block \in 1..12 /\ block' = block + 1 /\ Len(Blocks) = 12
  <2>1. Len(Blocks) = 12
    BY BlockFields
  <2>. QED
    BY <2>1 DEF Conclude, Running, Knows, Typed
<1>2. UNCHANGED <<missing, poor>> /\ ans' = << >> /\ held' = Good /\ lapsed' = Bad
      /\ todo' = IF block < 12 THEN Blocks[block + 1].asks ELSE << >>
  BY <1>1 DEF Conclude, world
<1>3. todo' \in Seq(Opening)
  <2>1. CASE block < 12
    <3>1. block + 1 \in 1..12
      BY <1>1, <2>1
    <3>. QED
      BY <1>2, <2>1, <3>1, BlocksOpen
  <2>2. CASE ~(block < 12)
    BY <1>2, <2>2
  <2>. QED
    BY <2>1, <2>2
<1>4. todo' \in Seq(Queries) /\ Links \notin Asked(todo')
  BY <1>3 DEF Opening, Asked
<1>5. Typed'
  BY <1>1, <1>2, <1>4 DEF Knows, Typed
<1>6. Current'
  BY <1>2 DEF Current, Good, Bad, Look
<1>7. DOMAIN ans' = {}
  BY <1>2
<1>8. Sent'
  BY <1>1, <1>2 DEF Sent, Pending
<1>9. Evidence' /\ FollowedUp'
  BY <1>4, <1>7 DEF Evidence, FollowedUp, Pending
<1>. QED
  BY <1>5, <1>6, <1>8, <1>9 DEF Knows

LEMMA StepKnows ==
  ASSUME Knows, [ChecksNext]_ChecksVars
  PROVE  Knows'
<1>1. ASSUME NEW x, Vanish(x) PROVE Knows'
  BY <1>1, WorldKnows DEF Vanish, Knows, Typed
<1>2. ASSUME NEW x \in Values, Worsen(x) PROVE Knows'
  BY <1>2, WorldKnows DEF Worsen, Knows, Typed
<1>3. ASSUME NEW x, Mend(x) PROVE Knows'
  BY <1>3, WorldKnows DEF Mend, Knows, Typed
<1>4. CASE UNCHANGED ChecksVars
  <2>1. UNCHANGED <<missing, poor, block, todo, ans, held, lapsed>>
    BY <1>4 DEF ChecksVars, world
  <2>2. Typed' /\ Current' /\ Evidence'
    BY <2>1 DEF Knows, Typed, Current, Evidence, Good, Bad, Look
  <2>3. Sent' /\ FollowedUp'
    BY <2>1 DEF Knows, Sent, FollowedUp, Pending
  <2>. QED
    BY <2>2, <2>3 DEF Knows
<1>. QED
  BY <1>1, <1>2, <1>3, <1>4, PingKnows, AskKnows, ConcludeKnows DEF ChecksNext

-----------------------------------------------------------------------------
(* The verdicts.                                                           *)
LEMMA GoodAnswer ==
  ASSUME Knows, NEW x \in Items, Answer(x) = "good"
  PROVE  x \in held
<1>1. x \in DOMAIN ans /\ ans[x] = "good"
  BY DEF Answer
<1>. QED
  BY <1>1 DEF Knows, Evidence

LEMMA BadAnswer ==
  ASSUME Knows, NEW x \in Items, x \in DOMAIN ans, Answer(x) # "good"
  PROVE  x \in lapsed
<1>1. ans[x] # "good"
  BY DEF Answer
<1>. QED
  BY <1>1 DEF Knows, Evidence

LEMMA PoorAnswer ==
  ASSUME Knows, NEW x \in Items, Answer(x) = "poor"
  PROVE  x \in lapsed
<1>1. x \in DOMAIN ans
  BY DEF Answer
<1>. QED
  BY <1>1, BadAnswer

(* At the end of a block everything was asked that its queries call for.   *)
LEMMA AllAsked ==
  ASSUME Knows, Conclude
  PROVE  /\ block \in 1..12
         /\ \A x \in Asked(Blocks[block].asks) : x \in DOMAIN ans
         /\ \A x : Pending(x) => x \in DOMAIN ans
<1>1. block \in 1..12
  <2>1. Len(Blocks) = 12
    BY BlockFields
  <2>. QED
    BY <2>1 DEF Conclude, Running, Knows, Typed
<1>2. Asked(todo) = {}
  BY DEF Conclude, Asked
<1>3. \A x : Pending(x) => x \in DOMAIN ans
  BY <1>2 DEF Pending
<1>. QED
  BY <1>1, <1>3 DEF Knows, Sent

LEMMA PassRests ==
  ASSUME Knows, NEW r \in {"C1", "C2", "C3", "C4", "C5", "C6", "C7", "C8", "C9", "C10",
                           "S1", "S2", "S3", "S4", "S5", "S6"},
         Verdict(r) = "PASS"
  PROVE  Subject(r) \ Silent \subseteq held
<1>. USE DEF Subject, Verdict, Status
<1>1. CASE r = "C1"
  BY <1>1, ItemsNamed, GoodAnswer DEF AllGood
<1>2. CASE r = "C2"
  BY <1>2, ItemsNamed, GoodAnswer DEF AllGood, Of, Metrics
<1>3. CASE r = "C3"
  BY <1>3, ItemsNamed, GoodAnswer DEF AllGood
<1>4. CASE r = "C4"
  <2>1. ASSUME NEW n \in Records PROVE <<"rule", n>> \in held
    <3>1. Answer(<<"rule", n>>) # "none"
      BY <1>4 DEF RecordsOk
    <3>2. <<"rule", n>> \in Items /\ <<"rule", n>> \notin Values
      BY ItemsNamed DEF RulesApi, Of, Values, Firing
    <3>3. Answer(<<"rule", n>>) = "good"
      BY <3>1, <3>2 DEF Answer, Knows, Evidence
    <3>. QED
      BY <3>2, <3>3, GoodAnswer
  <2>2. ASSUME NEW n \in Records PROVE <<"series", n>> \in held
    <3>1. Answer(<<"series", n>>) = "good"
      BY <1>4 DEF RecordsOk
    <3>. QED
      BY <3>1, ItemsNamed, GoodAnswer DEF Of
  <2>. QED
    BY <1>4, <2>1, <2>2 DEF Of
<1>5. CASE r = "C5"
  BY <1>5, ItemsNamed, GoodAnswer DEF AllGood, RulesApi
<1>6. CASE r = "C6"
  BY <1>6, ItemsNamed, GoodAnswer DEF AllGood
<1>7. CASE r = "C7"
  <2>1. AllGood(Of("board", Dashboards \ Templated)) /\ \A d \in DOMAIN Backend : DatasourceOk(d)
    BY <1>7
  <2>2. ASSUME NEW d \in DOMAIN Backend PROVE <<"datasource", d>> \in held
    <3>1. CASE Answer(<<"health", d>>) = "good"
      BY <3>1 DEF Answer, Knows, Evidence
    <3>2. CASE Answer(<<"datasource", d>>) = "good"
      BY <3>2, ItemsNamed, GoodAnswer DEF Of
    <3>. QED
      BY <2>1, <3>1, <3>2 DEF DatasourceOk
  <2>3. Of("board", Dashboards \ Templated) \subseteq held
    BY <2>1, ItemsNamed, GoodAnswer DEF AllGood
  <2>. QED
    BY <1>7, <2>2, <2>3 DEF Of
<1>8. CASE r = "C8"
  <2>1. Logs # {} /\ Cardinality(Logs) # 1
    BY <1>8
  <2>2. \A s \in {"ibmmq", "apps"} : Logs # {s}
    BY <2>1, FS_Singleton
  <2>3. Logs = {"ibmmq", "apps"}
    BY <2>1, <2>2 DEF Logs
  <2>4. \A s \in {"ibmmq", "apps"} : Answer(<<"log", s>>) = "good"
    BY <2>3 DEF Logs
  <2>5. \A s \in {"ibmmq", "apps"} : <<"log", s>> \in held
    BY <2>4, ItemsNamed, GoodAnswer DEF Of
  <2>. QED
    BY <1>8, <2>5 DEF Of
<1>9. CASE r = "C9"
  <2>1. Answer(<<"trace", "services">>) = "good" /\ Answer(Links) = "good"
    BY <1>9 DEF Links
  <2>2. <<"trace", "services">> \in held /\ Links \in held
    BY <2>1, ItemsNamed, GoodAnswer
  <2>3. Spans \in held
    BY <2>1 DEF Answer, Knows, FollowedUp, Pending
  <2>. QED
    BY <1>9, <2>2, <2>3 DEF Of, Links, Spans
<1>10. CASE r = "C10"
  BY <1>10, ItemsNamed, GoodAnswer DEF Of, Metric, Metrics, Silent
<1>11. CASE r = "S1" \/ r = "S2"
  BY <1>11, ItemsNamed, GoodAnswer DEF Of, Metric, Metrics
<1>14. CASE r = "S3"
  <2>1. <<"metric", "p99">> \in Items
    BY ItemsNamed DEF Metrics
  <2>2. Metric("p99") \notin {"poor", "none"}
    BY <1>14
  <2>3. Answer(<<"metric", "p99">>) = "good"
    BY <2>1, <2>2 DEF Metric, Answer, Knows, Evidence
  <2>. QED
    BY <1>14, <2>1, <2>3, GoodAnswer DEF Of
<1>12. CASE r = "S4"
  BY <1>12, ItemsNamed, GoodAnswer DEF Of, Metric, Metrics, Silent, Flowing
<1>13. CASE r \in {"S5", "S6"}
  BY <1>13 DEF Silent
<1>. QED
  BY <1>1, <1>2, <1>3, <1>4, <1>5, <1>6, <1>7, <1>8, <1>9, <1>10, <1>11, <1>12, <1>13,
     <1>14

LEMMA FailRests ==
  ASSUME Knows, Conclude, NEW r \in Blocks[block].rows, Verdict(r) = "FAIL"
  PROVE  Subject(r) \cap lapsed # {}
<1>1. /\ block \in 1..12
      /\ \A x \in Asked(Blocks[block].asks) : x \in DOMAIN ans
      /\ \A x : Pending(x) => x \in DOMAIN ans
  BY AllAsked
<1>2. ASSUME NEW x \in Items, x \in Subject(r),
             x \in Asked(Blocks[block].asks) \/ x \in DOMAIN ans, Answer(x) # "good"
      PROVE  Subject(r) \cap lapsed # {}
  BY <1>1, <1>2, BadAnswer
<1>3. ASSUME NEW x \in Items, x \in Subject(r), Answer(x) = "poor"
      PROVE  Subject(r) \cap lapsed # {}
  BY <1>3, PoorAnswer
<1>4. CASE block = 1
  <2>1. r = "C1" /\ Services \subseteq DOMAIN ans
    BY <1>4, BlockFields DEF Conclude
  <2>2. PICK x \in Services : Answer(x) # "good"
    BY <2>1 DEF Verdict, Status, AllGood
  <2>. QED
    BY <1>2, <2>1, <2>2, ItemsNamed DEF Subject
<1>5. CASE block = 2
  <2>1. r = "C2"
    BY <1>5, BlockFields
  <2>2. PICK m \in {"native", "exporter"} : Answer(<<"metric", m>>) # "good"
    BY <2>1 DEF Verdict, Status, AllGood, Of
  <2>3. <<"metric", m>> \in Items /\ <<"metric", m>> \in Subject(r)
    BY <2>1, ItemsNamed DEF Subject, Of, Metrics
  <2>4. <<"metric", m>> \in Asked(Blocks[block].asks)
    BY <1>5, ListAsked
  <2>. QED
    BY <1>2, <2>2, <2>3, <2>4
<1>6. CASE block = 3
  <2>1. r = "C3" /\ Blocks[block].asks = Each("sli", SetToSeq(Slis))
    BY <1>6, BlockFields
  <2>2. PICK x \in Of("sli", Slis) : Answer(x) # "good"
    BY <2>1 DEF Verdict, Status, AllGood
  <2>3. x \in Items /\ x \in Subject(r)
    BY <2>1, ItemsNamed DEF Subject
  <2>4. x \in Asked(Blocks[block].asks)
    BY <2>1, PackAssumption, EachOfSet
  <2>. QED
    BY <1>2, <2>2, <2>3, <2>4
<1>7. CASE block = 4 /\ r = "C4"
  <2>1. PICK n \in Records :
          Answer(<<"rule", n>>) = "none" \/ Answer(<<"series", n>>) # "good"
    BY <1>7 DEF Verdict, Status, RecordsOk
  <2>2. /\ <<"rule", n>> \in RulesApi /\ <<"rule", n>> \in Items /\ <<"series", n>> \in Items
        /\ <<"rule", n>> \in Subject(r) /\ <<"series", n>> \in Subject(r)
    BY <1>7, ItemsNamed DEF RulesApi, Of, Subject
  <2>3. <<"rule", n>> \in Asked(Blocks[block].asks)
    BY <1>7, <2>2, ListAsked
  <2>4. CASE Answer(<<"rule", n>>) = "none"
    BY <1>2, <2>2, <2>3, <2>4
  <2>5. CASE Answer(<<"rule", n>>) # "none" /\ Answer(<<"series", n>>) # "good"
    <3>1. <<"series", n>> \in DOMAIN ans
      BY <1>1, <2>3, <2>5 DEF Answer, Knows, FollowedUp
    <3>. QED
      BY <1>2, <2>2, <2>5, <3>1
  <2>. QED
    BY <2>1, <2>4, <2>5
<1>8. CASE block = 4 /\ r = "C5"
  <2>1. PICK x \in Of("alert", Referenced) : Answer(x) # "good"
    BY <1>8 DEF Verdict, Status, AllGood
  <2>2. x \in RulesApi /\ x \in Items /\ x \in Subject(r)
    BY <1>8, ItemsNamed DEF RulesApi, Subject
  <2>3. x \in Asked(Blocks[block].asks)
    BY <1>8, <2>2, ListAsked
  <2>. QED
    BY <1>2, <2>1, <2>2, <2>3
<1>9. CASE block = 5
  <2>1. r = "C6" /\ Blocks[block].asks = Each("family", SetToSeq(Families))
    BY <1>9, BlockFields
  <2>2. PICK x \in Of("family", Families) : Answer(x) # "good"
    BY <2>1 DEF Verdict, Status, AllGood
  <2>3. x \in Items /\ x \in Subject(r)
    BY <2>1, ItemsNamed DEF Subject
  <2>4. x \in Asked(Blocks[block].asks)
    BY <2>1, PackAssumption, EachOfSet
  <2>. QED
    BY <1>2, <2>2, <2>3, <2>4
<1>10. CASE block = 6
  <2>1. r = "C7"
    BY <1>10, BlockFields
  <2>2. CASE ~AllGood(Of("board", Dashboards \ Templated))
    <3>1. PICK x \in Of("board", Dashboards \ Templated) : Answer(x) # "good"
      BY <2>2 DEF AllGood
    <3>2. x \in Items /\ x \in Subject(r) /\ x \in Asked(Blocks[block].asks)
      BY <1>10, <2>1, ItemsNamed, BoardsAsked DEF Subject
    <3>. QED
      BY <1>2, <3>1, <3>2
  <2>3. ASSUME NEW d \in DOMAIN Backend, ~DatasourceOk(d) PROVE Subject(r) \cap lapsed # {}
    <3>1. Answer(<<"health", d>>) # "good" /\ Answer(<<"datasource", d>>) # "good"
      BY <2>3 DEF DatasourceOk
    <3>2. <<"health", d>> \in DOMAIN ans
      BY <1>1, <1>10, BoardsAsked DEF Health, Of
    <3>3. <<"datasource", d>> \in DOMAIN ans
      BY <1>1, <3>1, <3>2 DEF Answer, Knows, FollowedUp
    <3>4. <<"datasource", d>> \in Items /\ <<"datasource", d>> \in Subject(r)
      BY <2>1, ItemsNamed DEF Subject, Of
    <3>. QED
      BY <1>2, <3>1, <3>3, <3>4
  <2>4. ~AllGood(Of("board", Dashboards \ Templated)) \/ \E d \in DOMAIN Backend : ~DatasourceOk(d)
    BY <2>1 DEF Verdict, Status
  <2>. QED
    BY <2>2, <2>3, <2>4
<1>11. CASE block = 7
  <2>1. r = "C8"
    BY <1>11, BlockFields
  <2>2. Logs = {}
    BY <2>1 DEF Verdict, Status
  <2>3. Answer(<<"log", "apps">>) # "good"
    BY <2>2 DEF Logs
  <2>4. <<"log", "apps">> \in Items /\ <<"log", "apps">> \in Subject(r)
    BY <2>1, ItemsNamed DEF Subject, Of
  <2>5. <<"log", "apps">> \in Asked(Blocks[block].asks)
    BY <1>11, ListAsked
  <2>. QED
    BY <1>2, <2>3, <2>4, <2>5
<1>12. CASE block = 8
  <2>1. r = "C9"
    BY <1>12, BlockFields
  <2>2. Answer(<<"trace", "services">>) # "good"
    BY <2>1 DEF Verdict, Status
  <2>3. <<"trace", "services">> \in Items /\ <<"trace", "services">> \in Subject(r)
    BY <2>1, ItemsNamed DEF Subject, Of
  <2>4. <<"trace", "services">> \in Asked(Blocks[block].asks)
    BY <1>12, ListAsked
  <2>. QED
    BY <1>2, <2>2, <2>3, <2>4
<1>13. CASE block = 9
  <2>1. r = "C10"
    BY <1>13, BlockFields
  <2>. QED
    BY <2>1 DEF Verdict, Status
<1>14. CASE block = 10
  <2>1. r \in {"S1", "S2", "S3"}
    BY <1>14, BlockFields
  <2>2. /\ <<"metric", "attempts">> \in Items /\ <<"metric", "success">> \in Items
        /\ <<"metric", "p99">> \in Items
    BY ItemsNamed DEF Metrics
  <2>3. /\ <<"metric", "attempts">> \in Asked(Blocks[block].asks)
        /\ <<"metric", "success">> \in Asked(Blocks[block].asks)
    BY <1>14, ListAsked
  <2>4. CASE r = "S1"
    <3>1. Answer(<<"metric", "attempts">>) # "good" /\ <<"metric", "attempts">> \in Subject(r)
      BY <2>4 DEF Verdict, Status, Metric, Subject, Of
    <3>. QED
      BY <1>2, <2>2, <2>3, <3>1
  <2>5. CASE r = "S2"
    <3>1. Answer(<<"metric", "success">>) # "good" /\ <<"metric", "success">> \in Subject(r)
      BY <2>5 DEF Verdict, Status, Metric, Subject, Of
    <3>. QED
      BY <1>2, <2>2, <2>3, <3>1
  <2>6. CASE r = "S3"
    <3>1. Answer(<<"metric", "p99">>) = "poor" /\ <<"metric", "p99">> \in Subject(r)
      BY <2>6 DEF Verdict, Status, Metric, Subject, Of
    <3>. QED
      BY <1>3, <2>2, <3>1
  <2>. QED
    BY <2>1, <2>4, <2>5, <2>6
<1>15. CASE block = 11
  <2>1. r = "S4"
    BY <1>15, BlockFields
  <2>2. \A m \in {"produced", "consumed", "headroom", "age"} :
          <<"metric", m>> \in Items /\ <<"metric", m>> \in Subject(r)
    BY <2>1, ItemsNamed DEF Metrics, Subject, Of
  <2>3. \A m \in {"produced", "consumed"} : <<"metric", m>> \in Asked(Blocks[block].asks)
    BY <1>15, ListAsked
  <2>4. \/ \E m \in {"produced", "consumed"} : Answer(<<"metric", m>>) # "good"
        \/ \E m \in {"headroom", "age"} : Answer(<<"metric", m>>) = "poor"
    BY <2>1 DEF Verdict, Status, Flowing, BackedUp, Metric
  <2>. QED
    BY <1>2, <1>3, <2>2, <2>3, <2>4
<1>16. CASE block = 12
  <2>1. r \in {"S5", "S6"}
    BY <1>16, BlockFields
  <2>2. PICK a \in {"symptom", "fast"} : Answer(<<"firing", a>>) = "poor"
    BY <2>1 DEF Verdict, Status, Fires
  <2>3. <<"firing", a>> \in Items /\ <<"firing", a>> \in Subject(r)
    BY <2>1, ItemsNamed DEF Subject, Firing, Of
  <2>. QED
    BY <1>3, <2>2, <2>3
<1>17. block = 4 => r \in {"C4", "C5"}
  BY BlockFields
<1>. QED
  BY <1>1, <1>4, <1>5, <1>6, <1>7, <1>8, <1>9, <1>10, <1>11, <1>12, <1>13, <1>14, <1>15, <1>16, <1>17

LEMMA ChecksKnow == ChecksSpec => []Knows
BY InitKnows, StepKnows, PTL DEF ChecksSpec

(* For every pack, with any number of troubles between any two queries: a  *)
(* row that passes saw everything it is about good during its queries,     *)
(* except what a query that failed reports as absent trouble.              *)
THEOREM PassesAreWitnessed == ChecksSpec => PassIsWitnessed
<1>1. ASSUME Knows, Conclude, NEW r \in Blocks[block].rows, rows'[r] = "PASS"
      PROVE  Subject(r) \ Silent \subseteq held
  <2>1. Verdict(r) = "PASS"
    BY <1>1 DEF Conclude
  <2>2. block \in 1..12
    BY <1>1, AllAsked
  <2>3. r \in {"C1", "C2", "C3", "C4", "C5", "C6", "C7", "C8", "C9", "C10",
              "S1", "S2", "S3", "S4", "S5", "S6"}
    <3>1. /\ Blocks[1].rows = {"C1"} /\ Blocks[2].rows = {"C2"} /\ Blocks[3].rows = {"C3"}
          /\ Blocks[4].rows = {"C4", "C5"} /\ Blocks[5].rows = {"C6"} /\ Blocks[6].rows = {"C7"}
          /\ Blocks[7].rows = {"C8"} /\ Blocks[8].rows = {"C9"} /\ Blocks[9].rows = {"C10"}
          /\ Blocks[10].rows = {"S1", "S2", "S3"} /\ Blocks[11].rows = {"S4"}
          /\ Blocks[12].rows = {"S5", "S6"}
      BY BlockFields
    <3>. QED
      BY <1>1, <2>2, <3>1
  <2>. QED
    BY <1>1, <2>1, <2>3, PassRests
<1>2. Knows /\ [ChecksNext]_ChecksVars =>
        [Conclude => \A r \in Blocks[block].rows :
           rows'[r] = "PASS" => Subject(r) \ Silent \subseteq held]_ChecksVars
  BY <1>1
<1>. QED
  BY <1>2, ChecksKnow, PTL DEF ChecksSpec, PassIsWitnessed

(* For every pack: a row that fails saw something it is about that was not *)
(* good during its queries.                                                *)
THEOREM FailuresAreJustified == ChecksSpec => FailIsJustified
<1>1. ASSUME Knows, Conclude, NEW r \in Blocks[block].rows, rows'[r] = "FAIL"
      PROVE  Subject(r) \cap lapsed # {}
  <2>1. Verdict(r) = "FAIL"
    BY <1>1 DEF Conclude
  <2>. QED
    BY <1>1, <2>1, FailRests
<1>2. Knows /\ [ChecksNext]_ChecksVars =>
        [Conclude => \A r \in Blocks[block].rows :
           rows'[r] = "FAIL" => Subject(r) \cap lapsed # {}]_ChecksVars
  BY <1>1
<1>. QED
  BY <1>2, ChecksKnow, PTL DEF ChecksSpec, FailIsJustified
=============================================================================

-------------------------------- MODULE CertRun --------------------------------
(***************************************************************************)
(* The certification harness around the chaos suite (harness/run.mjs): the *)
(* command line, the suites, the verdict (harness/lib/report.mjs), the     *)
(* three report files, the exit code, and the summary published to the     *)
(* alert-sink (harness/alert-sink/server.mjs), which keeps it in memory.   *)
(*                                                                         *)
(* A check is its status, a report the run, verdict and kind it speaks of. *)
(* fail() has no await, but it writes three files, and so does the end of  *)
(* a run: a write may throw and the process may die between two of them.   *)
(***************************************************************************)
EXTENDS Integers, Sequences, FiniteSets

CONSTANTS
  Outcomes, \* the sets of statuses a suite that ran checks may return
  MaxRuns   \* bound: how many harness processes are started one after another

SUITES == <<"conformance", "synthetic", "chaos">>
Suites == {"conformance", "synthetic", "chaos"}
Statuses == {"PASS", "WARN", "FAIL", "SKIP"}

ASSUME OutcomesAssumption == Outcomes \subseteq (SUBSET Statuses) \ {{}}
ASSUME MaxRunsAssumption == MaxRuns \in Nat


EXIT == [PASS |-> 0, WARN |-> 1, FAIL |-> 2, ERROR |-> 3]
Verdicts == {"PASS", "WARN", "FAIL", "ERROR"}

Files == <<"cert-report.json", "cert-report.md", "cert-report.html">>
FileNames == {"cert-report.json", "cert-report.md", "cert-report.html"}
Dirs == {"reports", "reports/quick"}

Killed == 137
Reports == [run : 1..MaxRuns, verdict : Verdicts, partial : BOOLEAN]
Missing == [run |-> 0, verdict |-> "none", partial |-> FALSE]
Torn == [run |-> 0, verdict |-> "torn", partial |-> FALSE]

VARIABLES
  run,        \* processes started
  pc, k,      \* what the process does; index of the suite or of the file
  requested,  \* suites asked for
  scenarios,  \* --scenario: not given, a list, or a list without a name
  outGiven, dir,  \* --out, and the directory of the report
  checks,     \* per suite, the statuses of its checks
  verdict,
  files,      \* the report files, per directory
  board,      \* what the alert-sink shows: its last published summary
  ended       \* per directory, how the last run that reports there ended

vars == <<run, pc, k, requested, scenarios, outGiven, dir, checks, verdict,
          files, board, ended>>
args == <<requested, scenarios, outGiven, dir>>

Busy == pc # "idle"

TypeOK ==
  /\ run \in 0..MaxRuns
  /\ pc \in {"idle", "environment", "suites", "write", "fail", "publish", "republish"}
  /\ k \in 1..4
  /\ requested \subseteq Suites
  /\ scenarios \in {"all", "some", "none"}
  /\ outGiven \in BOOLEAN
  /\ dir \in Dirs
  /\ checks \in [Suites -> SUBSET Statuses]
  /\ verdict \in Verdicts
  /\ files \in [Dirs -> [FileNames -> Reports \cup {Missing, Torn}]]
  /\ board \in Reports \cup {Missing}
  /\ ended \in [Dirs -> 0..3 \cup {Killed}]

NoChecks == [s \in Suites |-> {}]

Init ==
  /\ run = 0
  /\ pc = "idle" /\ k = 1
  /\ requested = {} /\ scenarios = "all" /\ outGiven = FALSE /\ dir = "reports"
  /\ checks = NoChecks
  /\ verdict = "FAIL"
  /\ files = [d \in Dirs |-> [f \in FileNames |-> Missing]]
  /\ board = Missing
  /\ ended = [d \in Dirs |-> Killed]

-----------------------------------------------------------------------------
(* The command line.                                                       *)

(* Mutant: a run of some scenarios counts as a full one.                   *)
BugPartial(req, scen) == req # Suites

Partial(req, scen) == req # Suites \/ scen # "all"

OutDirs(req, scen, given) ==
  IF given THEN Dirs ELSE IF Partial(req, scen) THEN {"reports/quick"} ELSE {"reports"}

(* --only and --skip-chaos can ask for any set of suites, the empty one    *)
(* included: a list of commas has no name in it.                           *)
Launch ==
  /\ ~Busy
  /\ run < MaxRuns
  /\ run' = run + 1
  /\ requested' \in SUBSET Suites
  /\ scenarios' \in {"all", "some", "none"}
  /\ outGiven' \in BOOLEAN
  /\ dir' \in OutDirs(requested', scenarios', outGiven')
  /\ pc' = "environment"
  /\ k' = 1
  /\ checks' = NoChecks
  /\ verdict' = "FAIL"
  /\ UNCHANGED <<files, board, ended>>

Environment ==
  /\ pc = "environment"
  /\ pc' = "suites"
  /\ UNCHANGED <<run, k, args, checks, verdict, files, board, ended>>

-----------------------------------------------------------------------------
(* The suites, and the verdict over their checks.                          *)

(* What a suite can return.  chaos() filters the experiments by --scenario *)
(* and returns a row for each; the other suites have no checks to skip.    *)
Results(suite) ==
  IF suite # "chaos" THEN {statuses \in Outcomes : "SKIP" \notin statuses}
  ELSE IF scenarios = "none" THEN {{}}
  ELSE Outcomes

RunSuite ==
  /\ pc = "suites"
  /\ k <= Len(SUITES)
  /\ \E statuses \in IF SUITES[k] \in requested THEN Results(SUITES[k]) ELSE {{}} :
       checks' = [checks EXCEPT ![SUITES[k]] = statuses]
  /\ k' = k + 1
  /\ UNCHANGED <<run, pc, args, verdict, files, board, ended>>

All == UNION {checks[s] : s \in Suites}
EmptySuites == {s \in requested : checks[s] = {}}

(* Mutant: a suite that ran nothing is not looked at.                      *)
BugVerdictOf ==
  IF "FAIL" \in All THEN "FAIL"
  ELSE IF {"WARN", "SKIP"} \cap All # {} THEN "WARN"
  ELSE "PASS"

VerdictOf ==
  IF "FAIL" \in All \/ EmptySuites # {} THEN "FAIL"
  ELSE IF {"WARN", "SKIP"} \cap All # {} THEN "WARN"
  ELSE "PASS"

SuitesDone ==
  /\ pc = "suites"
  /\ k > Len(SUITES)
  /\ verdict' = VerdictOf
  /\ pc' = "write"
  /\ k' = 1
  /\ UNCHANGED <<run, args, checks, files, board, ended>>

Report == [run |-> run, verdict |-> verdict, partial |-> Partial(requested, scenarios)]

(* The summary that is being posted may have reached the sink.             *)
MayTell == board' = board \/ (pc = "publish" /\ board' = Report)

(* fail(): a suite or composePs() threw, or a promise nobody awaits was    *)
(* rejected.                                                               *)
Fails ==
  /\ pc \in {"environment", "suites", "publish"}
  /\ verdict' = "ERROR"
  /\ pc' = "fail"
  /\ k' = 1
  /\ MayTell
  /\ UNCHANGED <<run, args, checks, files, ended>>

-----------------------------------------------------------------------------
(* The report files, the published summary and the exit code.              *)

Leave(code) ==
  /\ pc' = "idle"
  /\ ended' = [ended EXCEPT ![dir] = code]

WriteFile ==
  /\ pc \in {"write", "fail"}
  /\ k <= Len(Files)
  /\ files' = [files EXCEPT ![dir][Files[k]] = Report]
  /\ k' = k + 1
  /\ UNCHANGED <<run, pc, args, checks, verdict, board, ended>>

(* A write that is broken off leaves the file as it was or cut off.        *)
MayTear ==
  \/ files' = files
  \/ /\ pc \in {"write", "fail"} /\ k <= Len(Files)
     /\ files' = [files EXCEPT ![dir][Files[k]] = Torn]

(* Mutant: a file that could not be written is only logged.                *)
BugWriteThrows ==
  /\ pc \in {"write", "fail"}
  /\ k <= Len(Files)
  /\ MayTear
  /\ k' = k + 1
  /\ UNCHANGED <<run, pc, args, checks, verdict, board, ended>>

(* The directory cannot be made or a file not written.  The first time     *)
(* that starts fail(), within it it is the end.                            *)
WriteThrows ==
  /\ pc \in {"write", "fail"}
  /\ k <= Len(Files)
  /\ MayTear
  /\ IF pc = "write"
     THEN verdict' = "ERROR" /\ pc' = "fail" /\ k' = 1 /\ ended' = ended
     ELSE Leave(EXIT["ERROR"]) /\ UNCHANGED <<verdict, k>>
  /\ UNCHANGED <<run, args, checks, board>>

(* Mutant: every run publishes.                                            *)
BugReported ==
  /\ pc = "write"
  /\ k > Len(Files)
  /\ pc' = "publish"
  /\ ended' = ended
  /\ UNCHANGED <<run, k, args, checks, verdict, files, board>>

Reported ==
  /\ pc = "write"
  /\ k > Len(Files)
  /\ IF Partial(requested, scenarios) THEN Leave(EXIT[verdict])
     ELSE pc' = "publish" /\ ended' = ended
  /\ UNCHANGED <<run, k, args, checks, verdict, files, board>>

FailureReported ==
  /\ pc = "fail"
  /\ k > Len(Files)
  /\ Leave(EXIT["ERROR"])
  /\ UNCHANGED <<run, k, args, checks, verdict, files, board>>

(* The sink takes the summary or not; the exit code does not depend on it. *)
Publish ==
  /\ pc = "publish"
  /\ MayTell
  /\ Leave(EXIT[verdict])
  /\ UNCHANGED <<run, k, args, checks, verdict, files>>

(* SIGKILL, a signal nobody listens to, or the exit 130 of the chaos suite.*)
Kill ==
  /\ Busy
  /\ Leave(Killed)
  /\ MayTear /\ MayTell
  /\ UNCHANGED <<run, k, args, checks, verdict>>

(* --publish <dir>/cert-report.json: any report with a verdict will do;    *)
(* without one the process ends and nothing changes.                       *)
Republish(d) ==
  /\ ~Busy
  /\ run < MaxRuns
  /\ run' = run + 1
  /\ files[d]["cert-report.json"] \in Reports
  /\ board' \in {board, files[d]["cert-report.json"]}
  /\ UNCHANGED <<pc, k, args, checks, verdict, files, ended>>

(* The ledger and the summary live in the memory of the sink.              *)
SinkRestarts ==
  /\ board # Missing
  /\ board' = Missing
  /\ UNCHANGED <<run, pc, k, args, checks, verdict, files, ended>>

Harness ==
  \/ Environment \/ RunSuite \/ SuitesDone \/ Fails
  \/ WriteFile \/ WriteThrows \/ Reported \/ FailureReported \/ Publish

Next ==
  \/ Launch \/ Harness \/ Kill \/ SinkRestarts
  \/ \E d \in Dirs : Republish(d)

Spec == Init /\ [][Next]_vars

-----------------------------------------------------------------------------
(* Properties.                                                             *)

(* Exit code and report agree: where the last run ended with 0, 1 or 2 all *)
(* three files are of one run and carry the verdict of that code, whatever *)
(* was torn or left half-written by runs before it; only an exit 3 or a    *)
(* kill may leave files of different runs side by side.                    *)
ReportMatchesExit ==
  \A d \in Dirs :
    (~(Busy /\ dir = d) /\ ended[d] \in 0..2) =>
      \E r \in Reports :
        /\ EXIT[r.verdict] = ended[d]
        /\ \A f \in FileNames : files[d][f] = r

(* "the full run's report is never overwritten by a quick one": without    *)
(* --out only a run of everything touches reports/.                        *)
FullReportKept ==
  [][ ~outGiven /\ (requested # Suites \/ scenarios # "all")
        => files'["reports"] = files["reports"] ]_vars

(* The boards never show a partial run or one that broke, unless the       *)
(* operator re-published such a report: what run.mjs publishes by itself   *)
(* is a complete run, and the verdict its report files hold.               *)
BoardShowsCompleteRun ==
  [][ (Busy /\ board' \notin {board, Missing}) =>
        /\ requested = Suites /\ scenarios = "all"
        /\ board'.verdict # "ERROR"
        /\ \A f \in FileNames : files[dir][f] = board' ]_vars

(* Exit 0 means that every suite that was asked for produced checks and    *)
(* every one of them passed: no SKIP, no suite that ran nothing.           *)
PassIsEarned ==
  (~Busy /\ ended[dir] = 0) => \A s \in requested : checks[s] = {"PASS"}

=============================================================================

------------------------ MODULE CandidateEvaluation ------------------------
(***************************************************************************)
(* evaluate_source_submission: copy a submission, build it, run the hidden *)
(* tests on out/program, and leave up to three reports beside the released *)
(* evaluator package.  Evaluations of different submissions, under         *)
(* different execution policies, follow each other in one directory; each  *)
(* removes only the run directory of the one before, and may be killed or  *)
(* end in an exception that `except (OSError, PBGenError)` does not catch. *)
(* Docker may be there, be missing or hang, anew at each command.          *)
(***************************************************************************)
EXTENDS Integers, FiniteSets, ExecutionPolicy

CONSTANTS
  Tests,           \* the tests a release may carry
  MaxEvaluations,  \* bound on the evaluations in one directory
  None             \* no file

Ids      == 1 .. MaxEvaluations
Docker   == "docker-no-network"

\* A CandidateSubmission under a policy: the kind of its build script, where
\* that is, whether out/program is among the files it comes with, and whether
\* it is flagged as cheating or disqualified.
Submissions ==
  [policy : Policies, python : BOOLEAN,
   script : {"in source", "outside", "in pruned directory"},
   ships : BOOLEAN, disqualified : BOOLEAN]

Outcomes == {"passed", "failed", "error", "skipped"}

\* mentionsDocker: the reason of a failed build has the word Docker in it.
CandidateReports ==
  [of : Ids, buildSuccess : BOOLEAN, resolved : BOOLEAN, mentionsDocker : BOOLEAN,
   passed : 0 .. Cardinality(Tests), total : 0 .. Cardinality(Tests)]

MetricsReports ==
  [of : Ids, resolved : BOOLEAN, almost : BOOLEAN,
   passed : 0 .. Cardinality(Tests)]

NetworkReports == [of : Ids, status : {"passed", "blocked", "failed"}]

\* candidate_runs/latest.
RunDirectories ==
  [of : Ids, program : {"none", "shipped", "built"},
   log : {"none", "error", "exit 0", "exit 1"}]

ASSUME EvaluationAssumption ==
  /\ IsFiniteSet(Tests)
  /\ MaxEvaluations \in Nat
  /\ None \notin CandidateReports \cup MetricsReports \cup NetworkReports

VARIABLES
  hidden,        \* the hidden tests of the release
  canonical,     \* they are canonical suites, not pytest files
  runDir,        \* candidate_runs/latest: whose, its out/program, its build.log
  candidateReport, metricsReport, networkReport, \* the files in reports/
  phase, id,     \* the process, and which evaluation it is
  submission,
  pending,       \* the report about to be written
  \* history
  onHost,        \* evaluations that ran candidate code on the host
  inContainer,   \* evaluations that had a container started for it
  undocked,      \* evaluations that found Docker missing or hanging
  policyOf, returned

reports == <<candidateReport, metricsReport, networkReport>>
release == <<hidden, canonical>>
history == <<onHost, inContainer, undocked, policyOf, returned>>
vars    == <<release, runDir, reports, phase, id, submission, pending, history>>

Phases == {"idle", "copy", "preflight", "enforce", "build", "log", "check",
           "test", "report", "metrics", "network"}

\* Files and history hold what their names say.
TypeOK ==
  /\ hidden \subseteq Tests
  /\ canonical \in BOOLEAN
  /\ runDir \in RunDirectories \cup {None}
  /\ candidateReport \in CandidateReports \cup {None}
  /\ metricsReport \in MetricsReports \cup {None}
  /\ networkReport \in NetworkReports \cup {None}
  /\ phase \in Phases
  /\ id \in 0 .. MaxEvaluations
  /\ submission \in Submissions \cup {None}
  /\ pending \in CandidateReports \cup {None}
  /\ (phase \in {"report", "metrics", "network"}) => pending # None
  /\ onHost \cup inContainer \cup undocked \cup returned \subseteq 1 .. id
  /\ policyOf \in [1 .. id -> Policies]

Init ==
  /\ hidden \in SUBSET Tests
  /\ canonical \in BOOLEAN
  /\ runDir = None
  /\ candidateReport = None
  /\ metricsReport = None
  /\ networkReport = None
  /\ phase = "idle"
  /\ id = 0
  /\ submission = None
  /\ pending = None
  /\ onHost = {}
  /\ inContainer = {}
  /\ undocked = {}
  /\ policyOf = << >>
  /\ returned = {}

----------------------------------------------------------------------------
InDocker == submission.policy = Docker
\* _command_runner: the build and the canonical cases run where the policy says.
RunCommand ==
  /\ onHost' = IF InDocker THEN onHost ELSE onHost \cup {id}
  /\ inContainer' = IF InDocker THEN inContainer \cup {id} ELSE inContainer

\* run_pytest_suite: pytest, and the candidate with it, runs on the host.
RunOnHost == onHost' = onHost \cup {id} /\ UNCHANGED inContainer

PassRateIs(r, percent) == r.total > 0 /\ 100 * r.passed >= percent * r.total

FailedBuild(mentionsDocker) ==
  [of |-> id, buildSuccess |-> FALSE, resolved |-> FALSE,
   mentionsDocker |-> mentionsDocker, passed |-> 0, total |-> 0]

\* evaluate_source_submission: the run directory is emptied, the reports stay.
Start ==
  /\ phase = "idle"
  /\ id < MaxEvaluations
  /\ id' = id + 1
  /\ submission' \in Submissions
  /\ runDir' = [of |-> id + 1, program |-> "none", log |-> "none"]
  /\ policyOf' = [i \in 1 .. id + 1 |->
                    IF i = id + 1 THEN submission'.policy ELSE policyOf[i]]
  /\ pending' = None
  /\ phase' = "copy"
  /\ UNCHANGED <<release, reports, onHost, inContainer, undocked, returned>>

\* except (OSError, PBGenError) around copy, checks and build.
FailBuild(mentionsDocker) ==
  /\ runDir' = [runDir EXCEPT !.log = "error"]
  /\ pending' = FailedBuild(mentionsDocker)
  /\ phase' = "report"
  /\ UNCHANGED <<release, reports, id, submission, policyOf, returned>>

\* The source tree is copied, an out/program in it too.
CopySource ==
  /\ phase = "copy"
  /\ runDir' = [runDir EXCEPT !.program =
                  IF submission.ships THEN "shipped" ELSE "none"]
  /\ phase' = "preflight"
  /\ UNCHANGED <<release, reports, id, submission, pending, history>>

\* No directory, no build script, or an error while copying: the message has
\* a path, and a path may have the word Docker in it.
CopyFails ==
  /\ phase = "copy"
  /\ \E mentionsDocker \in BOOLEAN : FailBuild(mentionsDocker)
  /\ UNCHANGED <<onHost, inContainer, undocked>>

Preflight ==
  /\ phase = "preflight"
  /\ phase' = "enforce"
  /\ UNCHANGED <<release, runDir, reports, id, submission, pending, history>>

\* Docker or its image is not there when a command is about to run.
DockerMissing ==
  /\ phase \in {"preflight", "build"}
  /\ InDocker
  /\ undocked' = undocked \cup {id}
  /\ FailBuild(TRUE)
  /\ UNCHANGED <<onHost, inContainer>>

\* `docker image inspect` exceeds its 20 seconds: TimeoutExpired.
DockerHangs ==
  /\ phase \in {"preflight", "build"}
  /\ InDocker
  /\ undocked' = undocked \cup {id}
  /\ phase' = "idle"
  /\ UNCHANGED <<release, runDir, reports, id, submission, pending, onHost,
                 inContainer, policyOf, returned>>

\* _build_command: a script from outside the source is copied under a name
\* without its suffix, and what is not run by python3 is run by its path.
RunByPython == submission.python /\ submission.script # "outside"

\* The evaluation command sets no patterns.
Allowed ==
  IsCommandAllowed(
    [root |-> IF RunByPython THEN "python3" ELSE "path", args |-> "script"], "build",
    [policy |-> submission.policy, trusted |-> FALSE, allow |-> {}, deny |-> {}])

CommandAllowed ==
  /\ phase = "enforce"
  /\ Allowed
  /\ submission.script = "in pruned directory" => RunByPython
  /\ phase' = "build"
  /\ UNCHANGED <<release, runDir, reports, id, submission, pending, history>>

\* Blocked by the policy or a configured pattern, or chmod of a script that
\* was not copied: the message has the pattern, or the path of the script.
CommandBlocked ==
  /\ phase = "enforce"
  /\ \E mentionsDocker \in BOOLEAN : FailBuild(mentionsDocker)
  /\ UNCHANGED <<onHost, inContainer, undocked>>

\* The build command ends: python3 finds no script that was not copied.
\* Only a build that works creates a program, and it may do so and still fail.
Build ==
  /\ phase = "build"
  /\ RunCommand
  /\ \E ok, creates \in BOOLEAN :
       /\ submission.script = "in pruned directory" => ~ ok /\ ~ creates
       /\ runDir' = [runDir EXCEPT
            !.program = IF creates THEN "built" ELSE runDir.program]
       /\ pending' = [FailedBuild(FALSE) EXCEPT !.buildSuccess = ok]
  /\ phase' = "log"
  /\ UNCHANGED <<release, reports, id, submission, undocked, policyOf, returned>>

\* No python3, or a script the kernel refuses to run: OSError with its path.
BuildRefused ==
  /\ phase = "build"
  /\ ~ InDocker
  /\ \E mentionsDocker \in BOOLEAN : FailBuild(mentionsDocker)
  /\ UNCHANGED <<onHost, inContainer, undocked>>

\* The build exceeds build_timeout_seconds (TimeoutExpired), or prints what is
\* no UTF-8 (UnicodeDecodeError).
BuildTimesOut ==
  /\ phase = "build"
  /\ RunCommand
  /\ \E creates \in BOOLEAN :
       runDir' = [runDir EXCEPT
         !.program = IF creates THEN "built" ELSE runDir.program]
  /\ phase' = "idle"
  /\ UNCHANGED <<release, reports, id, submission, pending, undocked, policyOf,
                 returned>>

WriteBuildLog ==
  /\ phase = "log"
  /\ runDir' = [runDir EXCEPT
                  !.log = IF pending.buildSuccess THEN "exit 0" ELSE "exit 1"]
  /\ phase' = "check"
  /\ UNCHANGED <<release, reports, id, submission, pending, history>>

\* A successful build with a file out/program is tested, another is reported.
CheckBuild ==
  /\ phase = "check"
  /\ LET ok == pending.buildSuccess /\ runDir.program # "none"
     IN  /\ pending' = [pending EXCEPT !.buildSuccess = ok]
         /\ phase' = IF ok THEN "test" ELSE "report"
  /\ UNCHANGED <<release, runDir, reports, id, submission, history>>

\* f are the outcomes of the tests that ran.
With(f, O) == {t \in DOMAIN f : f[t] \in O}

\* Mutant: an empty release is resolved.
ResolvedWhenEmpty(f) == With(f, {"failed", "error"}) = {}

Resolved(f) == DOMAIN f # {} /\ With(f, {"failed", "error"}) = {}

Report(f) ==
  [of |-> id, buildSuccess |-> TRUE, resolved |-> Resolved(f),
   mentionsDocker |-> FALSE, passed |-> Cardinality(With(f, {"passed"})),
   total |-> Cardinality(DOMAIN f)]

\* Canonical cases pass, fail or end in an error; a Docker that is missing or
\* hangs is an error or failure of the case.
RunCases ==
  /\ phase = "test"
  /\ canonical
  /\ RunCommand
  /\ \E f \in [hidden -> {"passed", "failed", "error"}] :
       /\ pending' = Report(f)
       /\ undocked' \in {undocked} \cup
            (IF InDocker /\ With(f, {"failed", "error"}) # {}
                THEN {undocked \cup {id}} ELSE {})
  /\ phase' = "report"
  /\ UNCHANGED <<release, runDir, reports, id, submission, policyOf, returned>>

\* A fixture that cannot be written: the OSError ends the run of the cases, and
\* a report without tests is made.
CasesAbort ==
  /\ phase = "test"
  /\ canonical /\ hidden # {}
  /\ RunCommand
  /\ pending' = [FailedBuild(FALSE) EXCEPT !.buildSuccess = TRUE]
  /\ phase' = "report"
  /\ UNCHANGED <<release, runDir, reports, id, submission, undocked, policyOf,
                 returned>>

\* Output that is no UTF-8, or a pattern that does not compile: nothing catches
\* the exception of _run_case (see TestRunners).
CasesRaise ==
  /\ phase = "test"
  /\ canonical /\ hidden # {}
  /\ RunCommand
  /\ phase' = "idle"
  /\ UNCHANGED <<release, runDir, reports, id, submission, pending, undocked,
                 policyOf, returned>>

\* pytest runs every test, some skipped, or none when it cannot collect one.
PytestReports ==
  {Report(f) : f \in [hidden -> Outcomes] \cup [{} -> Outcomes]}

\* Without canonical suites pytest runs on the host.
RunPytest ==
  /\ phase = "test"
  /\ ~ canonical
  /\ ~ InDocker
  /\ RunOnHost
  /\ pending' \in PytestReports
  /\ phase' = "report"
  /\ UNCHANGED <<release, runDir, reports, id, submission, undocked, policyOf,
                 returned>>

\* In a sandbox there is no fallback: PBGenError, and a report without tests.
RefusePytest ==
  /\ phase = "test"
  /\ ~ canonical
  /\ InDocker
  /\ pending' = [FailedBuild(FALSE) EXCEPT !.buildSuccess = TRUE]
  /\ phase' = "report"
  /\ UNCHANGED <<release, runDir, reports, id, submission, history>>

\* pytest exceeds its 120 seconds: TimeoutExpired.
PytestTimesOut ==
  /\ phase = "test"
  /\ ~ canonical
  /\ ~ InDocker
  /\ RunOnHost
  /\ phase' = "idle"
  /\ UNCHANGED <<release, runDir, reports, id, submission, pending, undocked,
                 policyOf, returned>>

\* programbench_metrics_from_candidate_report.
Metrics(r) ==
  LET counted == ~ submission.disqualified
  IN  [of |-> r.of,
       resolved |-> r.buildSuccess /\ r.resolved /\ counted,
       almost   |-> r.buildSuccess /\ PassRateIs(r, 95) /\ counted,
       passed   |-> IF counted THEN r.passed ELSE 0]

\* _write_candidate_report makes two writes, _write_report a third.
WriteCandidateReport ==
  /\ phase = "report"
  /\ candidateReport' = pending
  /\ phase' = "metrics"
  /\ UNCHANGED <<release, runDir, metricsReport, networkReport, id, submission,
                 pending, history>>

Return ==
  /\ phase' = "idle"
  /\ returned' = returned \cup {id}

\* Mutant: a failed build has no metrics, and leaves those of an earlier one.
MetricsOfBuilds ==
  /\ phase = "metrics"
  /\ metricsReport' =
       IF pending.buildSuccess THEN Metrics(pending) ELSE metricsReport
  /\ IF InDocker THEN phase' = "network" /\ UNCHANGED returned ELSE Return
  /\ UNCHANGED <<release, runDir, candidateReport, networkReport, id,
                 submission, pending, onHost, inContainer, undocked, policyOf>>

WriteMetrics ==
  /\ phase = "metrics"
  /\ metricsReport' = Metrics(pending)
  /\ IF InDocker THEN phase' = "network" /\ UNCHANGED returned ELSE Return
  /\ UNCHANGED <<release, runDir, candidateReport, networkReport, id,
                 submission, pending, onHost, inContainer, undocked, policyOf>>

\* Mutant: every build that fails under Docker is taken for a blocked one.
BlockedWithoutReason(r) ==
  IF r.resolved /\ r.buildSuccess /\ PassRateIs(r, 100) THEN "passed"
  ELSE IF ~ r.buildSuccess THEN "blocked"
  ELSE "failed"

NetworkStatus(r) ==
  IF r.resolved /\ r.buildSuccess /\ PassRateIs(r, 100) THEN "passed"
  ELSE IF ~ r.buildSuccess /\ r.mentionsDocker THEN "blocked"
  ELSE "failed"

WriteNetworkReport ==
  /\ phase = "network"
  /\ networkReport' = [of |-> pending.of, status |-> NetworkStatus(pending)]
  /\ Return
  /\ UNCHANGED <<release, runDir, candidateReport, metricsReport, id,
                 submission, pending, onHost, inContainer, undocked, policyOf>>

Kill ==
  /\ phase # "idle"
  /\ phase' = "idle"
  /\ UNCHANGED <<release, runDir, reports, id, submission, pending, history>>

Next ==
  \/ Start
  \/ CopySource \/ CopyFails
  \/ Preflight \/ DockerMissing \/ DockerHangs
  \/ CommandAllowed \/ CommandBlocked
  \/ Build \/ BuildRefused \/ BuildTimesOut
  \/ WriteBuildLog \/ CheckBuild
  \/ RunCases \/ CasesAbort \/ CasesRaise
  \/ RunPytest \/ RefusePytest \/ PytestTimesOut
  \/ WriteCandidateReport \/ WriteMetrics \/ WriteNetworkReport
  \/ Kill

Spec == Init /\ [][Next]_vars
----------------------------------------------------------------------------
\* After a kill or an uncaught exception the three files may be of different
\* evaluations, but never is the metrics file newer than the report it is taken
\* from, nor the network report newer than both
\* (candidate_evaluator.py:383-410).
ReportsInOrder ==
  /\ metricsReport # None =>
       candidateReport # None /\ metricsReport.of <= candidateReport.of
  /\ networkReport # None =>
       metricsReport # None /\ networkReport.of <= metricsReport.of

\* When an evaluation has returned, report, metrics, build log and run directory
\* are its own and agree, and the network report is of the last evaluation that
\* returned under Docker (candidate_evaluator.py:92-95, 383-443).
ReportsOfOneEvaluation ==
  phase = "idle" /\ id \in returned =>
    /\ None \notin {candidateReport, metricsReport}
    /\ {candidateReport.of, metricsReport.of, runDir.of} = {id}
    /\ candidateReport.buildSuccess <=>
         runDir.log = "exit 0" /\ runDir.program # "none"
    /\ metricsReport.resolved =>
         candidateReport.resolved /\ metricsReport.passed = candidateReport.passed
    /\ \A i \in returned : policyOf[i] = Docker => networkReport.of >= i

\* A resolved candidate of a release with canonical suites was built, passed
\* every hidden test of which there is one at least, and is almost resolved in
\* the metrics unless it is disqualified (candidate_evaluator.py:188,
\* programbench_metrics.py:22-33).
ResolvedMeansPassed ==
  canonical =>
    /\ candidateReport # None /\ candidateReport.resolved =>
         /\ candidateReport.buildSuccess
         /\ candidateReport.passed = Cardinality(hidden)
         /\ hidden # {}
    /\ metricsReport # None /\ metricsReport.resolved => metricsReport.almost

\* A no-network report, whatever its status, is of an evaluation under
\* docker-no-network that ran candidate code nowhere on the host; a validated
\* one ran it in containers, and a blocked one ran none of it at all: neither
\* the build nor, in a release of pytest files, the tests
\* (candidate_evaluator.py:164-170, 435-443, submission_runner.py:135).
NetworkReportIsTrue ==
  networkReport # None =>
    LET i == networkReport.of
    IN  /\ policyOf[i] = Docker
        /\ i \notin onHost
        /\ networkReport.status = "passed" => i \in inContainer
        /\ networkReport.status = "blocked" => i \notin inContainer

\* "If Docker is unavailable [...] the evaluator writes a blocked [report]"
\* (docs/docker_no_network_evaluation.md:27): the report of an evaluation that
\* found Docker missing says so.  Not if it is missing once the program is built.
UnavailableMeansBlocked ==
  \A i \in returned \cap undocked :
    networkReport.of = i => networkReport.status = "blocked"

\* "% Resolved requires all hidden tests to pass"
\* (reporting/programbench_performance.py:79).  Not those that pytest skips.
ResolvedNeedsAll ==
  metricsReport # None /\ metricsReport.resolved =>
    metricsReport.passed = Cardinality(hidden)

\* Reports are in order wherever a call ended, and of one evaluation when it
\* returned (candidate_evaluator.py:383-443).
ReportsAreConsistent == TypeOK /\ ReportsInOrder /\ ReportsOfOneEvaluation
=============================================================================

-------------------------- MODULE CandidateProofs --------------------------
(***************************************************************************)
(* What holds of candidates, wherever calls end.  Of their evaluation:     *)
(* where candidate code runs, and what the reports say of it, for any      *)
(* tests, any number of evaluations, any submissions and policies.  Of the *)
(* solver: its report agrees with the candidate, the prompts and the       *)
(* responses on disk, for any number of rounds and of calls in one         *)
(* directory.  Of the runners: they give one verdict, for any cases, any   *)
(* program and any time limits.                                            *)
(***************************************************************************)
EXTENDS MCCandidateEvaluation, CandidateSolver, FiniteSetTheorems, SequenceTheorems, TLAPS

\* The process works on the evaluation it numbers, under its policy.
Current ==
  /\ phase \in Phases
  /\ id \in 0 .. MaxEvaluations
  /\ DOMAIN policyOf = 1 .. id
  /\ phase # "idle" => id >= 1 /\ submission.policy = policyOf[id]
  /\ onHost \cup inContainer \cup undocked \subseteq 1 .. id

\* Candidate code runs where the policy says, and not before the build.
RunsWherePolicySays ==
  /\ \A i \in onHost : policyOf[i] # Docker
  /\ \A i \in inContainer : policyOf[i] = Docker
  /\ phase \in {"copy", "preflight", "enforce", "build"} =>
       id \notin onHost \cup inContainer
  /\ phase \in {"log", "check", "test"} => id \in onHost \cup inContainer

\* The report about to be written is of this evaluation, has Docker in its
\* reason only if nothing ran, and resolves only what ran.
PendingIsTrue ==
  phase \in {"log", "check", "test", "report", "metrics", "network"} =>
    /\ pending.of = id
    /\ pending.resolved \in BOOLEAN
    /\ pending.mentionsDocker \in BOOLEAN
    /\ pending.mentionsDocker => id \notin inContainer \cup onHost
    /\ pending.resolved => id \in inContainer \cup onHost

\* Only an evaluation under Docker writes the network report.
NetworkOnlyDocker ==
  /\ phase = "network" => submission.policy = Docker
  /\ networkReport # None => networkReport.of \in 1 .. id
  /\ networkReport # None /\ networkReport.of = id =>
       phase = "idle"

EInv ==
  /\ Current
  /\ RunsWherePolicySays
  /\ PendingIsTrue
  /\ NetworkOnlyDocker
  /\ NetworkReportIsTrue

Reporting == {"report", "metrics", "network"}
Pending   == {"log", "check", "test"} \cup Reporting

\* The files and the report about to be written hold what their names say.
FilesTyped ==
  /\ hidden \subseteq Tests
  /\ canonical \in BOOLEAN
  /\ submission \in Submissions \cup {None}
  /\ phase # "idle" => submission \in Submissions
  /\ policyOf \in [1 .. id -> Policies]
  /\ runDir \in RunDirectories \cup {None}
  /\ id >= 1 => runDir \in RunDirectories /\ runDir.of = id
  /\ pending \in CandidateReports \cup {None}
  /\ phase \in Pending => pending \in CandidateReports
  /\ candidateReport \in CandidateReports \cup {None}
  /\ metricsReport \in MetricsReports \cup {None}
  /\ networkReport \in NetworkReports \cup {None}

\* The files of one evaluation appear one after the other, and all of them
\* before it returns.
FilesInOrder ==
  /\ ReportsInOrder
  /\ candidateReport # None =>
       /\ candidateReport.of <= id
       /\ candidateReport.of = id => phase \in {"metrics", "network", "idle"}
  /\ metricsReport # None /\ metricsReport.of = id => phase \in {"network", "idle"}
  /\ phase \in {"metrics", "network"} => candidateReport = pending
  /\ phase = "network" => metricsReport # None /\ metricsReport.of = id
  /\ returned \subseteq 1 .. id
  /\ id \in returned =>
       phase = "idle" /\ metricsReport # None /\ metricsReport.of = id
  /\ \A i \in returned :
       policyOf[i] = Docker => networkReport # None /\ networkReport.of >= i

\* What a report says of the build, the build log and the program say too.
BuildShown == runDir.log = "exit 0" /\ runDir.program # "none"

FilesAgree ==
  /\ phase = "check" => (pending.buildSuccess <=> runDir.log = "exit 0")
  /\ phase = "test" => BuildShown
  /\ phase \in Reporting => (pending.buildSuccess <=> BuildShown)
  /\ id \in returned => (candidateReport.buildSuccess <=> BuildShown)
  /\ metricsReport # None /\ metricsReport.of = candidateReport.of =>
       (metricsReport.resolved =>
          candidateReport.resolved /\ metricsReport.passed = candidateReport.passed)

\* A report that resolves canonical suites counts every hidden test as passed.
CountsAll(r) ==
  /\ r.buildSuccess
  /\ r.passed = Cardinality(hidden) /\ r.total = Cardinality(hidden)
  /\ hidden # {}

ResolvedCountsAll ==
  /\ phase \in {"log", "check"} => ~ pending.resolved
  /\ canonical =>
       /\ phase \in Reporting /\ pending.resolved => CountsAll(pending)
       /\ candidateReport # None /\ candidateReport.resolved =>
            CountsAll(candidateReport)
       /\ metricsReport # None /\ metricsReport.resolved => metricsReport.almost

\* The reports, invariant beside EInv.
RInv == FilesTyped /\ FilesInOrder /\ FilesAgree /\ ResolvedCountsAll
----------------------------------------------------------------------------
\* The invariant holds in every initial state.
LEMMA InitEInv == Init => EInv
  BY EvaluationAssumption
  DEF Init, EInv, Current, RunsWherePolicySays, PendingIsTrue,
      NetworkOnlyDocker, NetworkReportIsTrue, Phases

\* Every step preserves it, one action of the evaluation after the other.
LEMMA NextEInv == EInv /\ [Next]_vars => EInv'
<1> SUFFICES ASSUME EInv, [Next]_vars PROVE EInv'
  OBVIOUS
<1> USE EvaluationAssumption
    DEF EInv, Current, RunsWherePolicySays, PendingIsTrue, NetworkOnlyDocker,
        NetworkReportIsTrue, release, reports, history
<1>1. CASE Start
  <2>1. /\ id' = id + 1 /\ id' \in 1 .. MaxEvaluations
        /\ phase' = "copy" /\ networkReport' = networkReport
        /\ onHost' = onHost /\ inContainer' = inContainer /\ undocked' = undocked
    BY <1>1 DEF Start
  <2>2. /\ DOMAIN policyOf' = 1 .. id'
        /\ policyOf'[id'] = submission'.policy
        /\ \A i \in 1 .. id : policyOf'[i] = policyOf[i]
    BY <1>1, <2>1 DEF Start
  <2> QED
    BY <2>1, <2>2 DEF Phases
<1>2. CASE CopySource
  BY <1>2 DEF CopySource, Phases
<1>3. CASE CopyFails
  BY <1>3 DEF CopyFails, FailBuild, FailedBuild, Phases
<1>4. CASE Preflight
  BY <1>4 DEF Preflight, Phases
<1>5. CASE DockerMissing
  BY <1>5 DEF DockerMissing, FailBuild, FailedBuild, InDocker, Phases
<1>6. CASE DockerHangs
  BY <1>6 DEF DockerHangs, InDocker, Phases
<1>7. CASE CommandAllowed
  BY <1>7 DEF CommandAllowed, Phases
<1>8. CASE CommandBlocked
  BY <1>8 DEF CommandBlocked, FailBuild, FailedBuild, Phases
<1>9. CASE Build
  <2>1. /\ phase = "build" /\ phase' = "log"
        /\ id' = id /\ submission' = submission /\ policyOf' = policyOf
        /\ undocked' = undocked /\ networkReport' = networkReport
    BY <1>9 DEF Build
  <2>2. /\ pending'.of = id
        /\ pending'.mentionsDocker = FALSE
        /\ pending'.resolved = FALSE
    BY <1>9 DEF Build, FailedBuild
  <2>3. IF submission.policy = Docker
          THEN onHost' = onHost /\ inContainer' = inContainer \cup {id}
          ELSE onHost' = onHost \cup {id} /\ inContainer' = inContainer
    BY <1>9 DEF Build, RunCommand, InDocker
  <2>4. submission.policy = policyOf[id] /\ id \in 1 .. id
    BY <2>1
  <2>5. Current'
    BY <2>1, <2>3, <2>4 DEF Phases
  <2>6. RunsWherePolicySays'
    BY <2>1, <2>3, <2>4
  <2>7. PendingIsTrue' /\ NetworkOnlyDocker'
    BY <2>1, <2>2
  <2>8. networkReport # None => networkReport.of # id
    BY <2>1
  <2>9. NetworkReportIsTrue'
    BY <2>1, <2>3, <2>8
  <2> QED
    BY <2>5, <2>6, <2>7, <2>9
<1>10. CASE BuildRefused
  BY <1>10 DEF BuildRefused, FailBuild, FailedBuild, Phases
<1>11. CASE BuildTimesOut
  BY <1>11 DEF BuildTimesOut, RunCommand, InDocker, Phases
<1>12. CASE WriteBuildLog
  BY <1>12 DEF WriteBuildLog, Phases
<1>13. CASE CheckBuild
  BY <1>13 DEF CheckBuild, Phases
<1>14. CASE RunCases
  BY <1>14 DEF RunCases, RunCommand, Report, Resolved, InDocker, Phases
<1>15. CASE RunPytest
  <2>1. PICK f : pending' = Report(f)
    BY <1>15 DEF RunPytest, PytestReports
  <2>2. /\ pending'.of = id
        /\ pending'.mentionsDocker = FALSE
        /\ pending'.resolved \in BOOLEAN
    BY <2>1 DEF Report, Resolved
  <2> QED
    BY <1>15, <2>2 DEF RunPytest, RunOnHost, InDocker, Phases
<1>16. CASE RefusePytest
  BY <1>16 DEF RefusePytest, FailedBuild, Phases
<1>17. CASE PytestTimesOut
  BY <1>17 DEF PytestTimesOut, RunOnHost, InDocker, Phases
<1>18. CASE WriteCandidateReport
  BY <1>18 DEF WriteCandidateReport, Phases
<1>19. CASE WriteMetrics
  BY <1>19 DEF WriteMetrics, Return, InDocker, Phases
<1>20. CASE WriteNetworkReport
  BY <1>20 DEF WriteNetworkReport, Return, NetworkStatus, Phases
<1>21. CASE Kill
  BY <1>21 DEF Kill, Phases
<1>22. CASE CasesAbort
  BY <1>22 DEF CasesAbort, RunCommand, FailedBuild, InDocker, Phases
<1>23. CASE CasesRaise
  BY <1>23 DEF CasesRaise, RunCommand, InDocker, Phases
<1>24. CASE UNCHANGED vars
  BY <1>24 DEF vars
<1> QED
  BY <1>1, <1>2, <1>3, <1>4, <1>5, <1>6, <1>7, <1>8, <1>9, <1>10, <1>11, <1>12, <1>13,
     <1>14, <1>15, <1>16, <1>17, <1>18, <1>19, <1>20, <1>21, <1>22, <1>23, <1>24 DEF Next

\* What one report counts is within the bounds of a report, and a resolved one
\* of canonical cases counts them all.
LEMMA ReportCounts ==
  ASSUME id \in Ids, NEW S \in SUBSET Tests, NEW f \in [S -> Outcomes]
  PROVE  /\ Report(f) \in CandidateReports
         /\ Report(f).of = id /\ Report(f).buildSuccess
         /\ f \in [S -> {"passed", "failed", "error"}] /\ Report(f).resolved =>
              /\ Report(f).passed = Cardinality(S)
              /\ Report(f).total = Cardinality(S)
              /\ S # {}
<1>1. DOMAIN f = S /\ With(f, {"passed"}) \in SUBSET S
  BY DEF With
<1>2. IsFiniteSet(S) /\ Cardinality(S) <= Cardinality(Tests)
  BY EvaluationAssumption, FS_Subset
<1>3. Cardinality(With(f, {"passed"})) <= Cardinality(S)
  BY <1>1, <1>2, FS_Subset
<1>4. /\ Cardinality(With(f, {"passed"})) \in 0 .. Cardinality(Tests)
      /\ Cardinality(S) \in 0 .. Cardinality(Tests)
  <2>1. IsFiniteSet(With(f, {"passed"}))
    BY <1>1, <1>2, FS_Subset
  <2>2. /\ Cardinality(With(f, {"passed"})) \in Nat
        /\ Cardinality(S) \in Nat /\ Cardinality(Tests) \in Nat
    BY <1>2, <2>1, EvaluationAssumption, FS_CardinalityType
  <2> QED
    BY <1>2, <1>3, <2>2
<1>5. Resolved(f) \in BOOLEAN
  BY DEF Resolved
<1>6. Report(f) \in CandidateReports
  BY <1>1, <1>4, <1>5 DEF Report, CandidateReports
<1>7. ASSUME f \in [S -> {"passed", "failed", "error"}], Resolved(f)
      PROVE  With(f, {"passed"}) = S /\ S # {}
  BY <1>1, <1>7 DEF Resolved, With
<1> QED
  BY <1>1, <1>6, <1>7 DEF Report

\* A report of a build that failed, or of one whose tests gave no result.
LEMMA EmptyReports ==
  ASSUME id \in Ids, NEW b \in BOOLEAN
  PROVE  /\ FailedBuild(b) \in CandidateReports
         /\ FailedBuild(b).buildSuccess = FALSE
         /\ FailedBuild(b).resolved = FALSE
<1>1. 0 \in 0 .. Cardinality(Tests)
  BY EvaluationAssumption, FS_CardinalityType
<1> QED
  BY <1>1 DEF FailedBuild, CandidateReports

\* The same of a build that succeeded or did not.
LEMMA TestlessReports ==
  ASSUME id \in Ids, NEW ok \in BOOLEAN, NEW r,
         r = [FailedBuild(FALSE) EXCEPT !.buildSuccess = ok]
  PROVE  r \in CandidateReports /\ r.buildSuccess = ok /\ r.resolved = FALSE
<1>1. FailedBuild(FALSE) \in CandidateReports /\ FailedBuild(FALSE).resolved = FALSE
  BY EmptyReports
<1> QED
  BY <1>1 DEF CandidateReports

\* The metrics of a report of the build, and what they take from it.
LEMMA MetricsOfReport ==
  ASSUME NEW r \in CandidateReports
  PROVE  /\ Metrics(r) \in MetricsReports
         /\ Metrics(r).of = r.of
         /\ Metrics(r).resolved => r.resolved /\ Metrics(r).passed = r.passed
         /\ CountsAll(r) /\ hidden \subseteq Tests =>
              (Metrics(r).resolved => Metrics(r).almost)
<1>1. Metrics(r) \in MetricsReports
  BY EvaluationAssumption, FS_CardinalityType
  DEF Metrics, MetricsReports, CandidateReports, PassRateIs
<1>2. ASSUME CountsAll(r), hidden \subseteq Tests, Metrics(r).resolved
      PROVE  Metrics(r).almost
  <2>1. Cardinality(hidden) \in Nat /\ Cardinality(hidden) # 0
    BY <1>2, EvaluationAssumption, FS_Subset, FS_EmptySet, FS_CardinalityType
       DEF CountsAll
  <2>2. PassRateIs(r, 95)
    BY <1>2, <2>1 DEF CountsAll, PassRateIs
  <2> QED
    BY <1>2, <2>2 DEF Metrics
<1> QED
  BY <1>1, <1>2 DEF Metrics

\* The reports are in order in every initial state.
LEMMA InitRInv == Init => RInv
<1> SUFFICES ASSUME Init PROVE RInv
  OBVIOUS
<1>1. << >> \in [1 .. 0 -> Policies]
  OBVIOUS
<1> QED
  BY <1>1 DEF Init, RInv, FilesTyped, FilesInOrder, ReportsInOrder, FilesAgree,
     ResolvedCountsAll, Pending, Reporting

\* A step before the reports are written keeps them so, when the run directory
\* stays this evaluation's and the report to be written says what holds.
LEMMA StepBeforeReports ==
  ASSUME EInv, RInv,
         phase \notin {"idle"} \cup Reporting,
         phase' \notin {"metrics", "network"},
         UNCHANGED <<release, reports, id, submission, policyOf, returned>>,
         runDir' \in RunDirectories, runDir'.of = id,
         pending' \in CandidateReports \cup {None},
         phase' \in Pending => pending' \in CandidateReports,
         phase' = "check" => (pending'.buildSuccess <=> runDir'.log = "exit 0"),
         phase' = "test" => BuildShown',
         phase' = "report" => (pending'.buildSuccess <=> BuildShown'),
         phase' \in {"log", "check"} => ~ pending'.resolved,
         canonical /\ phase' = "report" /\ pending'.resolved => CountsAll(pending')
  PROVE  RInv'
<1> USE DEF RInv, release, reports
<1>1. FilesTyped'
  BY DEF FilesTyped
<1>2. id \notin returned
  BY DEF FilesInOrder
<1>3. FilesInOrder'
  BY <1>2 DEF FilesInOrder, ReportsInOrder, Reporting
<1>4. FilesAgree'
  BY <1>2 DEF FilesAgree, Reporting
<1>5. ResolvedCountsAll'
  BY DEF ResolvedCountsAll, CountsAll, Pending, Reporting
<1> QED
  BY <1>1, <1>3, <1>4, <1>5

\* Every step keeps them so, one action of the evaluation after the other.
LEMMA NextRInv == EInv /\ RInv /\ [Next]_vars => RInv'
<1> SUFFICES ASSUME EInv, RInv, [Next]_vars PROVE RInv'
  OBVIOUS
<1> USE EvaluationAssumption DEF Pending, Reporting
<1>0. /\ id \in 0 .. MaxEvaluations
      /\ phase # "idle" =>
           /\ id \in Ids /\ submission.policy = policyOf[id]
           /\ runDir \in RunDirectories /\ runDir.of = id
      /\ phase \in Pending => pending \in CandidateReports /\ pending.of = id
      /\ phase = "network" => submission.policy = Docker
      /\ pending \in CandidateReports \cup {None}
      /\ hidden \in SUBSET Tests
  BY DEF EInv, Current, PendingIsTrue, NetworkOnlyDocker, Ids, RInv, FilesTyped
<1>1. CASE Start
  <2>1. /\ phase = "idle" /\ phase' = "copy" /\ id' = id + 1 /\ id' \in Ids
        /\ submission' \in Submissions /\ pending' = None
        /\ UNCHANGED <<release, reports, returned>>
    BY <1>0, <1>1 DEF Start, Ids
  <2>2. runDir' \in RunDirectories /\ runDir'.of = id'
    BY <1>1, <2>1 DEF Start, RunDirectories
  <2>3. /\ policyOf' \in [1 .. id' -> Policies]
        /\ \A i \in 1 .. id : policyOf'[i] = policyOf[i]
    <3>1. submission'.policy \in Policies
      BY <2>1 DEF Submissions
    <3>2. policyOf \in [1 .. id -> Policies]
      BY DEF RInv, FilesTyped
    <3>3. policyOf' = [i \in 1 .. id + 1 |->
                        IF i = id + 1 THEN submission'.policy ELSE policyOf[i]]
      BY <1>1 DEF Start
    <3> QED
      BY <1>0, <2>1, <3>1, <3>2, <3>3
  <2>4. FilesTyped'
    BY <1>0, <2>1, <2>2, <2>3 DEF RInv, FilesTyped, release, reports
  <2>5. FilesInOrder' /\ id' \notin returned
    BY <1>0, <2>1, <2>3 DEF RInv, FilesInOrder, ReportsInOrder, FilesTyped, reports,
       CandidateReports, MetricsReports, Ids
  <2>6. FilesAgree' /\ ResolvedCountsAll'
    BY <2>1, <2>5 DEF RInv, FilesAgree, ResolvedCountsAll, CountsAll, release, reports
  <2> QED
    BY <2>4, <2>5, <2>6 DEF RInv
<1>2. CASE Preflight \/ CommandAllowed
  <2>1. /\ phase \in {"preflight", "enforce"} /\ phase' \in {"enforce", "build"}
        /\ UNCHANGED <<release, reports, id, submission, policyOf, returned,
                       runDir, pending>>
    BY <1>2 DEF Preflight, CommandAllowed, history
  <2> QED
    BY <1>0, <2>1, StepBeforeReports
<1>3. CASE CopySource
  <2>1. /\ phase = "copy" /\ phase' = "preflight"
        /\ UNCHANGED <<release, reports, id, submission, policyOf, returned, pending>>
        /\ \E p \in {"none", "shipped"} : runDir' = [runDir EXCEPT !.program = p]
    BY <1>3 DEF CopySource, history
  <2>2. PICK p \in {"none", "shipped"} : runDir' = [runDir EXCEPT !.program = p]
    BY <2>1
  <2>3. runDir' \in RunDirectories /\ runDir'.of = id
    BY <1>0, <2>1, <2>2 DEF RunDirectories
  <2> QED
    BY <1>0, <2>1, <2>3, StepBeforeReports
<1>4. CASE CopyFails \/ DockerMissing \/ CommandBlocked \/ BuildRefused
  <2>1. /\ phase \in {"copy", "preflight", "enforce", "build"} /\ phase' = "report"
        /\ UNCHANGED <<release, reports, id, submission, policyOf, returned>>
        /\ runDir' = [runDir EXCEPT !.log = "error"]
        /\ \E b \in BOOLEAN : pending' = FailedBuild(b)
    BY <1>4 DEF CopyFails, DockerMissing, CommandBlocked, BuildRefused, FailBuild
  <2>2. /\ pending' \in CandidateReports
        /\ pending'.buildSuccess = FALSE /\ pending'.resolved = FALSE
    BY <1>0, <2>1, EmptyReports
  <2>3. runDir' \in RunDirectories /\ runDir'.of = id /\ runDir'.log = "error"
    BY <1>0, <2>1 DEF RunDirectories
  <2> QED
    BY <2>1, <2>2, <2>3, StepBeforeReports DEF BuildShown
<1>5. CASE DockerHangs \/ CasesRaise \/ PytestTimesOut
  <2>1. /\ phase \in {"preflight", "build", "test"} /\ phase' = "idle"
        /\ UNCHANGED <<release, reports, id, submission, policyOf, returned,
                       runDir, pending>>
    BY <1>5 DEF DockerHangs, CasesRaise, PytestTimesOut
  <2> QED
    BY <1>0, <2>1, StepBeforeReports
<1>6. CASE Build
  <2>1. /\ phase = "build" /\ phase' = "log"
        /\ UNCHANGED <<release, reports, id, submission, policyOf, returned>>
        /\ \E p \in {"built", runDir.program} : runDir' = [runDir EXCEPT !.program = p]
        /\ \E ok \in BOOLEAN : pending' = [FailedBuild(FALSE) EXCEPT !.buildSuccess = ok]
    BY <1>6 DEF Build
  <2>2. pending' \in CandidateReports /\ pending'.resolved = FALSE
    BY <1>0, <2>1, TestlessReports
  <2>3. PICK p \in {"built", runDir.program} : runDir' = [runDir EXCEPT !.program = p]
    BY <2>1
  <2>4. p \in {"none", "shipped", "built"}
    BY <1>0, <2>1 DEF RunDirectories
  <2>5. runDir' \in RunDirectories /\ runDir'.of = id
    BY <1>0, <2>1, <2>3, <2>4 DEF RunDirectories
  <2> QED
    BY <2>1, <2>2, <2>5, StepBeforeReports
<1>7. CASE BuildTimesOut
  <2>1. /\ phase = "build" /\ phase' = "idle"
        /\ UNCHANGED <<release, reports, id, submission, policyOf, returned, pending>>
        /\ \E p \in {"built", runDir.program} : runDir' = [runDir EXCEPT !.program = p]
    BY <1>7 DEF BuildTimesOut
  <2>2. PICK p \in {"built", runDir.program} : runDir' = [runDir EXCEPT !.program = p]
    BY <2>1
  <2>3. p \in {"none", "shipped", "built"}
    BY <1>0, <2>1 DEF RunDirectories
  <2>4. runDir' \in RunDirectories /\ runDir'.of = id
    BY <1>0, <2>1, <2>2, <2>3 DEF RunDirectories
  <2> QED
    BY <1>0, <2>1, <2>4, StepBeforeReports
<1>8. CASE WriteBuildLog
  <2>1. /\ phase = "log" /\ phase' = "check"
        /\ UNCHANGED <<release, reports, id, submission, policyOf, returned, pending>>
        /\ runDir' = [runDir EXCEPT
             !.log = IF pending.buildSuccess THEN "exit 0" ELSE "exit 1"]
    BY <1>8 DEF WriteBuildLog, history
  <2>a. PICK l \in {"exit 0", "exit 1"} :
          /\ runDir' = [runDir EXCEPT !.log = l]
          /\ pending.buildSuccess <=> l = "exit 0"
    BY <2>1
  <2>2. /\ runDir' \in RunDirectories /\ runDir'.of = id
        /\ pending.buildSuccess <=> runDir'.log = "exit 0"
    BY <1>0, <2>1, <2>a DEF RunDirectories
  <2>3. ~ pending.resolved
    BY <2>1 DEF RInv, ResolvedCountsAll
  <2> QED
    BY <1>0, <2>1, <2>2, <2>3, StepBeforeReports
<1>9. CASE CheckBuild
  <2> DEFINE ok == pending.buildSuccess /\ runDir.program # "none"
  <2>1. /\ phase = "check" /\ phase' = IF ok THEN "test" ELSE "report"
        /\ UNCHANGED <<release, runDir, reports, id, submission, policyOf, returned>>
        /\ pending' = [pending EXCEPT !.buildSuccess = ok]
    BY <1>9 DEF CheckBuild, history
  <2>2. /\ pending \in CandidateReports /\ pending' \in CandidateReports
        /\ pending'.buildSuccess = ok /\ pending'.resolved = pending.resolved
        /\ pending'.passed = pending.passed /\ pending'.total = pending.total
    BY <1>0, <2>1 DEF CandidateReports
  <2>3. /\ pending.buildSuccess <=> runDir.log = "exit 0"
        /\ ok <=> BuildShown'
    BY <2>1 DEF RInv, FilesAgree, BuildShown
  <2>4. ~ pending.resolved
    BY <2>1 DEF RInv, ResolvedCountsAll
  <2> QED
    BY <1>0, <2>1, <2>2, <2>3, <2>4, StepBeforeReports
<1>10. CASE RunCases
  <2>1. /\ phase = "test" /\ phase' = "report"
        /\ UNCHANGED <<release, runDir, reports, id, submission, policyOf, returned>>
        /\ \E f \in [hidden -> {"passed", "failed", "error"}] : pending' = Report(f)
    BY <1>10 DEF RunCases
  <2>2. PICK f \in [hidden -> {"passed", "failed", "error"}] : pending' = Report(f)
    BY <2>1
  <2>3. f \in [hidden -> Outcomes]
    BY DEF Outcomes
  <2>4. /\ pending' \in CandidateReports /\ pending'.buildSuccess
        /\ pending'.resolved => CountsAll(pending')
    BY <1>0, <2>1, <2>2, <2>3, ReportCounts DEF CountsAll
  <2>5. BuildShown /\ (BuildShown' <=> BuildShown)
    BY <2>1 DEF RInv, FilesAgree, BuildShown
  <2> QED
    BY <1>0, <2>1, <2>4, <2>5, StepBeforeReports
<1>11. CASE CasesAbort \/ RefusePytest
  <2>1. /\ phase = "test" /\ phase' = "report"
        /\ UNCHANGED <<release, runDir, reports, id, submission, policyOf, returned>>
        /\ pending' = [FailedBuild(FALSE) EXCEPT !.buildSuccess = TRUE]
    BY <1>11 DEF CasesAbort, RefusePytest, history
  <2>2. /\ pending' \in CandidateReports
        /\ pending'.buildSuccess = TRUE /\ pending'.resolved = FALSE
    BY <1>0, <2>1, TestlessReports
  <2>3. BuildShown /\ (BuildShown' <=> BuildShown)
    BY <2>1 DEF RInv, FilesAgree, BuildShown
  <2> QED
    BY <1>0, <2>1, <2>2, <2>3, StepBeforeReports
<1>12. CASE RunPytest
  <2>1. /\ phase = "test" /\ phase' = "report" /\ ~ canonical
        /\ UNCHANGED <<release, runDir, reports, id, submission, policyOf, returned>>
        /\ \E f \in [hidden -> Outcomes] \cup [{} -> Outcomes] : pending' = Report(f)
    BY <1>12 DEF RunPytest, PytestReports
  <2>2. pending' \in CandidateReports /\ pending'.buildSuccess
    BY <1>0, <2>1, ReportCounts
  <2>3. BuildShown /\ (BuildShown' <=> BuildShown)
    BY <2>1 DEF RInv, FilesAgree, BuildShown
  <2> QED
    BY <1>0, <2>1, <2>2, <2>3, StepBeforeReports
<1>13. CASE WriteCandidateReport
  <2>1. /\ phase = "report" /\ phase' = "metrics" /\ candidateReport' = pending
        /\ UNCHANGED <<release, runDir, metricsReport, networkReport, id,
                       submission, pending, policyOf, returned>>
    BY <1>13 DEF WriteCandidateReport, history
  <2>2. /\ pending \in CandidateReports /\ pending.of = id /\ pending # None
        /\ id \notin returned
        /\ metricsReport # None => metricsReport.of <= id /\ metricsReport.of # id
    BY <1>0, <2>1 DEF RInv, FilesInOrder, ReportsInOrder, FilesTyped, Ids,
       CandidateReports, MetricsReports
  <2>3. FilesTyped' /\ FilesInOrder'
    BY <1>0, <2>1, <2>2 DEF RInv, FilesTyped, FilesInOrder, ReportsInOrder, release
  <2>4. FilesAgree' /\ ResolvedCountsAll'
    BY <2>1, <2>2 DEF RInv, FilesAgree, BuildShown, ResolvedCountsAll, CountsAll, release
  <2> QED
    BY <2>3, <2>4 DEF RInv
<1>14. CASE WriteMetrics
  <2>1. /\ phase = "metrics" /\ metricsReport' = Metrics(pending)
        /\ IF submission.policy = Docker
             THEN phase' = "network" /\ returned' = returned
             ELSE phase' = "idle" /\ returned' = returned \cup {id}
        /\ UNCHANGED <<release, runDir, candidateReport, networkReport, id,
                       submission, pending, policyOf>>
    BY <1>14 DEF WriteMetrics, Return, InDocker
  <2>2. /\ pending \in CandidateReports /\ pending.of = id
        /\ candidateReport = pending /\ candidateReport # None
        /\ id \notin returned
    BY <1>0, <2>1 DEF RInv, FilesInOrder
  <2>3. /\ metricsReport' \in MetricsReports /\ metricsReport' # None
        /\ metricsReport'.of = id
        /\ metricsReport'.resolved =>
             pending.resolved /\ metricsReport'.passed = pending.passed
        /\ CountsAll(pending) /\ metricsReport'.resolved => metricsReport'.almost
    BY <1>0, <2>1, <2>2, MetricsOfReport
  <2>4. networkReport # None => networkReport.of \in 1 .. id
    BY DEF EInv, NetworkOnlyDocker
  <2>5. FilesTyped'
    BY <1>0, <2>1, <2>3 DEF RInv, FilesTyped, release
  <2>6. FilesInOrder'
    <3>1. ReportsInOrder'
      BY <1>0, <2>1, <2>2, <2>3, <2>4 DEF ReportsInOrder, Ids
    <3>2. submission.policy = policyOf[id] /\ id \in 1 .. id
      BY <1>0, <2>1 DEF Ids
    <3>3. \A i \in returned' : policyOf[i] = Docker => i \in returned
      BY <2>1, <3>2, Zenon
    <3>4. \A i \in returned' :
            policyOf'[i] = Docker => networkReport' # None /\ networkReport'.of >= i
      BY <2>1, <3>3 DEF RInv, FilesInOrder
    <3>5. returned' \subseteq 1 .. id
      BY <2>1, <3>2 DEF RInv, FilesInOrder
    <3> QED
      BY <2>1, <2>2, <2>3, <3>1, <3>4, <3>5 DEF RInv, FilesInOrder
  <2>7. FilesAgree' /\ ResolvedCountsAll'
    BY <2>1, <2>2, <2>3
    DEF RInv, FilesAgree, BuildShown, ResolvedCountsAll, CountsAll, release
  <2> QED
    BY <2>5, <2>6, <2>7 DEF RInv
<1>15. CASE WriteNetworkReport
  <2>1. /\ phase = "network" /\ phase' = "idle" /\ returned' = returned \cup {id}
        /\ networkReport' = [of |-> pending.of, status |-> NetworkStatus(pending)]
        /\ UNCHANGED <<release, runDir, candidateReport, metricsReport, id,
                       submission, pending, policyOf>>
    BY <1>15 DEF WriteNetworkReport, Return
  <2>2. /\ candidateReport = pending /\ pending.of = id /\ id \in Ids
        /\ candidateReport # None
        /\ metricsReport # None /\ metricsReport.of = id
    BY <1>0, <2>1 DEF RInv, FilesInOrder
  <2>3. networkReport' \in NetworkReports /\ networkReport'.of = id
    BY <2>1, <2>2 DEF NetworkStatus, NetworkReports
  <2>4. FilesTyped'
    BY <1>0, <2>1, <2>3 DEF RInv, FilesTyped, release
  <2>5. FilesInOrder'
    BY <1>0, <2>1, <2>2, <2>3 DEF RInv, FilesInOrder, ReportsInOrder, Ids
  <2>6. FilesAgree' /\ ResolvedCountsAll'
    BY <2>1, <2>2 DEF RInv, FilesAgree, BuildShown, ResolvedCountsAll, CountsAll, release
  <2> QED
    BY <2>4, <2>5, <2>6 DEF RInv
<1>16. CASE Kill
  <2>1. /\ phase' = "idle" /\ phase # "idle"
        /\ UNCHANGED <<release, runDir, reports, id, submission, pending, policyOf,
                       returned>>
    BY <1>16 DEF Kill, history
  <2> QED
    BY <1>0, <2>1 DEF RInv, FilesTyped, FilesInOrder, ReportsInOrder, FilesAgree,
       BuildShown, ResolvedCountsAll, CountsAll, release, reports
<1>17. CASE UNCHANGED vars
  <2>1. FilesTyped' /\ FilesInOrder'
    BY <1>17 DEF vars, RInv, FilesTyped, FilesInOrder, ReportsInOrder, release,
       reports, history
  <2>2. FilesAgree' /\ ResolvedCountsAll'
    BY <1>17 DEF vars, RInv, FilesAgree, BuildShown, ResolvedCountsAll, CountsAll,
       release, reports, history
  <2> QED
    BY <2>1, <2>2 DEF RInv
<1> QED
  BY <1>1, <1>2, <1>3, <1>4, <1>5, <1>6, <1>7, <1>8, <1>9, <1>10, <1>11, <1>12,
     <1>13, <1>14, <1>15, <1>16, <1>17 DEF Next

\* What the other theorems are drawn from: where code ran and what the report
\* about to be written may claim, in every reachable state.
THEOREM EvaluationInvariant == Spec => []EInv
  BY InitEInv, NextEInv, PTL DEF Spec

\* EInv and the order and content of the reports, in every reachable state.
THEOREM ReportsInvariant == Spec => [](EInv /\ RInv)
  BY InitEInv, NextEInv, InitRInv, NextRInv, PTL DEF Spec

\* A no-network report is never of code that ran on the host, a validated one is
\* of code that ran in containers and a blocked one of none that ran, for any
\* releases, any mixture of policies, any paths and any absence of Docker
\* (candidate_evaluator.py:413-443, submission_runner.py:135).
THEOREM NetworkReportHolds == Spec => []NetworkReportIsTrue
<1>1. EInv => NetworkReportIsTrue
  BY DEF EInv
<1> QED
  BY <1>1, EvaluationInvariant, PTL

\* The three reports are in order wherever an evaluation ended, and when one
\* has returned they are its own and agree with its run directory
\* (candidate_evaluator.py:92-95, 383-443).
THEOREM ReportsConsistent == Spec => []ReportsAreConsistent
<1>1. EInv /\ RInv => TypeOK
  BY EvaluationAssumption
  DEF EInv, Current, RInv, FilesTyped, FilesInOrder, Pending, Reporting, TypeOK
<1>2. EInv /\ RInv => ReportsOfOneEvaluation
  <2> SUFFICES ASSUME EInv, RInv, id \in returned PROVE ReportsOfOneEvaluation
    BY DEF ReportsOfOneEvaluation
  <2>1. /\ metricsReport # None /\ metricsReport.of = id
        /\ candidateReport # None /\ candidateReport.of = id
        /\ id >= 1 /\ runDir.of = id
    BY EvaluationAssumption DEF EInv, Current, RInv, FilesTyped, FilesInOrder,
       ReportsInOrder, CandidateReports, Ids
  <2>2. candidateReport.buildSuccess <=> runDir.log = "exit 0" /\ runDir.program # "none"
    BY DEF RInv, FilesAgree, BuildShown
  <2>3. metricsReport.resolved =>
          candidateReport.resolved /\ metricsReport.passed = candidateReport.passed
    BY <2>1 DEF RInv, FilesAgree
  <2>4. \A i \in returned : policyOf[i] = Docker => networkReport.of >= i
    BY DEF RInv, FilesInOrder
  <2> QED
    BY <2>1, <2>2, <2>3, <2>4 DEF ReportsOfOneEvaluation
<1>3. EInv /\ RInv => ReportsAreConsistent
  BY <1>1, <1>2 DEF RInv, FilesInOrder, ReportsAreConsistent
<1> QED
  BY <1>3, ReportsInvariant, PTL

\* A resolved candidate passed every hidden test, of which there is one at
\* least, and resolved metrics are almost resolved
\* (candidate_evaluator.py:188, programbench_metrics.py:22-33).
THEOREM ResolvedPassed == Spec => []ResolvedMeansPassed
<1>1. RInv => ResolvedMeansPassed
  BY DEF RInv, ResolvedCountsAll, CountsAll, ResolvedMeansPassed
<1> QED
  BY <1>1, ReportsInvariant, PTL
-----------------------------------------------------------------------------
(* The solver, which works before any evaluation.                          *)

Working == {"request", "parse", "reset", "write", "build", "smoke"}

RoundRecords ==
  [accepted : BOOLEAN, apiCallSucceeded : BOOLEAN,
   hash : Contents \cup {Nothing}, feedback : Tags \cup {Nothing}]

\* The counters of the process, and how many rounds have been reported.
Counted ==
  /\ stage \in Stages
  /\ call \in 0 .. MaxCalls
  /\ stage # "idle" => call >= 1
  /\ maxRounds \in 0 .. MaxRounds
  /\ round \in 0 .. maxRounds
  /\ rounds \in Seq(RoundRecords)
  /\ Len(rounds) \in {round, round - 1}
  /\ stage \in {"loop", "report"} => Len(rounds) = round
  /\ stage \in Working => Len(rounds) = round - 1
  /\ report # Nothing =>
       /\ report.call \in Nat
       /\ IF stage = "idle" THEN report.call <= call ELSE report.call < call

\* What the files and the variables of a round hold.
Typed ==
  /\ prompts \in [1 .. MaxRounds -> Tags \cup {Nothing}]
  /\ responses \in [1 .. MaxRounds -> Contents \cup {Nothing}]
  /\ candidate \in [of : Tags \cup {Nothing}, whole : BOOLEAN, program : BOOLEAN]
  /\ feedback \in Tags \cup {Nothing}
  /\ responseHash \in Contents \cup {Nothing}
  /\ apiCallSucceeded \in BOOLEAN
  /\ buildOk \in BOOLEAN

\* The feedback kept for the next prompt is of the round just finished.
FeedbackInv ==
  stage = "loop" =>
    IF round = 0 THEN feedback = Nothing
    ELSE feedback = Tag /\ rounds[round].feedback = Tag

\* From the reply on, the hash is of what the response file holds.
HashInv ==
  stage \in {"parse", "reset", "write", "build", "smoke"} =>
    responses[round] = responseHash

\* Between the writes of two proposals, the script is the one on disk.
ScriptInv ==
  /\ stage \notin {"idle", "write"} /\ finalBuildScript # Nothing =>
       candidate.of = finalBuildScript /\ candidate.whole
  /\ stage \in {"build", "smoke"} =>
       candidate.of = Tag /\ candidate.whole /\ finalBuildScript = Tag

\* Nothing is accepted before the round that ends the loop.
AcceptedInv ==
  /\ stage \in Working \cup {"loop"} =>
       status = "failed" /\ \A i \in 1 .. Len(rounds) : ~ rounds[i].accepted
  /\ stage = "smoke" /\ buildOk => candidate.program
  /\ stage = "report" =>
       /\ candidate = [of |-> Tag, whole |-> TRUE, program |-> TRUE]
       /\ \A i \in 1 .. Len(rounds) : rounds[i].accepted <=> i = round
       /\ round >= 1

SInv ==
  /\ Counted
  /\ Typed
  /\ PromptsRepair
  /\ RoundsAudited
  /\ FeedbackInv
  /\ HashInv
  /\ ScriptInv
  /\ AcceptedInv
  /\ ReportNamesCandidate
  /\ CompletedIsBuilt

\* The rounds among R that had a successful call.
Answered(R) == {i \in DOMAIN R : R[i].apiCallSucceeded}

\* The calls of the reports, and the one of the round being worked on.
CallsInv ==
  /\ apiCalls \in 0 .. round
  /\ stage = "request" => ~ apiCallSucceeded /\ apiCalls < round
  /\ stage \in Working \ {"request"} =>
       apiCallSucceeded /\ responseHash \in Contents
  /\ stage # "idle" =>
       apiCalls = Cardinality(Answered(rounds))
                    + (IF stage \in Working \ {"request"} THEN 1 ELSE 0)

\* Each finished round is a report, and one with a reply had an answer.
RoundsInv ==
  /\ rounds \in Seq(RoundReports)
  /\ \A i \in DOMAIN rounds :
       rounds[i].hash.kind = "reply" => rounds[i].apiCallSucceeded

\* What the next report says of the call, and the report on disk.
ReportInv ==
  /\ finalBuildScript \in Tags \cup {Nothing}
  /\ status \in {"failed", "completed", "warnings"}
  /\ reason \in Tags \cup {Nothing, SmokeFailed}
  /\ report \in Reports \cup {Nothing}
  /\ report # Nothing =>
       /\ report.apiCalls = Cardinality(Answered(report.rounds))
       /\ \A i \in DOMAIN report.rounds :
            report.rounds[i].hash.kind = "reply" =>
              report.rounds[i].apiCallSucceeded

\* The account of the calls, invariant beside SInv.
AInv == CallsInv /\ RoundsInv /\ ReportInv
----------------------------------------------------------------------------
\* What appending one round report does to the reports.
LEMMA AppendFacts ==
  ASSUME NEW S, NEW s \in Seq(S), NEW e \in S
  PROVE  /\ Append(s, e) \in Seq(S)
         /\ Len(Append(s, e)) = Len(s) + 1
         /\ Append(s, e)[Len(s) + 1] = e
         /\ \A i \in 1 .. Len(s) : Append(s, e)[i] = s[i]
  OBVIOUS

\* A round that is reported leaves the prompts and the feedback they rest on.
LEMMA ReportingKeepsPrompts ==
  ASSUME NEW record, rounds \in Seq(RoundRecords), round \in Nat,
         Len(rounds) = round - 1, rounds' = Append(rounds, record),
         UNCHANGED <<prompts, call, round>>, PromptsRepair
  PROVE  PromptsRepair'
<1>1. \A i \in 1 .. round - 1 : rounds'[i] = rounds[i]
  OBVIOUS
<1>2. \A i \in 1 .. round : i # 1 => i - 1 \in 1 .. round - 1
  OBVIOUS
<1> QED
  BY <1>1, <1>2 DEF PromptsRepair

\* A refused round is reported.
LEMMA RejectKeepsPrompts ==
  ASSUME Counted, stage \in Working, PromptsRepair, Reject
  PROVE  PromptsRepair'
<1>1. PICK record : rounds' = Append(rounds, record)
  BY DEF Reject, FinishRound
<1>2. UNCHANGED <<prompts, call, round>>
  BY DEF Reject
<1>3. /\ rounds \in Seq(RoundRecords)
      /\ round \in Nat
      /\ Len(rounds) = round - 1
  BY DEF Counted
<1> QED
  BY <1>1, <1>2, <1>3, ReportingKeepsPrompts

\* The invariant holds in every initial state.
LEMMA InitSInv == SolverInit => SInv
<1> SUFFICES ASSUME SolverInit PROVE SInv
  OBVIOUS
<1> USE SolverAssumption DEF SolverInit
<1>1. << >> \in Seq(RoundRecords) /\ Len(<< >>) = 0
  OBVIOUS
<1>2. Counted
  BY <1>1 DEF Counted, Stages, Working
<1>3. Typed
  BY DEF Typed, EmptyCandidate
<1>4. PromptsRepair /\ RoundsAudited /\ FeedbackInv /\ HashInv
  BY <1>1 DEF PromptsRepair, RoundsAudited, FeedbackInv, HashInv
<1>5. ScriptInv /\ AcceptedInv
  BY DEF ScriptInv, AcceptedInv, Working
<1>6. ReportNamesCandidate /\ CompletedIsBuilt
  BY DEF ReportNamesCandidate, CompletedIsBuilt, Returned
<1> QED
  BY <1>2, <1>3, <1>4, <1>5, <1>6 DEF SInv

\* Every step preserves it, one action after the other.
LEMMA NextSInv == SInv /\ [SolverNext]_solverVars => SInv'
<1> SUFFICES ASSUME SInv, [SolverNext]_solverVars PROVE SInv'
  OBVIOUS
<1> USE SolverAssumption DEF SInv, files, locals, current, Tag, Working
<1>1. CASE CallSolver
  <2>1. Counted'
    <3>1. /\ << >> \in Seq(RoundRecords) /\ Len(<< >>) = 0
          /\ call' \in 1 .. MaxCalls
          /\ report # Nothing => report.call \in Nat /\ report.call < call'
      BY <1>1 DEF CallSolver, Counted
    <3> QED
      BY <1>1, <3>1 DEF CallSolver, Counted, Stages
  <2>2. Typed'
    BY <1>1 DEF CallSolver, Counted, Typed, Contents, Reply, Error, Tags
  <2>3. PromptsRepair' /\ RoundsAudited' /\ FeedbackInv' /\ HashInv'
    BY <1>1 DEF CallSolver, Counted, Typed, PromptsRepair,
         RoundsAudited, FeedbackInv, HashInv
  <2>4. ScriptInv' /\ AcceptedInv'
    BY <1>1 DEF CallSolver, Counted, Typed, ScriptInv, AcceptedInv
  <2>5. ReportNamesCandidate' /\ CompletedIsBuilt'
    BY <1>1 DEF CallSolver, Counted, Typed, ScriptInv, AcceptedInv,
         Returned, ReportNamesCandidate, CompletedIsBuilt
  <2> QED
    BY <2>1, <2>2, <2>3, <2>4, <2>5
<1>2. CASE BeginRound
  <2>1. Counted'
    BY <1>2 DEF BeginRound, Counted, Typed, Stages, Contents, Reply,
         Error, RoundRecords, Tags
  <2>2. Typed'
    BY <1>2 DEF BeginRound, Counted, Typed, Contents, Reply, Error, Tags
  <2>3. PromptsRepair' /\ RoundsAudited' /\ FeedbackInv' /\ HashInv'
    <3>1. /\ round \in Nat /\ Len(rounds) = round
          /\ round + 1 \in 1 .. MaxRounds
          /\ prompts' = [prompts EXCEPT ![round + 1] = feedback]
          /\ UNCHANGED <<responses, rounds, call>>
          /\ round' = round + 1
          /\ stage' = "request"
      BY <1>2 DEF BeginRound, Counted
    <3>2. prompts'[round + 1] = feedback
          /\ \A i \in 1 .. round : prompts'[i] = prompts[i]
      BY <3>1 DEF Typed
    <3>3. IF round = 0 THEN feedback = Nothing
          ELSE feedback = <<call, round>> /\ rounds[round].feedback = feedback
      BY <1>2 DEF BeginRound, FeedbackInv
    <3>4. PromptsRepair'
      BY <3>1, <3>2, <3>3 DEF PromptsRepair
    <3>5. RoundsAudited'
      BY <3>1 DEF RoundsAudited
    <3> QED
      BY <3>1, <3>4, <3>5 DEF FeedbackInv, HashInv
  <2>4. ScriptInv' /\ AcceptedInv'
    BY <1>2 DEF BeginRound, Counted, Typed, ScriptInv, AcceptedInv
  <2>5. ReportNamesCandidate' /\ CompletedIsBuilt'
    BY <1>2 DEF BeginRound, Counted, Typed, ScriptInv, AcceptedInv,
         Returned, ReportNamesCandidate, CompletedIsBuilt
  <2> QED
    BY <2>1, <2>2, <2>3, <2>4, <2>5
<1>3. CASE RequestFails
  <2>1. Counted'
    BY <1>3 DEF RequestFails, Reject, FinishRound, Counted, Typed, Stages, Contents, Reply,
         Error, RoundRecords, Tags
  <2>2. Typed'
    BY <1>3 DEF RequestFails, Reject, FinishRound, Counted, Typed, Contents, Reply,
       Error, Tags
  <2>3. PromptsRepair' /\ RoundsAudited' /\ FeedbackInv' /\ HashInv'
    <3>1. PromptsRepair'
      BY <1>3, RejectKeepsPrompts DEF RequestFails, Working
    <3>2. RoundsAudited'
      BY <1>3 DEF RequestFails, Reject, FinishRound, Counted, Typed, RoundsAudited, HashInv
    <3>3. FeedbackInv' /\ HashInv'
      BY <1>3 DEF RequestFails, Reject, FinishRound, Counted, Typed, FeedbackInv, HashInv
    <3> QED
      BY <3>1, <3>2, <3>3
  <2>4. ScriptInv' /\ AcceptedInv'
    BY <1>3 DEF RequestFails, Reject, FinishRound, Counted, Typed, ScriptInv, AcceptedInv
  <2>5. ReportNamesCandidate' /\ CompletedIsBuilt'
    BY <1>3 DEF RequestFails, Reject, FinishRound, Counted, Typed, ScriptInv, AcceptedInv,
         Returned, ReportNamesCandidate, CompletedIsBuilt
  <2> QED
    BY <2>1, <2>2, <2>3, <2>4, <2>5
<1>4. CASE RequestAnswered
  <2>1. Counted'
    BY <1>4 DEF RequestAnswered, Counted, Typed, Stages, Contents, Reply,
         Error, RoundRecords, Tags
  <2>2. Typed'
    BY <1>4 DEF RequestAnswered, Counted, Typed, Contents, Reply, Error, Tags
  <2>3. PromptsRepair' /\ RoundsAudited' /\ FeedbackInv' /\ HashInv'
    <3>1. PromptsRepair'
      BY <1>4 DEF RequestAnswered, Counted, Typed, PromptsRepair
    <3>2. RoundsAudited'
      BY <1>4 DEF RequestAnswered, Counted, Typed, RoundsAudited, HashInv
    <3>3. FeedbackInv' /\ HashInv'
      BY <1>4 DEF RequestAnswered, Counted, Typed, FeedbackInv, HashInv
    <3> QED
      BY <3>1, <3>2, <3>3
  <2>4. ScriptInv' /\ AcceptedInv'
    BY <1>4 DEF RequestAnswered, Counted, Typed, ScriptInv, AcceptedInv
  <2>5. ReportNamesCandidate' /\ CompletedIsBuilt'
    BY <1>4 DEF RequestAnswered, Counted, Typed, ScriptInv, AcceptedInv,
         Returned, ReportNamesCandidate, CompletedIsBuilt
  <2> QED
    BY <2>1, <2>2, <2>3, <2>4, <2>5
<1>5. CASE ProposalRefused
  <2>1. Counted'
    BY <1>5 DEF ProposalRefused, Reject, FinishRound, Counted, Typed, Stages, Contents,
       Reply,
         Error, RoundRecords, Tags
  <2>2. Typed'
    BY <1>5 DEF ProposalRefused, Reject, FinishRound, Counted, Typed, Contents, Reply,
       Error, Tags
  <2>3. PromptsRepair' /\ RoundsAudited' /\ FeedbackInv' /\ HashInv'
    <3>1. PromptsRepair'
      BY <1>5, RejectKeepsPrompts DEF ProposalRefused, Working
    <3>2. RoundsAudited'
      BY <1>5 DEF ProposalRefused, Reject, FinishRound, Counted, Typed, RoundsAudited, HashInv
    <3>3. FeedbackInv' /\ HashInv'
      BY <1>5 DEF ProposalRefused, Reject, FinishRound, Counted, Typed, FeedbackInv, HashInv
    <3> QED
      BY <3>1, <3>2, <3>3
  <2>4. ScriptInv' /\ AcceptedInv'
    BY <1>5 DEF ProposalRefused, Reject, FinishRound, Counted, Typed, ScriptInv, AcceptedInv
  <2>5. ReportNamesCandidate' /\ CompletedIsBuilt'
    BY <1>5 DEF ProposalRefused, Reject, FinishRound, Counted, Typed, ScriptInv,
       AcceptedInv,
         Returned, ReportNamesCandidate, CompletedIsBuilt
  <2> QED
    BY <2>1, <2>2, <2>3, <2>4, <2>5
<1>6. CASE ProposalParsed
  <2>1. Counted'
    BY <1>6 DEF ProposalParsed, Counted, Typed, Stages, Contents, Reply,
         Error, RoundRecords, Tags
  <2>2. Typed'
    BY <1>6 DEF ProposalParsed, Counted, Typed, Contents, Reply, Error, Tags
  <2>3. PromptsRepair' /\ RoundsAudited' /\ FeedbackInv' /\ HashInv'
    BY <1>6 DEF ProposalParsed, Counted, Typed, PromptsRepair,
         RoundsAudited, FeedbackInv, HashInv
  <2>4. ScriptInv' /\ AcceptedInv'
    BY <1>6 DEF ProposalParsed, Counted, Typed, ScriptInv, AcceptedInv
  <2>5. ReportNamesCandidate' /\ CompletedIsBuilt'
    BY <1>6 DEF ProposalParsed, Counted, Typed, ScriptInv, AcceptedInv,
         Returned, ReportNamesCandidate, CompletedIsBuilt
  <2> QED
    BY <2>1, <2>2, <2>3, <2>4, <2>5
<1>7. CASE ResetCandidate
  <2>1. Counted'
    BY <1>7 DEF ResetCandidate, EmptyCandidate, Counted, Typed, Stages, Contents, Reply,
         Error, RoundRecords, Tags
  <2>2. Typed'
    BY <1>7 DEF ResetCandidate, EmptyCandidate, Counted, Typed, Contents, Reply, Error, Tags
  <2>3. PromptsRepair' /\ RoundsAudited' /\ FeedbackInv' /\ HashInv'
    BY <1>7 DEF ResetCandidate, EmptyCandidate, Counted, Typed, PromptsRepair,
         RoundsAudited, FeedbackInv, HashInv
  <2>4. ScriptInv' /\ AcceptedInv'
    BY <1>7 DEF ResetCandidate, EmptyCandidate, Counted, Typed, ScriptInv, AcceptedInv
  <2>5. ReportNamesCandidate' /\ CompletedIsBuilt'
    BY <1>7 DEF ResetCandidate, EmptyCandidate, Counted, Typed, ScriptInv, AcceptedInv,
         Returned, ReportNamesCandidate, CompletedIsBuilt
  <2> QED
    BY <2>1, <2>2, <2>3, <2>4, <2>5
<1>8. CASE WriteProposal
  <2>1. Counted'
    BY <1>8 DEF WriteProposal, Counted, Typed, Stages, Contents, Reply,
         Error, RoundRecords, Tags
  <2>2. Typed'
    BY <1>8 DEF WriteProposal, Counted, Typed, Contents, Reply, Error, Tags
  <2>3. PromptsRepair' /\ RoundsAudited' /\ FeedbackInv' /\ HashInv'
    BY <1>8 DEF WriteProposal, Counted, Typed, PromptsRepair,
         RoundsAudited, FeedbackInv, HashInv
  <2>4. ScriptInv' /\ AcceptedInv'
    BY <1>8 DEF WriteProposal, Counted, Typed, ScriptInv, AcceptedInv
  <2>5. ReportNamesCandidate' /\ CompletedIsBuilt'
    BY <1>8 DEF WriteProposal, Counted, Typed, ScriptInv, AcceptedInv,
         Returned, ReportNamesCandidate, CompletedIsBuilt
  <2> QED
    BY <2>1, <2>2, <2>3, <2>4, <2>5
<1>9. CASE BuildCandidate
  <2>1. Counted'
    BY <1>9 DEF BuildCandidate, Built, Counted, Typed, Stages, Contents, Reply,
         Error, RoundRecords, Tags
  <2>2. Typed'
    BY <1>9 DEF BuildCandidate, Built, Counted, Typed, Contents, Reply, Error, Tags
  <2>3. PromptsRepair' /\ RoundsAudited' /\ FeedbackInv' /\ HashInv'
    BY <1>9 DEF BuildCandidate, Built, Counted, Typed, PromptsRepair,
         RoundsAudited, FeedbackInv, HashInv
  <2>4. ScriptInv' /\ AcceptedInv'
    BY <1>9 DEF BuildCandidate, Built, Counted, Typed, ScriptInv, AcceptedInv
  <2>5. ReportNamesCandidate' /\ CompletedIsBuilt'
    BY <1>9 DEF BuildCandidate, Built, Counted, Typed, ScriptInv, AcceptedInv,
         Returned, ReportNamesCandidate, CompletedIsBuilt
  <2> QED
    BY <2>1, <2>2, <2>3, <2>4, <2>5
<1>10. CASE AcceptCandidate
  <2>1. Counted'
    BY <1>10 DEF AcceptCandidate, FinishRound, Counted, Typed, Stages, Contents, Reply,
         Error, RoundRecords, Tags
  <2>2. Typed'
    BY <1>10 DEF AcceptCandidate, FinishRound, Counted, Typed, Contents, Reply, Error, Tags
  <2>3. PromptsRepair' /\ RoundsAudited' /\ FeedbackInv' /\ HashInv'
    BY <1>10 DEF AcceptCandidate, FinishRound, Counted, Typed, PromptsRepair,
         RoundsAudited, FeedbackInv, HashInv
  <2>4. ScriptInv' /\ AcceptedInv'
    <3>1. /\ round >= 1 /\ Len(rounds) = round - 1
          /\ candidate = [of |-> Tag, whole |-> TRUE, program |-> TRUE]
          /\ \A i \in 1 .. Len(rounds) : ~ rounds[i].accepted
      BY <1>10 DEF AcceptCandidate, Counted, Typed, ScriptInv, AcceptedInv
    <3>2. Tag \in Tags
      BY <1>10 DEF AcceptCandidate, Counted, Tags
    <3>3. PICK smokeOk \in BOOLEAN :
            FinishRound(TRUE, responseHash, IF smokeOk THEN Nothing ELSE Tag)
      BY <1>10 DEF AcceptCandidate
    <3>4. PICK x \in Tags \cup {Nothing} :
            rounds' = Append(rounds,
              [accepted |-> TRUE, apiCallSucceeded |-> apiCallSucceeded,
               hash |-> responseHash, feedback |-> x])
      BY <3>2, <3>3 DEF FinishRound
    <3>5. /\ Len(rounds') = round
          /\ \A i \in 1 .. round : rounds'[i].accepted <=> i = round
      BY <3>1, <3>4, AppendFacts DEF Counted, Typed, RoundRecords
    <3>6. /\ stage' = "report"
          /\ UNCHANGED <<candidate, call, round, finalBuildScript>>
          /\ finalBuildScript = Tag
      BY <1>10 DEF AcceptCandidate, ScriptInv
    <3> QED
      BY <3>1, <3>5, <3>6 DEF ScriptInv, AcceptedInv
  <2>5. ReportNamesCandidate' /\ CompletedIsBuilt'
    BY <1>10 DEF AcceptCandidate, FinishRound, Counted, Typed, ScriptInv, AcceptedInv,
         Returned, ReportNamesCandidate, CompletedIsBuilt
  <2> QED
    BY <2>1, <2>2, <2>3, <2>4, <2>5
<1>11. CASE FeedBack
  <2>1. Counted'
    BY <1>11 DEF FeedBack, FinishRound, Counted, Typed, Stages, Contents, Reply,
         Error, RoundRecords, Tags
  <2>2. Typed'
    BY <1>11 DEF FeedBack, FinishRound, Counted, Typed, Contents, Reply, Error, Tags
  <2>3. PromptsRepair' /\ RoundsAudited' /\ FeedbackInv' /\ HashInv'
    BY <1>11 DEF FeedBack, FinishRound, Counted, Typed, PromptsRepair,
         RoundsAudited, FeedbackInv, HashInv
  <2>4. ScriptInv' /\ AcceptedInv'
    BY <1>11 DEF FeedBack, FinishRound, Counted, Typed, ScriptInv, AcceptedInv
  <2>5. ReportNamesCandidate' /\ CompletedIsBuilt'
    BY <1>11 DEF FeedBack, FinishRound, Counted, Typed, ScriptInv, AcceptedInv,
         Returned, ReportNamesCandidate, CompletedIsBuilt
  <2> QED
    BY <2>1, <2>2, <2>3, <2>4, <2>5
<1>12. CASE WriteReport
  <2>1. Counted'
    BY <1>12 DEF WriteReport, Counted, Typed, Stages, Contents, Reply,
         Error, RoundRecords, Tags
  <2>2. Typed'
    BY <1>12 DEF WriteReport, Counted, Typed, Contents, Reply, Error, Tags
  <2>3. PromptsRepair' /\ RoundsAudited' /\ FeedbackInv' /\ HashInv'
    BY <1>12 DEF WriteReport, Counted, Typed, PromptsRepair,
         RoundsAudited, FeedbackInv, HashInv
  <2>4. ScriptInv' /\ AcceptedInv'
    BY <1>12 DEF WriteReport, Counted, Typed, ScriptInv, AcceptedInv
  <2>5. ReportNamesCandidate' /\ CompletedIsBuilt'
    BY <1>12 DEF WriteReport, Counted, Typed, ScriptInv, AcceptedInv,
         Returned, ReportNamesCandidate, CompletedIsBuilt
  <2> QED
    BY <2>1, <2>2, <2>3, <2>4, <2>5
<1>13. CASE Uncaught
  <2>1. Counted'
    BY <1>13 DEF Uncaught, Torn, Raising, EmptyCandidate, Counted, Typed, Stages,
       Contents, Reply,
         Error, RoundRecords, Tags
  <2>2. Typed'
    <3>1. stage = "write" => Tag \in Tags
      BY <1>13 DEF Uncaught, Counted, Tags
    <3>2. candidate' \in
            [of : Tags \cup {Nothing}, whole : BOOLEAN, program : BOOLEAN]
      BY <1>13, <3>1 DEF Uncaught, Torn, EmptyCandidate, Typed
    <3> QED
      BY <1>13, <3>2 DEF Uncaught, Typed
  <2>3. PromptsRepair' /\ RoundsAudited' /\ FeedbackInv' /\ HashInv'
    BY <1>13 DEF Uncaught, Torn, Raising, EmptyCandidate, Counted, Typed, PromptsRepair,
         RoundsAudited, FeedbackInv, HashInv
  <2>4. ScriptInv' /\ AcceptedInv'
    BY <1>13 DEF Uncaught, Torn, Raising, EmptyCandidate, Counted, Typed, ScriptInv,
       AcceptedInv
  <2>5. ReportNamesCandidate' /\ CompletedIsBuilt'
    BY <1>13 DEF Uncaught, Torn, Raising, EmptyCandidate, Counted, Typed, ScriptInv,
       AcceptedInv,
         Returned, ReportNamesCandidate, CompletedIsBuilt
  <2> QED
    BY <2>1, <2>2, <2>3, <2>4, <2>5
<1>14. CASE KillSolver
  <2>1. Counted'
    BY <1>14 DEF KillSolver, Torn, EmptyCandidate, Counted, Typed, Stages, Contents, Reply,
         Error, RoundRecords, Tags
  <2>2. Typed'
    <3>1. stage = "write" => Tag \in Tags
      BY <1>14 DEF KillSolver, Counted, Tags
    <3>2. candidate' \in
            [of : Tags \cup {Nothing}, whole : BOOLEAN, program : BOOLEAN]
      BY <1>14, <3>1 DEF KillSolver, Torn, EmptyCandidate, Typed
    <3> QED
      BY <1>14, <3>2 DEF KillSolver, Typed
  <2>3. PromptsRepair' /\ RoundsAudited' /\ FeedbackInv' /\ HashInv'
    BY <1>14 DEF KillSolver, Torn, EmptyCandidate, Counted, Typed, PromptsRepair,
         RoundsAudited, FeedbackInv, HashInv
  <2>4. ScriptInv' /\ AcceptedInv'
    BY <1>14 DEF KillSolver, Torn, EmptyCandidate, Counted, Typed, ScriptInv, AcceptedInv
  <2>5. ReportNamesCandidate' /\ CompletedIsBuilt'
    BY <1>14 DEF KillSolver, Torn, EmptyCandidate, Counted, Typed, ScriptInv, AcceptedInv,
         Returned, ReportNamesCandidate, CompletedIsBuilt
  <2> QED
    BY <2>1, <2>2, <2>3, <2>4, <2>5
<1>15. CASE UNCHANGED solverVars
  BY <1>15 DEF solverVars, Counted, Typed, PromptsRepair, RoundsAudited, FeedbackInv,
     HashInv,
     ScriptInv, AcceptedInv, ReportNamesCandidate, CompletedIsBuilt, Returned
<1> QED
  BY <1>1, <1>2, <1>3, <1>4, <1>5, <1>6, <1>7, <1>8, <1>9, <1>10, <1>11, <1>12, <1>13,
     <1>14, <1>15 DEF SolverNext

\* The relation of report, rounds and files in every reachable state.
THEOREM SolverInvariant == SolverSpec => []SInv
  BY InitSInv, NextSInv, PTL DEF SolverSpec

\* The answered rounds are finitely many.
LEMMA AnsweredFinite ==
  ASSUME NEW s \in Seq(RoundReports)
  PROVE  IsFiniteSet(Answered(s)) /\ Cardinality(Answered(s)) \in Nat
<1>1. IsFiniteSet(1 .. Len(s))
  BY FS_Interval
<1>2. Answered(s) \in SUBSET (1 .. Len(s))
  BY DEF Answered
<1> QED
  BY <1>1, <1>2, FS_Subset, FS_CardinalityType

\* One more report adds one answered round, or none.
LEMMA AnsweredAppend ==
  ASSUME NEW s \in Seq(RoundReports), NEW e \in RoundReports
  PROVE  /\ Append(s, e) \in Seq(RoundReports)
         /\ Cardinality(Answered(s)) \in Nat
         /\ Cardinality(Answered(Append(s, e))) =
              Cardinality(Answered(s)) + (IF e.apiCallSucceeded THEN 1 ELSE 0)
         /\ \A i \in DOMAIN Append(s, e) :
              IF i \in DOMAIN s THEN Append(s, e)[i] = s[i]
              ELSE Append(s, e)[i] = e
<1>1. /\ Append(s, e) \in Seq(RoundReports)
      /\ DOMAIN s = 1 .. Len(s) /\ Len(s) \in Nat
      /\ DOMAIN Append(s, e) = 1 .. (Len(s) + 1)
      /\ Append(s, e)[Len(s) + 1] = e
      /\ \A i \in 1 .. Len(s) : Append(s, e)[i] = s[i]
  BY AppendFacts
<1>2. IsFiniteSet(Answered(s)) /\ Cardinality(Answered(s)) \in Nat
  BY AnsweredFinite
<1>3. Answered(Append(s, e)) =
        IF e.apiCallSucceeded THEN Answered(s) \cup {Len(s) + 1} ELSE Answered(s)
  BY <1>1 DEF Answered
<1>4. Len(s) + 1 \notin Answered(s)
  BY <1>1 DEF Answered
<1>5. Cardinality(Answered(s) \cup {Len(s) + 1}) = Cardinality(Answered(s)) + 1
  BY <1>2, <1>4, FS_AddElement
<1>6. Cardinality(Answered(Append(s, e))) =
        Cardinality(Answered(s)) + (IF e.apiCallSucceeded THEN 1 ELSE 0)
  <2>1. CASE e.apiCallSucceeded
    BY <1>3, <1>5, <2>1
  <2>2. CASE ~ e.apiCallSucceeded
    BY <1>2, <1>3, <2>2
  <2> QED
    BY <2>1, <2>2
<1>7. \A i \in DOMAIN Append(s, e) :
        IF i \in DOMAIN s THEN Append(s, e)[i] = s[i] ELSE Append(s, e)[i] = e
  BY <1>1
<1> QED
  BY <1>1, <1>2, <1>6, <1>7

\* The account holds in every initial state.
LEMMA InitAInv == SolverInit => AInv
<1> SUFFICES ASSUME SolverInit PROVE AInv
  OBVIOUS
<1>1. << >> \in Seq(RoundReports) /\ DOMAIN << >> = {} /\ Len(<< >>) = 0
  OBVIOUS
<1>2. Cardinality(Answered(<< >>)) = 0
  BY <1>1, FS_EmptySet DEF Answered
<1> QED
  BY <1>1, <1>2 DEF SolverInit, AInv, CallsInv, RoundsInv, ReportInv, Working

\* A step that finishes a round keeps the account: the reply is answered, an
\* error message need not be.
LEMMA FinishedRound ==
  ASSUME SInv, AInv,
         NEW accepted \in BOOLEAN, NEW hash \in Contents,
         NEW about \in Tags \cup {Nothing},
         FinishRound(accepted, hash, about),
         hash.kind = "reply" => apiCallSucceeded,
         stage \in Working, stage' \in {"loop", "report"},
         UNCHANGED <<apiCalls, round, maxRounds>>
  PROVE  CallsInv' /\ RoundsInv'
<1> DEFINE e == [accepted |-> accepted, apiCallSucceeded |-> apiCallSucceeded,
                 hash |-> hash, feedback |-> about]
<1>1. e \in RoundReports
  BY DEF RoundReports, SInv, Typed
<1>2. rounds \in Seq(RoundReports) /\ rounds' = Append(rounds, e)
  BY DEF AInv, RoundsInv, FinishRound
<1>3. RoundsInv'
  BY <1>1, <1>2, AnsweredAppend DEF AInv, RoundsInv
<1>4. Cardinality(Answered(rounds')) =
        Cardinality(Answered(rounds)) + (IF apiCallSucceeded THEN 1 ELSE 0)
  BY <1>1, <1>2, AnsweredAppend
<1>5. CallsInv'
  BY <1>1, <1>2, <1>4, AnsweredAppend DEF AInv, CallsInv, Working
<1> QED
  BY <1>3, <1>5

\* Every step preserves the account, one action after the other.
LEMMA NextAInv == SInv /\ AInv /\ [SolverNext]_solverVars => AInv'
<1> SUFFICES ASSUME SInv, AInv, [SolverNext]_solverVars PROVE AInv'
  OBVIOUS
<1> USE SolverAssumption
<1>0. /\ round \in Nat /\ maxRounds \in 0 .. MaxRounds /\ round \in 0 .. maxRounds
      /\ stage \in Stages
      /\ Len(rounds) \in {round, round - 1}
      /\ stage \in Working => Tag \in Tags
      /\ stage # "idle" => call \in 1 .. MaxCalls
  BY DEF SInv, Counted, Working, Tag, Tags
<1>c. Cardinality(Answered(rounds)) \in Nat
  BY AnsweredFinite DEF AInv, RoundsInv
<1>1. CASE CallSolver
  <2>1. << >> \in Seq(RoundReports) /\ DOMAIN << >> = {} /\ Len(<< >>) = 0
    OBVIOUS
  <2>2. Cardinality(Answered(<< >>)) = 0
    BY <2>1, FS_EmptySet DEF Answered
  <2> QED
    BY <1>1, <2>1, <2>2 DEF CallSolver, files, AInv, CallsInv, RoundsInv, ReportInv, Working
<1>2. CASE BeginRound
  BY <1>0, <1>2 DEF BeginRound, locals, AInv, CallsInv, RoundsInv, ReportInv, Working
<1>3. CASE RequestFails \/ ProposalRefused
  <2>1. /\ Tag \in Tags
        /\ stage \in Working /\ stage' = "loop"
        /\ FinishRound(FALSE, Error(Tag), Tag)
        /\ UNCHANGED <<apiCalls, round, maxRounds>>
        /\ reason' = Tag
        /\ UNCHANGED <<report, finalBuildScript, status>>
    BY <1>0, <1>3 DEF RequestFails, ProposalRefused, Reject, Working
  <2>2. Error(Tag) \in Contents /\ Error(Tag).kind = "error"
    BY <2>1 DEF Contents, Error
  <2>3. CallsInv' /\ RoundsInv'
    BY <2>1, <2>2, FinishedRound
  <2>4. ReportInv'
    BY <2>1 DEF AInv, ReportInv
  <2> QED
    BY <2>3, <2>4 DEF AInv
<1>4. CASE RequestAnswered
  <2>1. Reply(Tag) \in Contents
    BY <1>0, <1>4 DEF RequestAnswered, Contents, Reply, Working
  <2>2. CallsInv'
    BY <1>0, <1>4, <1>c, <2>1 DEF RequestAnswered, AInv, CallsInv, Working
  <2> QED
    BY <1>4, <2>2 DEF RequestAnswered, AInv, RoundsInv, ReportInv
<1>5. CASE ProposalParsed \/ ResetCandidate \/ WriteProposal \/ BuildCandidate
  <2>1. /\ stage \in Working \ {"request"} /\ stage' \in Working \ {"request"}
        /\ UNCHANGED <<apiCalls, rounds, round, apiCallSucceeded, responseHash,
                       status, reason, report>>
        /\ finalBuildScript' \in {Tag, finalBuildScript}
    BY <1>5 DEF ProposalParsed, ResetCandidate, WriteProposal, BuildCandidate, files,
       locals, current, Working
  <2> QED
    BY <1>0, <2>1 DEF AInv, CallsInv, RoundsInv, ReportInv, Working
<1>6. CASE AcceptCandidate \/ FeedBack
  <2>1. /\ stage = "smoke" /\ stage' \in {"loop", "report"}
        /\ UNCHANGED <<apiCalls, round, maxRounds, report, finalBuildScript>>
        /\ status' \in {"failed", "completed", "warnings"}
        /\ reason' \in Tags \cup {Nothing, SmokeFailed}
    BY <1>6 DEF AcceptCandidate, FeedBack, files, AInv, ReportInv
  <2>2. \E accepted \in BOOLEAN, about \in {Nothing, Tag} :
          FinishRound(accepted, responseHash, about)
    BY <1>6 DEF AcceptCandidate, FeedBack
  <2>3. apiCallSucceeded /\ responseHash \in Contents
    BY <2>1 DEF AInv, CallsInv, Working
  <2>4. CallsInv' /\ RoundsInv'
    BY <1>0, <2>1, <2>2, <2>3, FinishedRound DEF Working
  <2>5. ReportInv'
    BY <2>1 DEF AInv, ReportInv
  <2> QED
    BY <2>4, <2>5 DEF AInv
<1>7. CASE WriteReport
  <2>1. /\ stage \in {"loop", "report"} /\ stage' = "idle"
        /\ UNCHANGED <<apiCalls, rounds, round, finalBuildScript, status, reason>>
        /\ report' = [call |-> call, status |-> status,
                      reason |-> IF finalBuildScript = Nothing /\ reason = Nothing
                                   THEN NoCandidate ELSE reason,
                      buildScript |-> finalBuildScript, apiCalls |-> apiCalls,
                      rounds |-> rounds]
    BY <1>7 DEF WriteReport, locals
  <2>2. apiCalls = Cardinality(Answered(rounds)) /\ apiCalls \in 0 .. MaxRounds
    BY <1>0, <1>c, <2>1 DEF AInv, CallsInv, Working
  <2>3. report' \in Reports
    BY <1>0, <2>1, <2>2 DEF AInv, RoundsInv, ReportInv, Reports
  <2>4. ReportInv'
    BY <2>1, <2>2, <2>3 DEF AInv, RoundsInv, ReportInv
  <2> QED
    BY <2>1, <2>4 DEF AInv, CallsInv, RoundsInv, Working
<1>8. CASE Uncaught \/ KillSolver
  <2>1. stage' = "idle" /\ UNCHANGED <<apiCalls, rounds, round, report,
                                       finalBuildScript, status, reason>>
    BY <1>8 DEF Uncaught, KillSolver, locals
  <2> QED
    BY <2>1 DEF AInv, CallsInv, RoundsInv, ReportInv, Working
<1>9. CASE UNCHANGED solverVars
  BY <1>9 DEF solverVars, files, locals, current, AInv, CallsInv, RoundsInv, ReportInv
<1> QED
  BY <1>1, <1>2, <1>3, <1>4, <1>5, <1>6, <1>7, <1>8, <1>9 DEF SolverNext

\* The account of the calls in every reachable state.
THEOREM SolverAccount == SolverSpec => [](SInv /\ AInv)
  BY InitSInv, NextSInv, InitAInv, NextAInv, PTL DEF SolverSpec

\* A returned report names the build script of the complete proposal in the
\* candidate directory (openai_solver.py:255-257).
THEOREM CandidateNamed == SolverSpec => []ReportNamesCandidate
<1>1. SInv => ReportNamesCandidate
  BY DEF SInv
<1> QED
  BY <1>1, SolverInvariant, PTL

\* A completed report stands for a built program and the one accepted round
\* (openai_solver.py:259-281).
THEOREM CompletedBuilt == SolverSpec => []CompletedIsBuilt
<1>1. SInv => CompletedIsBuilt
  BY DEF SInv
<1> QED
  BY <1>1, SolverInvariant, PTL

\* Each prompt is about the failure of the round before it
\* (openai_solver.py:226, 282, 289).
THEOREM PromptsAreRepairs == SolverSpec => []PromptsRepair
<1>1. SInv => PromptsRepair
  BY DEF SInv
<1> QED
  BY <1>1, SolverInvariant, PTL

\* The hash of each finished round is the hash of its response file
\* (openai_solver.py:252-253, 284-288).
THEOREM ResponsesAudited == SolverSpec => []RoundsAudited
<1>1. SInv => RoundsAudited
  BY DEF SInv
<1> QED
  BY <1>1, SolverInvariant, PTL

\* A returned report describes the candidate on disk, by its build script and,
\* when completed, by its program (openai_solver.py:255-281, 317-318).
THEOREM CandidateDescribed == SolverSpec => []ReportDescribesCandidate
<1>1. SInv => ReportDescribesCandidate
  BY DEF SInv, ReportDescribesCandidate
<1> QED
  BY <1>1, SolverInvariant, PTL

\* Variables, files and report hold what their names say; each finished round
\* has the hash of its response file; a returned report counts exactly the
\* rounds with a successful call, among them every round that left a reply
\* (openai_solver.py:248-253, 284-305).
THEOREM RoundsAccounted == SolverSpec => []RoundsAreAccounted
<1>1. SInv /\ AInv => SolverTypeOK
  <2> SUFFICES ASSUME SInv, AInv PROVE SolverTypeOK
    OBVIOUS
  <2>1. call \in 0 .. MaxCalls
    BY SolverAssumption DEF SInv, Counted, Stages
  <2> QED
    BY <2>1 DEF SInv, Counted, Typed, AInv, CallsInv, RoundsInv, ReportInv, SolverTypeOK
<1>2. SInv /\ AInv => CallsAccounted
  BY DEF AInv, ReportInv, Returned, CallsAccounted, Answered
<1>3. SInv /\ AInv => RoundsAreAccounted
  BY <1>1, <1>2 DEF SInv, RoundsAreAccounted
<1> QED
  BY <1>3, SolverAccount, PTL

-----------------------------------------------------------------------------
(* The runners.                                                            *)

\* A case that is rendered and passes, and one that an exception ends.
Good(i) == TestRunning!Rendered(cases[i], answers[i]) = "passed"
Wild(i) == TestRunning!Raises(cases[i], answers[i])

\* pytest finds every case, and Docker can be given what each of them needs.
Plain ==
  /\ TestRunning!Collected = DOMAIN cases
  /\ \A i \in DOMAIN cases : cases[i].portable

\* What a runner that came as far as a case has recorded.  Nothing is said of a
\* good case alone: two runners agree because each of them records of every
\* case whether it is good.
Recorded(list, next) ==
  /\ list \in Seq(TestRunning!Records) /\ Len(list) < next
  /\ \A i \in 1 .. Len(list) : list[i].case < next
  /\ \A i \in 1 .. Len(list) - 1 : list[i].case < list[i + 1].case
  /\ \A i \in 1 .. Len(list) : list[i].outcome = "passed" => ~Wild(list[i].case)
Faithful(list, next) ==
  docked /\ Plain =>
    /\ Len(list) + 1 = next
    /\ \A i \in 1 .. Len(list) :
         list[i].case = i /\ (list[i].outcome = "passed" <=> Good(i))

ProgramInv ==
  /\ cases \in Seq(TestRunning!Kinds) /\ Len(cases) <= MaxCases
  /\ answers \in [1 .. Len(cases) -> TestRunning!Responses]
RunInv ==
  /\ runner \in TestRunning!Runners \cup {None}
  /\ position \in 1 .. Len(cases) + 1
  /\ elapsed \in 0 .. PytestSeconds + CaseSeconds
  /\ docked \in BOOLEAN
  /\ Recorded(outcomes, position) /\ Faithful(outcomes, position)
ResultsInv ==
  /\ results = [r \in TestRunning!Runners |-> results[r]]
  /\ \A r \in TestRunning!Runners :
       results[r] \notin {None, Raised} =>
         Recorded(results[r], Len(cases) + 1) /\ Faithful(results[r], Len(cases) + 1)
  /\ results["host"] = Raised => \E i \in 1 .. Len(cases) : Wild(i)
RunnersInv == ProgramInv /\ RunInv /\ ResultsInv

LEMMA RunnersFacts ==
  /\ MaxCases \in Nat /\ CaseSeconds \in Nat /\ PytestSeconds \in Nat
  /\ Raised # None /\ Raised \notin TestRunning!Lists
  BY RunnersAssumed DEF TestRunning!RunnersAssumption

LEMMA ListsAreSequences ==
  /\ \A list \in Seq(TestRunning!Records) :
       Len(list) <= MaxCases => list \in TestRunning!Lists
  /\ TestRunning!Lists \subseteq Seq(TestRunning!Records)
<1>1. ASSUME NEW list \in Seq(TestRunning!Records), Len(list) <= MaxCases
      PROVE  list \in TestRunning!Lists
  <2>1. Len(list) \in 0 .. MaxCases /\ list \in [1 .. Len(list) -> TestRunning!Records]
    BY <1>1, RunnersFacts
  <2> QED
    BY <2>1 DEF TestRunning!Lists
<1>2. ASSUME NEW n \in 0 .. MaxCases, NEW list \in [1 .. n -> TestRunning!Records]
      PROVE  list \in Seq(TestRunning!Records)
  <2>1. n \in Nat
    OBVIOUS
  <2> QED
    BY <2>1, SeqDef
<1> QED
  BY <1>1, <1>2 DEF TestRunning!Lists

\* Nothing changes of the cases and what the program answers.
LEMMA ProgramStays ==
  ASSUME UNCHANGED <<cases, answers>>
  PROVE  /\ Plain' <=> Plain
         /\ \A i : (Good(i)' <=> Good(i)) /\ (Wild(i)' <=> Wild(i))
         /\ Len(cases)' = Len(cases)
<1>1. TestRunning!Collected' = TestRunning!Collected
  BY DEF TestRunning!Collected
<1>2. Plain' <=> Plain
  BY <1>1 DEF Plain
<1>3. ASSUME NEW i PROVE (Good(i)' <=> Good(i)) /\ (Wild(i)' <=> Wild(i))
  BY DEF Good, Wild
<1> QED
  BY <1>2, <1>3

LEMMA RecordedStays ==
  ASSUME NEW list, NEW next, UNCHANGED <<cases, answers>>, docked' => docked,
         Recorded(list, next), Faithful(list, next)
  PROVE  /\ (\A i \in 1 .. Len(list) : list[i].outcome = "passed" => ~Wild(list[i].case)')
         /\ docked' /\ Plain' =>
              /\ Len(list) + 1 = next
              /\ \A i \in 1 .. Len(list) :
                   list[i].case = i /\ (list[i].outcome = "passed" <=> Good(i)')
  BY ProgramStays DEF Recorded, Faithful

\* Each runner finds a case good that is good, if no exception ends it.
LEMMA OutcomesOfCases ==
  ASSUME ProgramInv, NEW i \in 1 .. Len(cases)
  PROVE  /\ TestRunning!OnHost(cases[i], answers[i]) \in TestRunning!Outcomes
         /\ TestRunning!InContainer(cases[i], answers[i]) \in TestRunning!Outcomes
         /\ TestRunning!Rendered(cases[i], answers[i]) \in TestRunning!Outcomes
         /\ ~Wild(i) => (TestRunning!OnHost(cases[i], answers[i]) = "passed" <=> Good(i))
         /\ TestRunning!InContainer(cases[i], answers[i]) = "passed" => cases[i].portable
         /\ ~Wild(i) /\ cases[i].portable =>
              (TestRunning!InContainer(cases[i], answers[i]) = "passed" <=> Good(i))
         /\ Good(i) => ~Wild(i)
<1> DEFINE c == cases[i]
           x == answers[i]
<1>1. /\ c.fixtures \in {"safe", "outside", "blocked"} /\ c.portable \in BOOLEAN
      /\ c.compiles \in BOOLEAN
  <2>1. c \in TestRunning!Kinds
    BY ElementOfSeq DEF ProgramInv
  <2> QED
    BY <2>1 DEF TestRunning!Kinds
<1>2. x \in {"expected", "different", "binary", "endless", "missing"}
  BY DEF ProgramInv, TestRunning!Responses
<1>3. TestRunning!Verdict[x] = CASE x = "expected" -> "passed"
                                 [] x = "missing"    -> "error"
                                 [] OTHER             -> "failed"
  BY <1>2 DEF TestRunning!Verdict, TestRunning!Responses
<1>4. Wild(i) <=> \/ c.fixtures = "blocked"
                  \/ c.fixtures = "safe" /\ (x = "binary" \/ (x = "expected" /\ ~c.compiles))
  BY DEF Wild, TestRunning!Raises
<1>5. /\ TestRunning!Rendered(c, x) = IF c.fixtures = "safe" /\ x = "expected" /\ c.compiles
                                      THEN "passed" ELSE "failed"
      /\ Good(i) <=> c.fixtures = "safe" /\ x = "expected" /\ c.compiles
  BY DEF Good, TestRunning!Rendered
<1>6. TestRunning!OnHost(c, x) = IF c.fixtures = "outside" THEN "error" ELSE TestRunning!Verdict[x]
  BY DEF TestRunning!OnHost
<1>7. TestRunning!InContainer(c, x) = CASE c.fixtures = "outside" \/ ~c.portable -> "error"
                                        [] x = "missing" -> "failed"
                                        [] OTHER -> TestRunning!Verdict[x]
  BY DEF TestRunning!InContainer
<1> HIDE DEF c, x
<1>8. /\ TestRunning!OnHost(c, x) \in {"passed", "failed", "error"}
      /\ ~Wild(i) => (TestRunning!OnHost(c, x) = "passed" <=> Good(i))
  BY <1>1, <1>2, <1>3, <1>4, <1>5, <1>6
<1>9. /\ TestRunning!InContainer(c, x) \in {"passed", "failed", "error"}
      /\ TestRunning!InContainer(c, x) = "passed" => c.portable
      /\ ~Wild(i) /\ c.portable => (TestRunning!InContainer(c, x) = "passed" <=> Good(i))
  BY <1>1, <1>2, <1>3, <1>4, <1>5, <1>7
<1> QED
  BY <1>4, <1>5, <1>8, <1>9 DEF c, x, TestRunning!Outcomes

\* One more case recorded.
LEMMA RecordKeeps ==
  ASSUME RunnersInv, NEW o \in TestRunning!Outcomes, UNCHANGED <<cases, answers>>,
         docked' => docked, position \in 1 .. Len(cases), position' = position + 1,
         outcomes' = Append(outcomes, [case |-> position, outcome |-> o]),
         o = "passed" => ~Wild(position),
         docked' /\ Plain => (o = "passed" <=> Good(position))
  PROVE  Recorded(outcomes, position)' /\ Faithful(outcomes, position)'
<1> DEFINE last == [case |-> position, outcome |-> o]
           n    == Len(outcomes)
<1>1. /\ outcomes \in Seq(TestRunning!Records) /\ n \in Nat /\ n < position
      /\ \A i \in 1 .. n : outcomes[i].case < position /\ outcomes[i].case \in Nat
      /\ \A i \in 1 .. n - 1 : outcomes[i].case < outcomes[i + 1].case
      /\ \A i \in 1 .. n : outcomes[i].outcome = "passed" => ~Wild(outcomes[i].case)
  <2>1. outcomes \in Seq(TestRunning!Records) /\ n \in Nat
    BY DEF RunnersInv, RunInv, Recorded
  <2>2. \A i \in 1 .. n : outcomes[i] \in TestRunning!Records
    BY <2>1, ElementOfSeq
  <2>3. \A i \in 1 .. n : outcomes[i].case \in Nat
    BY <2>2, RunnersFacts DEF TestRunning!Records
  <2> QED
    BY <2>1, <2>3 DEF RunnersInv, RunInv, Recorded
<1>2. docked /\ Plain => n + 1 = position /\
        \A i \in 1 .. n : outcomes[i].case = i /\ (outcomes[i].outcome = "passed" <=> Good(i))
  BY DEF RunnersInv, RunInv, Faithful
<1>3. last \in TestRunning!Records
  <2>1. Len(cases) \in Nat /\ Len(cases) <= MaxCases
    BY LenProperties DEF RunnersInv, ProgramInv
  <2>2. position \in 1 .. MaxCases
    BY <2>1, RunnersFacts
  <2> QED
    BY <2>2 DEF TestRunning!Records
<1>4. /\ outcomes' \in Seq(TestRunning!Records) /\ Len(outcomes') = n + 1
      /\ \A i \in 1 .. n : outcomes'[i] = outcomes[i]
      /\ outcomes'[n + 1] = last
  <2>1. /\ Append(outcomes, last) \in Seq(TestRunning!Records)
        /\ Len(Append(outcomes, last)) = n + 1
        /\ \A i \in 1 .. n : Append(outcomes, last)[i] = outcomes[i]
        /\ Append(outcomes, last)[n + 1] = last
    BY <1>1, <1>3, AppendProperties
  <2> QED
    BY <2>1
<1>5. last.case = position /\ last.outcome = o
  OBVIOUS
<1> HIDE DEF last, n
<1>6. position \in Nat /\ position' = position + 1
  BY <1>3 DEF RunnersInv, RunInv, ProgramInv
<1>7. \A i \in 1 .. n + 1 : i \in 1 .. n \/ i = n + 1
  BY <1>1
<1>8. Recorded(outcomes, position)'
  <2>1. \A i \in 1 .. n + 1 : outcomes'[i].case < position + 1
    BY <1>1, <1>4, <1>5, <1>6, <1>7
  <2>2. ASSUME NEW i \in 1 .. (n + 1) - 1 PROVE outcomes'[i].case < outcomes'[i + 1].case
    <3>1. i \in 1 .. n /\ outcomes'[i] = outcomes[i]
      BY <1>1, <1>4
    <3>2. CASE i = n
      BY <1>1, <1>4, <1>5, <3>1, <3>2
    <3>3. CASE i # n
      <4>1. i \in 1 .. n - 1 /\ i + 1 \in 1 .. n
        BY <1>1, <3>1, <3>3
      <4> QED
        BY <1>1, <1>4, <3>1, <4>1
    <3> QED
      BY <3>2, <3>3
  <2>3. \A i \in 1 .. n + 1 : outcomes'[i].outcome = "passed" => ~Wild(outcomes'[i].case)
    BY <1>1, <1>4, <1>5, <1>7
  <2>4. (\A i \in 1 .. Len(outcomes) : outcomes[i].outcome = "passed" => ~Wild(outcomes[i].case))'
    BY <1>4, <2>3 DEF Wild
  <2>5. n + 1 < position + 1
    BY <1>1, <1>6
  <2> QED
    BY <1>4, <1>6, <2>1, <2>2, <2>4, <2>5 DEF Recorded
<1>9. Faithful(outcomes, position)'
  <2>1. docked' /\ Plain' => docked /\ Plain
    BY ProgramStays
  <2>2. ASSUME docked', docked, Plain
        PROVE  /\ (n + 1) + 1 = position + 1
               /\ \A i \in 1 .. n + 1 :
                    outcomes'[i].case = i /\ (outcomes'[i].outcome = "passed" <=> Good(i))
    <3>1. n + 1 = position
      BY <1>2, <2>2
    <3>2. \A i \in 1 .. n :
            outcomes'[i].case = i /\ (outcomes'[i].outcome = "passed" <=> Good(i))
      BY <1>2, <1>4, <2>2
    <3>3. outcomes'[n + 1].case = n + 1 /\ (outcomes'[n + 1].outcome = "passed" <=> Good(n + 1))
      BY <1>4, <1>5, <2>2, <3>1
    <3> QED
      BY <1>1, <1>7, <3>1, <3>2, <3>3
  <2> QED
    BY <1>4, <1>6, <2>1, <2>2, ProgramStays DEF Faithful
<1> QED
  BY <1>8, <1>9

LEMMA RunnersStart == MCInit => RunnersInv
<1> SUFFICES ASSUME MCInit PROVE RunnersInv
  OBVIOUS
<1>1. /\ runner = None /\ position = 1 /\ outcomes = << >> /\ elapsed = 0 /\ docked = TRUE
      /\ results = [r \in TestRunning!Runners |-> None]
  BY DEF MCInit, NoCases, TestRunning!Init
<1>2. ProgramInv
  <2>1. CASE NoCases
    <3>1. cases = << >> /\ answers = << >>
      BY <2>1 DEF NoCases
    <3>2. << >> \in Seq(TestRunning!Kinds) /\ Len(<< >>) = 0
      OBVIOUS
    <3>3. << >> \in [1 .. 0 -> TestRunning!Responses]
      OBVIOUS
    <3> QED
      BY <3>1, <3>2, <3>3, RunnersFacts DEF ProgramInv
  <2>2. CASE TestRunning!Init
    <3>1. PICK n \in 1 .. MaxCases : cases \in [1 .. n -> TestRunning!Kinds]
      BY <2>2 DEF TestRunning!Init
    <3>2. n \in Nat /\ n <= MaxCases
      BY <3>1, RunnersFacts
    <3>3. cases \in Seq(TestRunning!Kinds)
      BY <3>1, <3>2, SeqDef
    <3>4. DOMAIN cases = 1 .. Len(cases) /\ Len(cases) = n
      BY <3>1, <3>2, <3>3, LenProperties
    <3>5. answers \in [1 .. Len(cases) -> TestRunning!Responses]
      BY <2>2, <3>4 DEF TestRunning!Init
    <3> QED
      BY <3>2, <3>3, <3>4, <3>5 DEF ProgramInv
  <2> QED
    BY <2>1, <2>2 DEF MCInit
<1>3. Recorded(outcomes, position) /\ Faithful(outcomes, position)
  <2>1. << >> \in Seq(TestRunning!Records) /\ Len(<< >>) = 0
    OBVIOUS
  <2> QED
    BY <1>1, <2>1 DEF Recorded, Faithful
<1>4. RunInv
  <2>1. Len(cases) \in Nat
    BY <1>2, LenProperties DEF ProgramInv
  <2> QED
    BY <1>1, <1>3, <2>1, RunnersFacts DEF RunInv
<1>5. ResultsInv
  BY <1>1, RunnersFacts DEF ResultsInv, TestRunning!Runners
<1> QED
  BY <1>2, <1>4, <1>5 DEF RunnersInv

\* What is on record stays true while the program is the same.
LEMMA RecordsStay ==
  ASSUME RunnersInv, UNCHANGED <<cases, answers, outcomes, position>>, docked' => docked
  PROVE  Recorded(outcomes, position)' /\ Faithful(outcomes, position)'
<1>1. Recorded(outcomes, position)'
  BY DEF RunnersInv, RunInv, Recorded, Wild
<1>2. Plain' <=> Plain
  BY ProgramStays
<1>3. Faithful(outcomes, position)'
  BY <1>2 DEF RunnersInv, RunInv, Faithful, Good
<1> QED
  BY <1>1, <1>3

LEMMA ResultsStay ==
  ASSUME RunnersInv, UNCHANGED <<cases, answers, results>>, docked' => docked
  PROVE  ResultsInv'
<1>1. Plain' <=> Plain
  BY ProgramStays
<1>2. ASSUME NEW r \in TestRunning!Runners, results'[r] \notin {None, Raised}
      PROVE  Recorded(results[r], Len(cases) + 1)' /\ Faithful(results[r], Len(cases) + 1)'
  <2>1. Recorded(results[r], Len(cases) + 1) /\ Faithful(results[r], Len(cases) + 1)
    BY <1>2 DEF RunnersInv, ResultsInv
  <2>2. Recorded(results[r], Len(cases) + 1)'
    BY <2>1 DEF Recorded, Wild
  <2>3. Faithful(results[r], Len(cases) + 1)'
    BY <1>1, <2>1 DEF Faithful, Good
  <2> QED
    BY <2>2, <2>3
<1>3. results'["host"] = Raised => \E i \in 1 .. Len(cases') : Wild(i)'
  BY DEF RunnersInv, ResultsInv, Wild
<1>4. results' = [r \in TestRunning!Runners |-> results'[r]]
  BY DEF RunnersInv, ResultsInv
<1> QED
  BY <1>2, <1>3, <1>4 DEF ResultsInv

\* A run ends with a value, and only a wild case takes a run on the host away.
LEMMA ResultKeeps ==
  ASSUME RunnersInv, UNCHANGED <<cases, answers, docked>>, runner \in TestRunning!Runners,
         NEW v, results' = [results EXCEPT ![runner] = v],
         v \notin {None, Raised} =>
           Recorded(v, Len(cases) + 1) /\ Faithful(v, Len(cases) + 1),
         runner = "host" /\ v = Raised => \E i \in 1 .. Len(cases) : Wild(i)
  PROVE  ResultsInv'
<1>1. Plain' <=> Plain
  BY ProgramStays
<1>2. ASSUME NEW r \in TestRunning!Runners
      PROVE  results'[r] = IF r = runner THEN v ELSE results[r]
  BY DEF RunnersInv, ResultsInv
<1>3. ASSUME NEW r \in TestRunning!Runners, results'[r] \notin {None, Raised}
      PROVE  Recorded(results[r], Len(cases) + 1)' /\ Faithful(results[r], Len(cases) + 1)'
  <2>1. Recorded(results'[r], Len(cases) + 1) /\ Faithful(results'[r], Len(cases) + 1)
    BY <1>2, <1>3 DEF RunnersInv, ResultsInv
  <2>2. Recorded(results[r], Len(cases) + 1)'
    BY <2>1 DEF Recorded, Wild
  <2>3. Faithful(results[r], Len(cases) + 1)'
    BY <1>1, <2>1 DEF Faithful, Good
  <2> QED
    BY <2>2, <2>3
<1>4. results'["host"] = Raised => \E i \in 1 .. Len(cases') : Wild(i)'
  BY <1>2 DEF RunnersInv, ResultsInv, Wild, TestRunning!Runners
<1>5. results' = [r \in TestRunning!Runners |-> results'[r]]
  BY DEF RunnersInv, ResultsInv
<1> QED
  BY <1>3, <1>4, <1>5 DEF ResultsInv

\* The case at hand is one of the program's.
LEMMA CaseAtHand ==
  ASSUME RunnersInv, TestRunning!AtCase
  PROVE  position \in 1 .. Len(cases) /\ runner \in TestRunning!Runners
<1>1. DOMAIN cases = 1 .. Len(cases)
  BY LenProperties DEF RunnersInv, ProgramInv
<1> QED
  BY <1>1 DEF TestRunning!AtCase, RunnersInv, RunInv

\* A step of a runner that records an outcome that is as good as the case.
LEMMA RecordingKeeps ==
  ASSUME RunnersInv, TestRunning!AtCase, NEW o \in TestRunning!Outcomes,
         TestRunning!Record(o), docked' \in BOOLEAN, docked' => docked,
         elapsed' \in 0 .. PytestSeconds + CaseSeconds,
         o = "passed" => ~Wild(position),
         docked' /\ Plain => (o = "passed" <=> Good(position))
  PROVE  RunnersInv'
<1>1. /\ position \in 1 .. Len(cases) /\ runner \in TestRunning!Runners
      /\ Len(cases) \in Nat
  BY CaseAtHand, LenProperties DEF RunnersInv, ProgramInv
<1>2. /\ UNCHANGED <<cases, answers, runner, results>> /\ position' = position + 1
      /\ outcomes' = Append(outcomes, [case |-> position, outcome |-> o])
  BY DEF TestRunning!Record, TestRunning!program
<1>3. Recorded(outcomes, position)' /\ Faithful(outcomes, position)'
  BY <1>1, <1>2, RecordKeeps
<1>4. ResultsInv'
  BY <1>2, ResultsStay
<1>5. ProgramInv'
  BY <1>2 DEF RunnersInv, ProgramInv
<1>6. RunInv'
  BY <1>1, <1>2, <1>3 DEF RunnersInv, RunInv
<1> QED
  BY <1>4, <1>5, <1>6 DEF RunnersInv

LEMMA RunnersStep ==
  ASSUME RunnersInv, TestRunning!Next
  PROVE  RunnersInv'
<1>1. /\ Len(cases) \in Nat /\ Len(cases) <= MaxCases /\ DOMAIN cases = 1 .. Len(cases)
      /\ runner \in TestRunning!Runners \cup {None} /\ position \in 1 .. Len(cases) + 1
      /\ elapsed \in 0 .. PytestSeconds + CaseSeconds /\ docked \in BOOLEAN
  BY LenProperties DEF RunnersInv, ProgramInv, RunInv
<1>2. CASE TestRunning!Start
  <2>1. /\ UNCHANGED <<cases, answers, results, docked>> /\ runner' \in TestRunning!Runners
        /\ position' = 1 /\ outcomes' = << >> /\ elapsed' = 0
    BY <1>2 DEF TestRunning!Start, TestRunning!program
  <2>2. << >> \in Seq(TestRunning!Records) /\ Len(<< >>) = 0
    OBVIOUS
  <2>3. Recorded(outcomes, position)' /\ Faithful(outcomes, position)'
    BY <2>1, <2>2 DEF Recorded, Faithful
  <2>4. ResultsInv'
    BY <2>1, ResultsStay
  <2>5. ProgramInv'
    BY <2>1 DEF RunnersInv, ProgramInv
  <2>6. RunInv'
    BY <1>1, <2>1, <2>3, RunnersFacts DEF RunInv
  <2> QED
    BY <2>4, <2>5, <2>6 DEF RunnersInv
<1>3. CASE TestRunning!RunOnHost
  <2>1. /\ TestRunning!AtCase /\ ~Wild(position) /\ UNCHANGED <<elapsed, docked>>
        /\ TestRunning!Record(TestRunning!OnHost(cases[position], answers[position]))
    BY <1>3 DEF TestRunning!RunOnHost, TestRunning!Case, TestRunning!Response, Wild
  <2>2. /\ TestRunning!OnHost(cases[position], answers[position]) \in TestRunning!Outcomes
        /\ TestRunning!OnHost(cases[position], answers[position]) = "passed" <=> Good(position)
    BY <2>1, CaseAtHand, OutcomesOfCases DEF RunnersInv
  <2> QED
    BY <1>1, <2>1, <2>2, RecordingKeeps
<1>4. CASE TestRunning!RunInContainer
  <2> DEFINE o == TestRunning!InContainer(cases[position], answers[position])
  <2>1. /\ TestRunning!AtCase /\ UNCHANGED <<elapsed, docked>> /\ TestRunning!Record(o)
        /\ ~Wild(position) \/ ~cases[position].portable
    BY <1>4 DEF TestRunning!RunInContainer, TestRunning!Case, TestRunning!Response, Wild
  <2>2. position \in 1 .. Len(cases)
    BY <2>1, CaseAtHand
  <2>3. /\ o \in TestRunning!Outcomes
        /\ o = "passed" => cases[position].portable
        /\ ~Wild(position) /\ cases[position].portable => (o = "passed" <=> Good(position))
    BY <2>2, OutcomesOfCases DEF RunnersInv
  <2>4. o = "passed" => ~Wild(position)
    BY <2>1, <2>3
  <2>5. Plain => (o = "passed" <=> Good(position))
    BY <1>1, <2>1, <2>2, <2>3 DEF Plain
  <2> HIDE DEF o
  <2> QED
    BY <1>1, <2>1, <2>3, <2>4, <2>5, RecordingKeeps
<1>5. CASE TestRunning!RunWithoutDocker
  <2>1. PICK o \in {"error", "failed"} : TestRunning!Record(o)
    BY <1>5 DEF TestRunning!RunWithoutDocker
  <2>2. TestRunning!AtCase /\ docked' = FALSE /\ elapsed' = elapsed
    BY <1>5 DEF TestRunning!RunWithoutDocker
  <2>3. o \in TestRunning!Outcomes /\ o # "passed"
    BY DEF TestRunning!Outcomes
  <2> QED
    BY <1>1, <2>1, <2>2, <2>3, RecordingKeeps
<1>6. CASE TestRunning!RunRaises
  <2>1. /\ TestRunning!AtCase /\ Wild(position) /\ runner' = None
        /\ UNCHANGED <<cases, answers, position, outcomes, elapsed, docked>>
        /\ results' = [results EXCEPT ![runner] = Raised]
    BY <1>6 DEF TestRunning!RunRaises, TestRunning!Raise, TestRunning!program,
                TestRunning!Case, TestRunning!Response, Wild
  <2>2. position \in 1 .. Len(cases) /\ runner \in TestRunning!Runners
    BY <2>1, CaseAtHand
  <2>3. ResultsInv'
    BY <2>1, <2>2, ResultKeeps
  <2>4. Recorded(outcomes, position)' /\ Faithful(outcomes, position)'
    BY <2>1, RecordsStay
  <2>5. ProgramInv'
    BY <2>1 DEF RunnersInv, ProgramInv
  <2>6. RunInv'
    BY <1>1, <2>1, <2>4 DEF RunInv
  <2> QED
    BY <2>3, <2>5, <2>6 DEF RunnersInv
<1>7. CASE TestRunning!RunFunction
  <2>1. TestRunning!AtCase /\ elapsed <= PytestSeconds /\ docked' = docked
    BY <1>7 DEF TestRunning!RunFunction
  <2>2. position \in 1 .. Len(cases)
    BY <2>1, CaseAtHand
  <2>3. CASE position \in TestRunning!Collected
    <3> DEFINE o == TestRunning!Rendered(cases[position], answers[position])
    <3>1. /\ TestRunning!Record(o)
          /\ elapsed' \in {elapsed, elapsed + CaseSeconds}
      BY <1>7, <2>3 DEF TestRunning!RunFunction, TestRunning!Case, TestRunning!Response
    <3>2. elapsed' \in 0 .. PytestSeconds + CaseSeconds
      BY <1>1, <2>1, <3>1, RunnersFacts
    <3>3. /\ o \in TestRunning!Outcomes /\ (o = "passed" <=> Good(position))
          /\ Good(position) => ~Wild(position)
      <4>1. o \in TestRunning!Outcomes /\ (Good(position) => ~Wild(position))
        BY <2>2, OutcomesOfCases DEF RunnersInv
      <4> QED
        BY <4>1 DEF Good
    <3> HIDE DEF o
    <3> QED
      BY <1>1, <2>1, <3>1, <3>2, <3>3, RecordingKeeps
  <2>4. CASE position \notin TestRunning!Collected
    <3>1. position' = position + 1 /\ UNCHANGED <<cases, answers, runner, outcomes, elapsed, results>>
      BY <1>7, <2>4 DEF TestRunning!RunFunction, TestRunning!program
    <3>2. ~Plain /\ ~Plain'
      BY <1>1, <2>2, <2>4, <3>1, ProgramStays DEF Plain
    <3>3. Recorded(outcomes, position)'
      <4>1. Recorded(outcomes, position)
        BY DEF RunnersInv, RunInv
      <4>2. Len(outcomes) \in Nat /\ (\A i \in 1 .. Len(outcomes) : outcomes[i].case \in Nat)
        <5>1. \A i \in 1 .. Len(outcomes) : outcomes[i] \in TestRunning!Records
          BY <4>1, ElementOfSeq DEF Recorded
        <5> QED
          BY <4>1, <5>1, LenProperties, RunnersFacts DEF Recorded, TestRunning!Records
      <4>3. Len(outcomes) < position + 1 /\ (\A i \in 1 .. Len(outcomes) : outcomes[i].case < position + 1)
        BY <1>1, <4>1, <4>2 DEF Recorded
      <4> QED
        BY <3>1, <4>1, <4>3 DEF Recorded, Wild
    <3>4. Faithful(outcomes, position)'
      BY <3>2 DEF Faithful
    <3>5. ResultsInv'
      BY <2>1, <3>1, ResultsStay
    <3>6. ProgramInv'
      BY <3>1 DEF RunnersInv, ProgramInv
    <3>7. RunInv'
      BY <1>1, <2>1, <2>2, <3>1, <3>3, <3>4 DEF RunInv
    <3> QED
      BY <3>5, <3>6, <3>7 DEF RunnersInv
  <2> QED
    BY <2>3, <2>4
<1>8. CASE TestRunning!PytestTimesOut
  <2>1. /\ runner = "pytest" /\ runner' = None
        /\ UNCHANGED <<cases, answers, position, outcomes, elapsed, docked>>
        /\ results' = [results EXCEPT ![runner] = Raised]
    BY <1>8 DEF TestRunning!PytestTimesOut, TestRunning!Raise, TestRunning!program
  <2>2. ResultsInv'
    BY <2>1, ResultKeeps DEF TestRunning!Runners
  <2>3. Recorded(outcomes, position)' /\ Faithful(outcomes, position)'
    BY <2>1, RecordsStay
  <2>4. ProgramInv'
    BY <2>1 DEF RunnersInv, ProgramInv
  <2>5. RunInv'
    BY <1>1, <2>1, <2>3 DEF RunInv
  <2> QED
    BY <2>2, <2>4, <2>5 DEF RunnersInv
<1>9. CASE TestRunning!Return
  <2>1. /\ runner # None /\ position > Len(cases) /\ runner' = None
        /\ UNCHANGED <<cases, answers, position, outcomes, elapsed, docked>>
        /\ results' = [results EXCEPT ![runner] = outcomes]
    BY <1>9 DEF TestRunning!Return, TestRunning!program
  <2>2. position = Len(cases) + 1 /\ runner \in TestRunning!Runners
    BY <1>1, <2>1
  <2>3. /\ Recorded(outcomes, Len(cases) + 1) /\ Faithful(outcomes, Len(cases) + 1)
        /\ outcomes # Raised
    <3>1. Recorded(outcomes, Len(cases) + 1) /\ Faithful(outcomes, Len(cases) + 1)
      BY <2>2 DEF RunnersInv, RunInv
    <3>2. outcomes \in Seq(TestRunning!Records) /\ Len(outcomes) <= MaxCases
      <4>1. outcomes \in Seq(TestRunning!Records) /\ Len(outcomes) < Len(cases) + 1
        BY <3>1 DEF Recorded
      <4>2. Len(outcomes) \in Nat
        BY <4>1, LenProperties
      <4> QED
        BY <1>1, <4>1, <4>2, RunnersFacts
    <3> QED
      BY <3>1, <3>2, ListsAreSequences, RunnersFacts
  <2>4. ResultsInv'
    BY <2>1, <2>2, <2>3, ResultKeeps
  <2>5. Recorded(outcomes, position)' /\ Faithful(outcomes, position)'
    BY <2>1, RecordsStay
  <2>6. ProgramInv'
    BY <2>1 DEF RunnersInv, ProgramInv
  <2>7. RunInv'
    BY <1>1, <2>1, <2>5 DEF RunInv
  <2> QED
    BY <2>4, <2>6, <2>7 DEF RunnersInv
<1> QED
  BY <1>2, <1>3, <1>4, <1>5, <1>6, <1>7, <1>8, <1>9 DEF TestRunning!Next

LEMMA RunnersInvariance == MCSpec => []RunnersInv
<1>1. MCInit => RunnersInv
  BY RunnersStart
<1>2. RunnersInv /\ [MCNext]_<<vars, testVars>> => RunnersInv'
  <2> SUFFICES ASSUME RunnersInv, [MCNext]_<<vars, testVars>> PROVE RunnersInv'
    OBVIOUS
  <2>1. CASE UNCHANGED testVars
    <3>1. /\ UNCHANGED <<cases, answers, results, docked, outcomes, position, runner, elapsed>>
      BY <2>1 DEF testVars
    <3>2. Recorded(outcomes, position)' /\ Faithful(outcomes, position)'
      BY <3>1, RecordsStay
    <3>3. ResultsInv'
      BY <3>1, ResultsStay
    <3>4. ProgramInv' /\ RunInv'
      BY <3>1, <3>2 DEF RunnersInv, ProgramInv, RunInv
    <3> QED
      BY <3>3, <3>4 DEF RunnersInv
  <2>2. CASE TestRunning!Next
    BY <2>2, RunnersStep
  <2> QED
    BY <2>1, <2>2 DEF MCNext, testVars
<1> QED
  BY <1>1, <1>2, PTL DEF MCSpec

\* The cases that a returned runner of a plain program passed are the good
\* ones, and it resolved the program if there is no other.
LEMMA ReturnedIsFaithful ==
  ASSUME RunnersInv, docked, Plain, NEW r \in TestRunning!Runners, TestRunning!Returned(r)
  PROVE  /\ TestRunning!Passed(r) = {i \in 1 .. Len(cases) : Good(i)}
         /\ TestRunning!Resolved(r) <=> Len(cases) # 0 /\ \A i \in 1 .. Len(cases) : Good(i)
<1> DEFINE list == results[r]
           n    == Len(cases)
<1>1. /\ n \in Nat /\ list \in Seq(TestRunning!Records) /\ Len(list) = n
      /\ \A i \in 1 .. n : list[i].case = i /\ (list[i].outcome = "passed" <=> Good(i))
  <2>1. Recorded(list, n + 1) /\ Faithful(list, n + 1)
    BY DEF RunnersInv, ResultsInv, TestRunning!Returned
  <2>2. n \in Nat /\ Len(list) \in Nat /\ list \in Seq(TestRunning!Records)
    BY <2>1, LenProperties DEF RunnersInv, ProgramInv, Recorded
  <2> QED
    BY <2>1, <2>2 DEF Faithful
<1>2. DOMAIN list = 1 .. n /\ (list # << >> <=> n # 0)
  BY <1>1, LenProperties, EmptySeq
<1>3. TestRunning!Passed(r) = {list[i].case : i \in {i \in 1 .. n : list[i].outcome = "passed"}}
  BY <1>2 DEF TestRunning!Passed
<1>4. TestRunning!Resolved(r) <=> list # << >> /\ \A i \in 1 .. n : list[i].outcome = "passed"
  BY <1>2 DEF TestRunning!Resolved
<1> HIDE DEF list, n
<1>5. TestRunning!Passed(r) = {i \in 1 .. n : Good(i)}
  BY <1>1, <1>3
<1>6. TestRunning!Resolved(r) <=> n # 0 /\ \A i \in 1 .. n : Good(i)
  BY <1>1, <1>2, <1>4
<1> QED
  BY <1>5, <1>6 DEF n

\* The host, Docker and pytest pass the same cases and resolve the same
\* programs, if pytest finds every case and Docker can be given what it needs,
\* and no runner that returns passes a case that would take the run on the host
\* away, for any cases, any program and any limits
\* (eval/executable_runner.py:112-236, testgen/test_writer.py:677-753).
THEOREM RunnersGiveOneVerdict == MCSpec => []RunnersAgree
<1>1. RunnersInv => TestRunning!TypeOK
  <2> SUFFICES ASSUME RunnersInv PROVE TestRunning!TypeOK
    OBVIOUS
  <2>1. Len(cases) \in Nat /\ Len(cases) <= MaxCases
    BY LenProperties DEF RunnersInv, ProgramInv
  <2>2. ASSUME NEW list, NEW next \in 1 .. Len(cases) + 1, Recorded(list, next)
        PROVE  /\ list \in TestRunning!Lists
               /\ \A i \in 1 .. Len(list) - 1 : list[i].case < list[i + 1].case
    <3>1. list \in Seq(TestRunning!Records) /\ Len(list) \in Nat /\ Len(list) < next
      BY <2>2, LenProperties DEF Recorded
    <3>2. Len(list) <= MaxCases
      BY <2>1, <3>1, RunnersFacts
    <3> QED
      BY <2>2, <3>1, <3>2, ListsAreSequences DEF Recorded
  <2>3. Recorded(outcomes, position) /\ position \in 1 .. Len(cases) + 1
    BY DEF RunnersInv, RunInv
  <2>4. ASSUME NEW r \in TestRunning!Runners, results[r] \notin {None, Raised}
        PROVE  Recorded(results[r], Len(cases) + 1) /\ Len(cases) + 1 \in 1 .. Len(cases) + 1
    BY <2>1, <2>4 DEF RunnersInv, ResultsInv
  <2>5. outcomes \in TestRunning!Lists
    BY <2>2, <2>3
  <2>6. results \in [TestRunning!Runners -> TestRunning!Lists \cup {None, Raised}]
    <3>1. \A r \in TestRunning!Runners : results[r] \in TestRunning!Lists \cup {None, Raised}
      BY <2>2, <2>4
    <3> QED
      BY <3>1 DEF RunnersInv, ResultsInv
  <2>7. \A list \in {outcomes} \cup
            {results[r] : r \in {r \in TestRunning!Runners : results[r] \notin {None, Raised}}} :
          \A i \in 1 .. Len(list) - 1 : list[i].case < list[i + 1].case
    BY <2>2, <2>3, <2>4
  <2> QED
    BY <2>5, <2>6, <2>7 DEF RunnersInv, RunInv, TestRunning!TypeOK
<1>2. RunnersInv => TestRunning!RunnersAgree
  <2> SUFFICES ASSUME RunnersInv, docked, Plain,
                      NEW r \in {x \in TestRunning!Runners : TestRunning!Returned(x)},
                      NEW s \in {x \in TestRunning!Runners : TestRunning!Returned(x)}
               PROVE  /\ TestRunning!Passed(r) = TestRunning!Passed(s)
                      /\ TestRunning!Resolved(r) <=> TestRunning!Resolved(s)
    BY DEF TestRunning!RunnersAgree, Plain
  <2> QED
    BY ReturnedIsFaithful
<1>3. RunnersInv => TestRunning!RaisingCasesNeverPass
  <2> SUFFICES ASSUME RunnersInv, results["host"] = Raised,
                      NEW r \in TestRunning!Runners, TestRunning!Returned(r)
               PROVE  \E i \in DOMAIN cases :
                        i \notin TestRunning!Passed(r) /\ TestRunning!Raises(cases[i], answers[i])
    BY DEF TestRunning!RaisingCasesNeverPass
  <2>1. PICK i \in 1 .. Len(cases) : Wild(i)
    BY DEF RunnersInv, ResultsInv
  <2>2. i \in DOMAIN cases
    BY LenProperties DEF RunnersInv, ProgramInv
  <2>3. Recorded(results[r], Len(cases) + 1)
    BY DEF RunnersInv, ResultsInv, TestRunning!Returned
  <2>4. DOMAIN results[r] = 1 .. Len(results[r])
    BY <2>3, LenProperties DEF Recorded
  <2>5. ASSUME NEW k \in DOMAIN results[r], results[r][k].outcome = "passed"
        PROVE  results[r][k].case # i
    BY <2>1, <2>3, <2>4, <2>5 DEF Recorded
  <2>6. i \notin TestRunning!Passed(r)
    BY <2>5 DEF TestRunning!Passed
  <2> QED
    BY <2>1, <2>2, <2>6 DEF Wild
<1>4. RunnersInv => RunnersAgree
  BY <1>1, <1>2, <1>3 DEF RunnersAgree
<1> QED
  BY <1>4, RunnersInvariance, PTL
=============================================================================

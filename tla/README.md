# ProgramBench task generator: TLA+ models, checks and proofs

`pbgen` turns a command line program into a benchmark task. It builds a gold
executable from a repository, probes its behaviour, generates executable tests
for it, filters them, packages a public solver side and a private evaluator
side, and evaluates candidate programs against the private tests. It is one
sequential process per command; what makes it hard is not threads but files:
every command starts from whatever earlier commands, earlier runs of the same
command and killed runs left in the artifact directory.

## Inventory

| Component | State it keeps | Operations | What is hard | What makes it correct |
|---|---|---|---|---|
| test store (`testgen/test_writer.py`, `eval/executable_runner.py`) | suite files, pytest renderings, artifact records, bare pytest files | write a suite, draw it, record it, load all suites | three writes, two independent numberings, files of earlier runs stay | a recorded rendering tests its suite and no other |
| hard gates (`quality/`) | per pass: lint flags, outcomes by name, rejected names | lint, n gold runs, three dummies, filter file by file | verdict by *name*, files by *instance*; filter and re-render are two writes | what is left was passed by gold n times, by no dummy, and is alone under its name |
| generation controller (`testgen/controller.py`) | iteration, prompt state, previous coverage | iterate: generate, gate, re-run, measure, decide | `continue` skips updates; prompt state is read back from disk | the loop ends, where the stopping rule says; the prompt is current |
| model backend, hosted adapter (`testgen/model_backend.py`, `hosted_model_adapter.py`) | prompt, reply, request, diagnostics, suite per iteration | ask in rounds, merge, validate, observe on gold, revise, write | failing after work was paid for; five separate writes over those of an earlier run | only safe, observed, distinct cases are written; the files of an iteration are in order |
| behaviour surface (`testgen/behavioral_surface.py`) | plan, observations, surface | ask for help, collect examples, plan, run, write | a probe is judged twice, in two forms | a probe called safe is run; the three files agree |
| initialisation, gold build (`repo_discovery/`, `build/`) | repository copy, task spec, build log, gold executable | checkout, analyse, try builders | stale gold after a failed rebuild; uncaught timeouts | the artifact names the executable it hashed |
| coverage (`coverage/`) | report per iteration | run an adapter, write report or `unavailable` | reports of older, longer runs stay | the report used is the one of the suite scored |
| suite evaluation (`cli.evaluate_suite`, `quality/suite_scorer.py`, `qc/`) | final reports, QC queue | gates again, re-run, score, queue, export | values from before and after filtering; every measurement runs the tests anew | scores are about the surviving tests; better suites do not score less; what is queued is not "Ready" |
| test runners (`eval/executable_runner.py`, `eval/submission_runner.py`, `security/command_executor.py`) | outcomes of one run | run cases on the host, in Docker, through pytest | three implementations of one comparison; one time limit for a case or for all | the same cases pass whoever runs them |
| pipeline, batch (`pipeline.py`, `task_constructor.py`) | summary per task | stages in order, batch in order | one failure ends a batch | a stage runs on the output of its predecessor |
| packaging (`cleanroom/`, `released_package.py`) | solver package, evaluator package, manifest | select, filter, leak check, copy, hash | several writes; re-release over an old package | nothing private reaches the solver package |
| candidate evaluation (`candidate_evaluator.py`) | run directory, build log, three reports | copy, build, run hidden tests, report | exceptions between writes; reports of the previous candidate | reports are about the candidate just run |
| candidate solver (`solver/openai_solver.py`) | candidate directory, responses, run report | rounds of ask, write, build, smoke | variables of earlier rounds surviving into later ones | the report is about the candidate on disk |
| execution policy (`security/`) | none | decide on a command | order of the rules; patterns see a text, not arguments | untrusted commands stay inside the policy |
| language adapters (`language_adapters/`) | none | match, select, hand out a builder | tables of two modules must fit | what analysis writes, a builder takes, or the refusal is reported |
| log, serialisation, reports, export | event log, summaries | append, read, write, format | non-atomic writes | (formatting) |

Components talk through files under one artifact directory, and through return
values inside one command. There are no threads and no message queues; the
interleavings are between *runs* of commands, and between a run and its death.

## Plan

Built, in this order:

1. `TestStore`, `HardGates`, `GenerationController`, composed by extension, with
   the abstract specification `SuiteAcceptance` and the refinement to it; the
   inductive invariant and its proof.
2. `CandidateSolver` and `CandidateEvaluation`, and the invariants behind them.
3. `LanguageAdapters`, `RepositoryAnalysis`, `GoldBuild`, `BehaviorDiscovery`: from a
   repository to a gold program and its behaviour; `TaskPipeline` for the commands
   that run the stages over each other's files.
4. `HostedAdapter` and `CaseGeneration`: from proposals to a written suite.
5. `CoverageRanges`, `CoverageMeasurement`, `SuiteScore`, `SuiteEvaluation`: what a
   suite is measured and scored by.
6. `CleanRoom` and `TaskRelease`: the packages under kills and re-releases.
7. `ExecutionPolicy`, used by discovery and evaluation, and `TestRunners`, the three
   ways a program meets the tests.

The theorems have caught up with this: every invariant and action property that a passing run
checks is a theorem, and liveness is left to TLC. Left of the model, in this order:

1. Writes cut off in the middle: suites and reports that no later read accepts.
2. The metrics over candidates and tasks, and `evaluate_executable_candidate`.
3. `model_safety.py`, the check of bare pytest answers, as an operator over what an
   answer contains.

## Modules

`TestStore` is the directory `generated_tests/`. A *case* is a model value with
a name (`IdOf`, its `test_id`); a *slot* `<<i, n>>` stands for the n-th file of
iteration i. `suite`, `rendered` and `link` hold what the suite files, the
renderings and the artifact records say; `legacy` are bare pytest files. An
*instance* is a case in a file: the same case in two files runs twice and is
counted twice. `UnderTest` is what `run_generated_suite` runs. The writer is
three actions, one for each write; `open` and `page` are the paths it holds in
between.

`HardGates` adds one pass of `apply_hard_quality_gates`: `Lint`, `GoldRun`
(once per determinism run, any subset of the unstable instances failing),
`DummyRun` (which ends in `_rejection_reasons`), then `KeepSuite`,
`FilterSuite` and `RewriteRendering`, one file at a time in file name order.

`GenerationController` adds `CoverageGuidedTestController.run`: `StartRun`, the
two backends, the gates, `LeaveGates` (what is read back from disk),
`RerunAccepted`, the coverage measurement and the four ways the end of the loop
body can go, in the order of the code. `Abort` is an exception nobody catches,
or a kill, between any two steps; `run` and `MaxRuns` allow the command again on
the same files. The variables `history` and `aborts` record the past for the
properties and guard nothing.

`SuiteAcceptance` says what generation promises about the pool of tests it leaves,
without files or runs. `AcceptanceRefinement` maps the loop to it.
`GenerationInvariant` holds the inductive invariants, `GenerationProofs` the proofs, also
those of the refinement and of what follows from the abstract specification alone.
`MCGenerationController` gives the constants values.

`CandidateSolver` is `solve_with_openai`, called up to `MaxCalls` times in one
output directory. Proposals, replies and messages are *tags* `<<call, round>>`, so
that a file, a feedback or a build script left over from elsewhere is visible as
such. `candidate`, `prompts`, `responses` and `report` are the directory. A round
is: `BeginRound`, `RequestAnswered` or `RequestFails`, `ProposalParsed` or
`ProposalRefused`, `ResetCandidate`, `WriteProposal`, `Build`, then
`AcceptCandidate` or `FeedBack`; `Reject` is the handler of `PBGenError`.
`Uncaught` is any other exception, `Kill` the end of the process; both may leave a
removal, a write or a build half done.

`CandidateEvaluation` is `evaluate_source_submission`, called up to
`MaxEvaluations` times for one package. `hidden` and `canonical` describe the
release; `runDir` and the three report variables are the files, each with the
number of the evaluation it is of. Docker being missing (`DockerMissing`, a
`PBGenError`) or hanging (`DockerHangs`, a `TimeoutExpired`) is a choice at each
command; inside `RunCases` both become outcomes of the case. The policy decision
is `Allowed` and the guards around it. `RunCommand` is a command given to the runner the
policy chose, in a container or on the host; `RunOnHost` is pytest, which asks no runner. Of a
reason only `mentionsDocker` is kept, since the code looks for no other word in it.
`Allowed` has `trusted` false throughout: the command line sets it together with the policy
`trusted-local` (`cli.py:162`), which allows as much. `onHost`, `inContainer` and
`undocked` record the past.

`LanguageAdapters` is the registry: which adapter a language and a build system
get, and whether it builds. `RepositoryAnalysis` holds the two rankings of
entrypoints (`analyze_repository`, then `init_task` again) and the choice of one
build candidate per system, as operators over a repository reduced to what the
rules look at. It has no state: `InitTask` is a call of `init_task`, and `MCGoldBuild` makes
it a step (`AnalyseRepository`), so that TLC visits every repository. `Sorted` is Python's
`sorted` with a key: each element comes after as many as have lesser keys, and keys
compare like tuples (`Before`).

`GoldBuild` is `build_gold`, called up to `MaxCalls` times on specs that may change
in between: `adapter`, `try` (a candidate is prepared and run), `install`, `app`, `probe`,
`log`, `record` are the phases. Programs are records of the call that built them and a
name, so that one left over from an earlier call is visible; `died` records the
calls that were killed or raised, for the properties. `attempts` has a group of entries for
each candidate, as the builder and the loop around it write them: `make clean` has an entry of
its own, a builder that raises may have written one before the loop adds another
(`OwnEntries`), and one that returns says so in its own words (`Verdict`).

`ExecutionPolicy` is `is_command_allowed`: a command is its first word and what the
rest of it holds, a pattern the set of commands it is found in.
`BehaviorDiscovery` is `discover_behavior_surface`: help commands (`HelpAnswers`,
`HelpPassedOver`, `HelpRaises`), the plan of at most `MaxProbes` probes, these one at a time
(`ProbeAnswers`, `SkipProbe`, `ProbePassedOver`, `ProbeRaises`), and three writes. A probe is planned as
`program ...` and run as the path of the gold executable, and the policy is asked
about both.

`HostedAdapter` is the command that asks a model: the ten behaviour categories are
divided into rounds, a round is a request that takes time, fails, or brings a
reply, and the replies are merged: of those with one key the first is kept, up to what
fits (`Fresh`, `Rank`). `CaseGeneration` extends it with the backend
around it: the audit files (each remembered by the run that wrote it), and the
judgement of each proposal, which is validated, run on gold and appended. The
local backend instead tries revisions of a proposal that cannot be observed.

`CoverageRanges` turns missing lines into gap ranges. `CoverageMeasurement` is the
coverage part of an iteration over several runs: choice of the backend,
instrumented build, run, gcov source by source (`silent` are the sources it fails for or
says nothing of), and the report or marker that
the controller writes. A report remembers neither its run nor its program; the
properties compare it with the project's sources.

`SuiteScore` is the arithmetic of `score_suite` in exact fractions of `One`;
`SuiteEvaluation` is `evaluate_suite` and the export of the queue: each measurement
is a step and leaves its report. The gates appear as their effect (a subset of
the tests that none of their measurements speaks against); their steps are in
`HardGates`. The redundancy of a suite is the mean of (n - 1) / n over the tests, with n
the size of a test's cluster; since a cluster draws n - 1 in all, it is written as the
number of tests less that of clusters (`Redundancy`).

`CleanRoom` decides file by file what the docs filter, the asset filter and the leak
check do. `TaskRelease` is `release_task_package` in its order of removals, copies
and writes, with `Kill` or `ProgramMissing` between any two (`dead` remembers where), the
task changed between releases, and
evaluations of the package at any time between them. `Torn` is the state a release
leaves that was killed while it removed the evaluator package.

`TaskPipeline` composes the stages: single commands, `construct-task`, `run-task` and
`batch-run` over the artifact directories of several tasks. Each file remembers
the states of the source it was made of. `suites` says whether there is a suite file, `tests`
and `bare` what the cases of the suites and the bare pytest files were written for; the gates
filter the first alone, and the second are run only where there is no suite (`UnderTest`). A stage is one step that succeeds, or
raises and leaves what the module of that stage says it may leave.

`TestRunners` runs the same cases through the host runner, the Docker runner and
pytest on their rendering, one case per step. A case is what the runners tell
apart: its file, its name, whether it is portable, its fixtures and patterns; the
program's response to it (`answers`) is any of five: what was expected, something else,
no UTF-8, none in time, or no program to start.

The proofs about a module are in the one of its name with `Proofs`, and those of
`HostedAdapter` are in `CaseGenerationProofs`. `GoldProofs` is about `GoldBuild`,
`RepositoryAnalysis` and `LanguageAdapters`; `CandidateProofs` about `CandidateEvaluation`,
`CandidateSolver` and `TestRunners`; `ObservationProofs` about `BehaviorDiscovery`,
`CoverageRanges` and `CoverageMeasurement`.

The `MC` modules give TLC the constants. Six of them are sums: `MCCandidateEvaluation`
of an evaluation and `TestRunners`, `MCCandidates` of these and the solver, `MCObservation` of
discovery and measurement, `MCGoldBuild` of gold builds and `RepositoryAnalysis`,
`MCSuiteEvaluation` of suite evaluations and suites drawn by their counts for `SuiteScore`,
`MCCoverageMeasurement` of measured projects and drafts of Python files for `CoverageRanges`.
The parts of a sum share no file: a behaviour is of one part and the others stay
where they start, so that one run checks all. `ExecutionPolicy`, `LanguageAdapters`,
`CleanRoom` and `HostedAdapter` are extended by the modules that use them.

Definitions that start with a comment "Mutant" are deliberate mistakes: each
replaces one definition in a mutation run, and a property must notice it.

## Runs

Nine runs pass and three refute a claim each. A property that is a conjunction names what
one actor promises about one kind of file; its parts are listed with it.

| Run | Bounds | Shows |
|---|---|---|
| `reruns` | 5 cases, 2 runs of 1 iteration, 2 determinism runs | after the gates names are unique (`SurvivorNamesUnique`) and every survivor was proven in this pass (`SurvivorsProven`); `StoreIsConsistent`: lint is escaped only through a torn write (`LintEscapesOnlyTornSuites`), renderings cover their suites always (`RenderingCoversSuite`) and match exactly if nothing was killed (`RenderingExactWithoutAborts`); the loop implements `SuiteAcceptance` (`ImplementsAcceptance`) |
| `iterations` | 1 unstable case, 2 runs of up to 3 iterations, both backends, three coverage values around target and minimum gain | a run returns at exactly the first stopping iteration (`ReturnsAtFirstStop`, a reference definition over the recorded history); `PromptsAreCurrent`: a prompt names exactly the tests on disk and shows the gaps of the last measurement (`PromptIsCurrent`), and diagnostics that are not its own only in the one known case (`FeedbackIsCurrent`); every run ends, also one that goes round three times (`RunEnds`) |
| `duplicate_names` | 1 case, 2 runs of 1 iteration | refutes `UnstableMeansFailed`, see below |
| `candidates` | 2 evaluations, releases of 0 to 2 tests, all kinds of submission; or up to 2 cases of any kind, any response; or 2 calls of 0 to 3 rounds of a solver | `ReportsAreConsistent`: reports are ordered and of one evaluation (`ReportsInOrder`, `ReportsOfOneEvaluation`); resolved means built and none failed (`ResolvedMeansPassed`); a no-network report is of an evaluation that ran nothing on the host, of code that ran in containers if it says passed, of code that never ran if it says blocked (`NetworkReportIsTrue`); the runners that return pass the same cases and a case that raises passes nowhere (`RunnersAgree`); `ReportDescribesCandidate`: a returned report names the candidate on disk (`ReportNamesCandidate`) and `completed` means built (`CompletedIsBuilt`); every prompt repairs the round before (`PromptsRepair`); `RoundsAreAccounted`: hashes and calls add up (`RoundsAudited`, `CallsAccounted`) |
| `unavailable` | 1 evaluation of 1 hidden test | refutes `UnavailableMeansBlocked`, see below |
| `skipped` | 1 evaluation of up to 2 hidden tests | refutes `ResolvedNeedsAll`, see below |
| `gold` | 3 builds of 5 specs, 2 names, 2 overrides; or every repository of up to 3 of 8 kinds of entrypoint files, 5 manifests, C, C++ or Go sources | the executables and the application tree are of one call (`BuiltIsOfOneCall`), only a call that died leaves an artifact about another program (`MismatchMeansDied`), failing keeps the earlier program (`FailureKeepsGold`); `CandidatesAreTriedInOrder`: every candidate tried is in the log, in order and under its name, and the first that built something is taken (`FirstWorkingCandidate`) and a refusal is reported (`RefusalIsReported`); `SpecIsUsable`: the spec has the best candidate of every build system offered, one each, an exact `--primary-binary` comes first, and the registry refuses only makefiles where the language is taken to be Python, by the sources or by the first entrypoint |
| `cases` | 5 proposals, replies of at most 1 case a round, 1 or 2 rounds over 3 categories, 2 runs of 2 iterations, kills | `SuiteIsSound`: the cases written differ and expect what gold did (`CasesDiffer`, `ExpectationsAreObserved`); the audit files of an iteration are in order (`AuditInOrder`); `DiagnosticsAreOfTheSuite`: what is recorded as accepted is written (`AcceptedAreWritten`); every category is asked for (`EveryCategoryIsAsked`); every run ends (`RunsEnd`) |
| `evaluation_suite` | 2 evaluations of 2 tests of any 2 of 5 kinds, 2 determinism runs; or a suite of up to 4 tests, 2 flags of a severity, coverage none, 0 or 1, multipliers 3/4 and 5/4 | `ReportsAreConsistent`: the reports are written in order (`ReportsInOrder`), agree on the tests they are of (`ReportsOfOneSuite`), and a suite that is not timed has neutral efficiency (`UntimedIsNeutral`); `Ready` is exported only if no test is queued (`ReadyMeansUnflagged`); no improvement that leaves a suite on its side of the correctness gate lowers its score (`BetterIsNotWorse`) |
| `observation` | 2 discoveries, 4 probes, 3 documentations, 2 help texts, 5 rule sets; or 2 runs of 2 iterations, 15 projects of up to 3 sources, gcov silent about any of them; or 1 run on a 4-line Python file with up to 2 functions | `PlanIsCarriedOut`: help output reaches the plan (`HelpReachesThePlan`), and probes called safe are run, if the patterns look at arguments only (`SafeProbesAreRun`); `ArtifactsAgree`: plan, observations and surface agree (`FilesAgree`); `ReportsAreHonest`: available means measured (`AvailableMeansMeasured`) and an unavailable report has its marker (`UnavailableIsMarked`); the count and the gaps are of the program's sources that gcov reports on, where their names differ (`MeasuresTheProgram`); gap ranges are exactly the missing lines, function by function (`GapsArePrecise`) |
| `release` | 3 releases, 1 rebuild, a source file in the docs of both repositories, one of which passes the leak check | a release that returned is whole (`ReleasedIsWhole`); `ManifestIsCurrent`: what a manifest says of the hash, the verdict and its copy stays true (`HashIsCurrent`, `VerdictIsCurrent`, `ManifestsAgree`); an evaluation runs all tests of the release, unless releases died (`EvaluatedTestsAreComplete`); `PackagesAreClean`: no source by either way (`NoSourceIsReleased`) |
| `pipeline` | 2 commands of any kind, 2 tasks, 2 sources, 2 manifests of 2 profiles, suites, bare files or both, 1 iteration | `FilesAreOfOneSource`: a release is of one state of its inputs, and its suites pass on its program (`ReleasedTogether`), a construction that returned is scored on what it left (`ConstructedIsScored`); tasks counted as successful have the packages of their run unless a later profile has the same id (`SuccessfulTasksHavePackages`); every command ends (`CommandsEnd`) |

In the runs of the controller the cases are `good` and `twin` (sound, one shared
name), `flaky` (may fail on gold), `hollow` (passed by the `echo_args` dummy) and `weak`
(HIGH lint flag). Two runs, calls, evaluations, releases or builds are the least in
which a file of an earlier one exists, and nothing but the last one's files is
carried further; gold builds take three because a failure has to come between a
success and its re-use, and releases because one can be killed over what another
that was killed left. Two cases with one name, one of each defect and two
determinism runs make every gate fire alone and together. Three iterations are
the least in which a passing iteration follows a failing one that follows a
passing one, which is where the baseline of the stopping rule could go wrong.
Coverage there is in hundredths and only its order and differences matter: 3, 5, 9
with a target of 8 and a minimum gain of 2 give gains of none, exactly the minimum and
more, losses, and values on both sides of the target. Three solver rounds are the least
in which a build fails, a request fails after it and a third round follows. Two
tests can pass and fail independently. Three categories in two rounds do not divide
evenly. Four probes are fewer than the longest documentation and the help
text together, so that the limit is met. 24000 is divisible by all numbers of
tests and weights in the scores, so that the division loses nothing. The time
limits of the runners (20 seconds for a case, 30 for pytest, where the code has 20 and
120) keep what matters: one case that never ends fits into a pytest run, and all
of them do not. Deadlock is not checked where the number of runs is bounded or an
operator is evaluated once, which is in every run: the program may stop when it has
returned, and the liveness properties show that it does not stop before.

Liveness: `RunEnds`, `CommandsEnd` and `RunsEnd` assume weak fairness of the steps of a
command that has started (`Step`, `Stage \/ Finish \/ End`, `Generate`). One thread runs a command and each process it starts ends or is
killed by its time limit, so it takes its next step. Nothing is assumed of a
command being given, failing, or being killed. `RunEnds` is checked in `iterations`, where
the loop goes round up to three times in each of two runs and ends in all three ways: a
stopping rule, an exception, and the end of its range.

## Divergences met while modelling

Three by which a run refutes what the repository says:

* `duplicate_names`: `_per_test_deterministic` calls a test stable only if it has
  as many outcomes as there were runs (`quality/gold_determinism.py:97`). Run
  `generate-tests` twice: the second run writes the same names to a second suite
  file, every name has twice as many outcomes, and all tests of both files are
  rejected with "gold determinism failed" (`quality/hard_gates.py:121`) though
  each of their runs passed.

* `unavailable`: the no-network report says "blocked" only when the build failed and the
  word "Docker" is in the reason (`candidate_evaluator.py:441`). Docker that was there for the
  build and is gone when the hidden tests run leaves a report that says "failed", though
  "If Docker is unavailable or the image has not been built, the evaluator writes a blocked"
  report (`docs/docker_no_network_evaluation.md:27`).
* `skipped`: resolved is "some test, and none failed" (`candidate_evaluator.py:188`); of a
  release of pytest files a skipped test did not fail, and leaves a candidate resolved, though
  "% Resolved requires all hidden tests to pass"
  (`reporting/programbench_performance.py:79`).

The others were met while the modules were written and show in their definitions; the
properties are stated so that they hold of the code as it is, and the exception each
makes is one of these:

* With bare pytest files there is no suite, `_filter_canonical_suites`
  returns at once (`quality/hard_gates.py:130`), and tests the report lists as
  rejected run again, are scored and are released: what `ReleasedTogether` says of tests that
  pass, it says of suites.
* Only `PBGenError` is caught around a round
  (`solver/openai_solver.py:283`); a build that takes over 60 seconds, or a script the
  kernel refuses, raises something else, and the call ends with a traceback, no
  feedback and no report, although `run_public_smoke` is there "for repair feedback"
  (line 439).
* `docker image inspect` has a time limit, and its `TimeoutExpired`
  passes `except (OSError, PBGenError)` (`candidate_evaluator.py:123`): no blocked
  report, against `docs/docker_no_network_evaluation.md:27`.
* Whether Docker is to blame is decided by a word in the reason
  (`candidate_evaluator.py:441`), and the reasons of a copy that fails and of a command that
  is not allowed quote the user's paths, patterns and commands (lines 254 and 274,
  `security/execution_policy.py:90` and 180): one that holds "Docker" gives a blocked report
  with Docker at hand. `mentionsDocker` is therefore free wherever a reason quotes the user;
  `NetworkReportIsTrue` holds all the same, since no code has run by then.
* A CMake build whose commands succeed is recorded as "succeeded" before anyone has
  looked for an executable (`build/build_agent.py:425`), and the search goes on: the log may
  name several candidates that succeeded. `FirstWorkingCandidate` excepts CMake's.
* A source that gcov fails for, or says nothing of, is left out without a word
  (`coverage/adapters.py:376`), and the report is available: its coverage is that of the
  other sources (`Counted`).
* A build is successful when `out/program` exists
  (`candidate_evaluator.py:144`), also if it came with the source, as it does in a
  candidate directory the solver has smoke-built; the instructions say the script
  must create it (`cleanroom/task_packager.py:88`).
* Entrypoints are ranked by the analysis and
  again by `init_task` with another key (`repo_discovery/checkout.py:64`). The warning
  names one executable as selected and the spec selects another; a
  `--primary-binary` that is recognised by its base name or without `./` loses its
  place ("Preferred executable name/path when multiple exist", `cli.py:378`).
* Only `make` is run where `TimeoutExpired` is caught
  (`build/build_agent.py:407`); any other build command that does not end leaves no
  log, no event and no further candidate, against `docs/adapter_development.md:51`.
* Documents are declared by directory and by file, and a
  file is copied by its bare name (`cleanroom/docs_filter.py:36`): `docs/tests/plan.md`
  reaches the solver package that excludes `docs/tests`, and `docs/README.md` replaces
  the `README.md` of the root. What counts as source there is a list of suffixes
  (`docs_filter.py:25`) that lacks `.cxx`, which the analysis takes for C++
  (`repo_discovery/metadata.py:325`): a C++ example so named reaches the package.
* Two profiles of a manifest may share a task id (`pipeline.py:47`);
  the second replaces the packages of the first and both count as successful.
* `evaluate-suite` and the summary take the coverage report with the
  highest iteration number (`cli.py:306`), which may be of a longer run of an earlier
  program.
* The note that the score was capped is written also where it was not
  (`quality/suite_scorer.py:70`): below the correctness gate the score is the pass
  rate, and with eleven tests, one failing, that is above the cap.
* A test that fails the scored gold run and passes the determinism runs
  after it is in no queue (`quality/suite_scorer.py:83`), against "Create QC items for
  weak, flaky, dummy-passing, and redundant tests." (`qc/qc_queue.py:29`).
* gcov data are paired with sources by file name
  (`coverage/adapters.py:793`), so of two `util.c` one is counted twice and the other
  not at all; and with relative compiler paths gcov finds no source to list, and
  every gap is lost while the percentage is measured.
* A coverage command that runs out of time raises
  past `except CoverageError` (`testgen/controller.py:101`), and the run ends without a
  report; the markers of an unavailable measurement are never removed
  (`coverage/registry.py:126`).
* The adapter writes its costs after all rounds have succeeded
  (`testgen/hosted_model_adapter.py:29`); a reply that cannot be used, and those of the
  rounds before it, are accounted for nowhere.
* Only `TestGenerationError` rejects a proposal
  (`testgen/model_backend.py:238`), and only errors of the command itself become an
  outcome of a case (`eval/executable_runner.py:163`); an expectation that does not
  validate, output that is no UTF-8 or a pattern that does not compile ends the
  whole run.
* A case with an absolute path or an odd variable name passes on the
  host and is an error in every container (`security/command_executor.py:106`), and
  `_validate_model_case` lets it into a suite.
* A release that is killed while it removes the evaluator package
  (`cleanroom/task_packager.py:55`) leaves a part of it; if the next one is killed while
  it removes the solver package, that part is still there, its `task.yaml` makes it a package,
  and a candidate is evaluated against the tests that happen to be left. Two releases do
  not show it: this is `Torn` in `EvaluatedTestsAreComplete`.
* Patterns of a profile are matched against `program ...` in the
  plan and against the path of the executable when the probe is run
  (`testgen/behavioral_surface.py:267`), so a probe reported as safe is not run.

## Proofs

Every invariant and action property that a passing run checks is a theorem, and holds
for all values of the constants that satisfy the named assumptions of the modules: any
numbers of tests, cases, specs, repositories, projects, categories, rounds, runs, calls and
releases. Each theorem of an invariant follows the same way: an
inductive invariant holds initially and is kept by each action, one lemma for an
action or for a group that leaves the same files alone, and the property is one of
its parts or follows from it.

`GenerationProofs` has two invariants. `IInv` gives `TypeOK`, `SurvivorNamesUnique`,
`SurvivorsProven`, `LintEscapesOnlyTornSuites` and `RenderingCoversSuite`. Why it is
needed: the properties speak of the moment *after* the gates, the reasons lie before.
`GoldInv` says that while gold runs, the outcomes seen for a name are the number
of runs times the number of its instances; so "as many outcomes as runs" means a
single instance (`SeenOnceIsAlone`), which is how a count in `_per_test_deterministic`
makes names unique. `JudgedInv` carries the verdict through the filter: a case not
rejected is beyond suspicion, a rejected one sits in a file still to be filtered.
`LinkInv` and `WriterInv` relate records, renderings and suites in the middle of the
writes; `LintInv` uses them to show that a recorded suite hides nothing from the
linter. Steps that touch no file are handled together (`StepKinds`).

`CInv` is about the loop and stands on `IInv`. `ExactInv` says that without an abort every
rendering that is not just being written is that of its suite; with `IInv` it makes
`StoreIsConsistent`. `ReadBackInv` and `GapsInv` say of each prompt which
diagnostics, names and gaps it was made from (`PromptsAreCurrent`). `ReturnsAtFirstStop`
compares the run with a reference definition over its whole history, whose baseline is
the last iteration before that passed. That is a maximum of a set of numbers, so the
proof needs it to exist and to move by one step when the history grows; `StopInv`
says that the controller's `previous_coverage` is that baseline, and that no
iteration so far was one to stop at.

The module also proves that every step of the loop is a step of
`SuiteAcceptance` or a stutter, hence `Spec => ImplementsAcceptance` (`Implementation`, by
`AbsInv`), and that every acceptance process accepts only sound pools
(`AcceptanceIsSound`).

`CandidateProofs` proves `SInv` inductive. `ReportNamesCandidate` is about a
call that has returned; that it holds needs `ScriptInv`, which follows the script
through the rounds: it is the one on disk except between the removal of the old
tree and the naming of the new script, and no `PBGenError` can leave that
interval. `AcceptedInv` keeps rounds unaccepted until the loop ends, `FeedbackInv`
and `HashInv` tie the variables of a round to the record it will become. `AInv` adds the
accounts (`RoundsAreAccounted`): the calls made are those of the rounds reported and of
the one being worked on (`CallsInv`), and every finished round is one report
(`RoundsInv`).

`CandidateProofs` proves `EInv` inductive: the run records follow the
policy (`RunsWherePolicySays`), and a report whose reason mentions Docker is only pending
while nothing has run (`PendingIsTrue`): what can quote the user is said before the
first command has run, and of the build itself only an exit code. `NetworkReportIsTrue` is a part of it. `RInv` adds the files: those of one
evaluation appear one after the other (`FilesInOrder`) and say the same of build and
tests (`FilesAgree`), and a report that resolves counts every hidden test
(`ResolvedCountsAll`); hence `ReportsAreConsistent` and `ResolvedMeansPassed`.

The three runners agree (`RunnersGiveOneVerdict`) though no step is one of two runners:
`RunnersInv` says of each runner alone that what it has recorded so far is, case by case,
whether the case is good (`Faithful`), which is a predicate of case and answer that names no
runner, and that what it has passed would not have raised on the host (`Recorded`). Two
runs that return have therefore the same list of verdicts.

`GoldProofs` proves `GInv` inductive, and from it `TypeOK`, `MismatchMeansDied` and
`FailureKeepsGold`. The artifact is written last, so what it says rests on facts about
the phases before: what the loop has produced was written by this call
(`ProducedIsWritten`), from the installation on the program is that of this call
(`InstalledIsCurrent`), and nothing is of a call to come. `CInv` adds what the attempts say:
those on record and those in the queue are the candidates of the spec in their order
(`OnRecord`), and the last entry of none on record says that it worked, but for CMake's
(`NoneWorked`). That rests on what each builder writes (`ReturnsEntries`, `RaisesEntries`,
`SkippedEntry`), and is `CandidatesAreTriedInOrder` when one does work;
the application tree is of the call whose package builder worked
(`AppOfThisCall`), which is what `BuiltIsOfOneCall` needs of a spec that changes between
calls.

`SpecsAreUsable` is about what a build begins with, and its argument is about sorting.
Keys of one length are totally ordered (`BeforeTransitive`, `BeforeTotal`); where no two
elements have one key, the number of lesser elements grows along the order, so that it takes each
value once (`RanksAreTaken`, by counting), and `Sorted` lists every element once and in
order (`SortedInOrder`). That the keys differ is a fact about the rules: an entrypoint is
known by its file and its kind (`EntriesAreTold`), a build candidate by its system and its
confidence (`SameKeySameBuild`), and the keys of the second ranking hold the places in the first. An
exact match has confidence 100 and nothing else has (`ExactHasMost`), so it comes first.
A makefile has the highest confidence of all candidates and is first where there is one
(`MakefileComesFirst`); the registry refuses it for Python alone (`MakeIsGranted`), and
refuses no other candidate (`OthersAreGranted`). The attempt showed that the property was wrong: it
said that the sources decide whether a makefile is refused, but where they name no language
the first entrypoint does, and an executable whose first line names Python is enough. TLC
confirmed it on an eighth kind of file, which is now in the run.

`CaseGenerationProofs` has four invariants. `AuditInv` knows which of its files the run
in progress has written (`RunHasWritten`) and that none is of a run to come;
`AuditInOrder` follows. `CasesInv` says of the cases in memory what `CasesDiffer` and
`ExpectationsAreObserved` say of those on disk: a case is appended only if its
signature is new, whatever proposal or revision it came from (`AppendKeeps`).
`DiagnosticsInv` follows the accepted names from the judgement of a proposal to the
diagnostics on disk and from there to the suite. `RoundsInv` says that the categories up to
the last chunk have been asked for; that the last chunk ends at the last category is an
argument about division rounded up (`EveryCategoryIsAsked`).

`TaskReleaseProofs` proves `RInv`: phase by phase, what both packages hold is determined
by the task as it was when the release began (`SolverSoFar`, `EvaluatorSoFar`), and verdict
and manifests are of this release (`VerdictOfRelease`, `ManifestOfRelease`). Since the task
does not change during a release (`InputIsTask`), a release that returns is whole
(`ReleaseIsWhole`), and its hash, verdict and second manifest stay true until an
evaluation writes into the package or a later release dies. `PInv` is about what dead
releases leave: an evaluator package that can be evaluated has all tests of one
state, or was torn by the last release that came to it (`TornUpTo`). The first
attempt at this proof failed, on a sequence of three releases: `EvaluatedTestsAreComplete`
excused only the last release, and held in a run of two. The property now
names the case and the run has three releases.

`TaskPipelineProofs` proves `LInv`: what the files of the task at hand were made of, stage
by stage, suites and bare files apart (`InProgress`), and what a batch has reported so far with the packages it reports
(`BatchSoFar`), except for those a later profile of the same id has replaced. From it
`FilesAreOfOneSource` and `SuccessfulTasksHavePackages`.

`SuiteEvaluationProofs` proves `EInv`: what was measured after the gates is of the
suite they left (`MeasuresAreCurrent`), so is every report the call has written
(`ReportsAreCurrent`), those it has not are of earlier calls and in order, and a score is
neutral to what was not measured (`Neutral`). It gives `ReportsAreConsistent` and the
action property `ReadyMeansUnflagged`. Its lemmas about the arithmetic say that each
measure and each score is a rate, whatever the sizes and rates (`ShareIsRate`,
`QualityIsRate`, `RewardIsRate`). `ScoreIsMonotone` says of the formula what
`BetterIsNotWorse` checks on suites: measures that are nowhere worse never lower the
score of a suite that stays on its side of the gate, for any gate and multiplier.
`ScoreRewardsBetter` goes from suites to their measures: each single improvement, one
failure less among them, makes no measure worse (`ImprovementsImprove`, `MeasuresImprove`).
The property had left out "one failure less", because that may lower the score where it takes the
suite through the gate; it now has it, and the gate is its condition.

`ObservationProofs` has two invariants. `DiscoveryInv` says that the probes are those chosen
from the examples, each judged by its arguments (`PlanInv`), that the behaviours are a
selection of the probes so far, of safe ones only and of all of those that answered
(`ProbeInv`), and which files this discovery has written (`WrittenInv`); hence
`ArtifactsAgree` and `PlanIsCarriedOut`. `MeasurementInv` says where the result of a measurement comes
from, by backend (`StepsInv`), what reports and markers say of each other while an iteration is
between them (`ReportsInv`), and what gcov has summarised of the sources it has been through and was not silent about
(`GcovInv`); `ReportsAreHonest` and `MeasuresTheProgram` follow. The first attempt at
`MeasuresTheProgram` failed: it excused projects in which two sources have one name, but a
source `a.c` beside one called `a.c.c` shares its data file as well, since the stem of
one is the name of the other. Its condition (`Distinct`) now compares names with stems.
`GapsArePrecise` needs what the loops over lines and functions compute: collapsed ranges
hold exactly the missing lines, and of nested spans each line belongs to the innermost.

What a loop computes is proved by induction on its steps. The induction theorems
of the library have an operator as a parameter and cannot be used here; `AllNumbers` says the same of a
set of numbers, by the least one that is not in it, `StepsDefineFunction` that a recursive
function exists, and the loops of the models are recursive functions (`KeepOnly`,
`MissingRanges`) or sums (`Total`).

Where a run checks a conjunction whose parts are all proved, the conjunction is a
theorem of its own (`CandidateDescribed`, `SuitesAreSound`, `ManifestsAreCurrent`).

Some definitions were written so that they can be reasoned about, in closed form or
step by step where they were folds or sorted sequences of the library: the merge of the adapter's
replies, the redundancy of a suite, `Sorted`, `KeepOnly`, `MissingRanges` and `Total` say what
the loop of the code leaves. And some modules name the sets of what their files
hold and assume that `None` is none of it.

Only model-checked: liveness (`RunEnds`, `CommandsEnd`, `RunsEnd`), which is out of the
prover's reach. So is ENABLED, and with it that a step is possible.

## Not modelled

A write is atomic in the models: a file cut off in the middle by a kill is not
covered. The contents of cases, prompts, reports and logs are left out, and so
are the reports the gates write along the way (redundancy, mutation-lite), which
no step reads back. What is text handling is an input of a model: the examples
that discovery finds in documents and help output, the proposals that a surface
suggests, the verdict of the AST check on a bare pytest answer, the formats of
gcov, go and coverage.py. Overlapping commands on one package or task are not
modelled: there is no lock, and nothing claims they work.
`evaluate_executable_candidate` and the averages over tasks are planned. The event log,
the schemas, the comparison reports and the submission export are appending,
data definitions and formatting, without a decision that depends on a state.

------------------------ MODULE GenerationController ------------------------
(***************************************************************************)
(* CoverageGuidedTestController.run: in each iteration a backend adds      *)
(* tests to the store, the hard gates strip it, the survivors run again on *)
(* the gold executable, coverage is measured and the loop decides whether  *)
(* to go on.  A run can end early, by an exception nobody catches or by    *)
(* the death of the process, between any two steps; the next run of the    *)
(* same task starts from the files that are there.                         *)
(***************************************************************************)
EXTENDS HardGates, Integers, Sequences

CONSTANTS
  MaxRuns,          \* bound: runs of generate-tests on the task
  Backends,         \* "agentic" and "model", as configured
  CoverageModes,    \* values of config.coverage_enabled
  CoverageValues,   \* line coverage a report can state, in hundredths
  CoverageTarget,   \* config.coverage_target
  MinDelta,         \* config.min_coverage_delta_per_iteration
  NoCoverage        \* line_coverage = None

ASSUME ControllerAssumption ==
  /\ MaxRuns \in Nat \ {0}
  /\ Backends \subseteq {"agentic", "model"}
  /\ CoverageModes \subseteq BOOLEAN
  /\ CoverageValues \subseteq Nat
  /\ CoverageTarget \in Nat
  /\ MinDelta \in Nat
  /\ NoCoverage \notin Int

VARIABLES
  run,           \* number of the run, 0 before the first
  backend,       \* generation backend of the run
  coverageOn,    \* config.coverage_enabled of the run
  budget,        \* max_iterations
  iteration,     \* iteration index
  passed,        \* result.pass_rate = 1.0 for the accepted tests
  coverage,      \* line_coverage of this iteration
  prevCoverage,  \* previous_coverage
  gapsFrom,      \* iteration (from 1) whose gaps the prompt shows, or 0
  existing,      \* existing_test_names in the prompt
  feedback,      \* run that wrote the diagnostics in the prompt, or 0
  diagnostics,   \* <backend>_generation_iteration_i.json: run that wrote it
  outcome,       \* how the last run ended
  history,       \* of this run: pass, coverage and measurement, per iteration
  aborts         \* runs that ended early, so far

runVars  == <<run, backend, coverageOn, budget>>
loopVars == <<iteration, passed, coverage, prevCoverage, gapsFrom,
              existing, feedback>>
vars == <<storeVars, gateVars, pc, runVars, loopVars, diagnostics,
          outcome, history, aborts>>

Phases == GatePhases
            \cup {"idle", "generate", "render", "record", "diagnose",
                  "rerun", "coverage", "decide"}

Reading == CoverageValues \cup {NoCoverage}

TypeOK ==
  /\ StoreTypeOK
  /\ GateTypeOK
  /\ pc \in Phases
  /\ run \in 0 .. MaxRuns
  /\ backend \in Backends \cup {"none"}
  /\ coverageOn \in BOOLEAN
  /\ budget \in 0 .. MaxIterations
  /\ iteration \in Iterations
  /\ passed \in BOOLEAN
  /\ coverage \in Reading
  /\ prevCoverage \in Reading
  /\ gapsFrom \in 0 .. MaxIterations
  /\ existing \subseteq TestIds
  /\ feedback \in 0 .. MaxRuns
  /\ diagnostics \in [{"agentic", "model"} -> [Iterations -> 0 .. MaxRuns]]
  /\ outcome \in {"none", "returned", "aborted"}
  /\ history \in Seq([pass : BOOLEAN, cov : Reading, measured : BOOLEAN])
  /\ aborts \in 0 .. MaxRuns

Init ==
  /\ StoreInit
  /\ GatesClear
  /\ pc = "idle"
  /\ run = 0 /\ backend = "none" /\ coverageOn = FALSE /\ budget = 0
  /\ iteration = 0 /\ passed = FALSE
  /\ coverage = NoCoverage /\ prevCoverage = NoCoverage
  /\ gapsFrom = 0 /\ existing = {} /\ feedback = 0
  /\ diagnostics = [b \in {"agentic", "model"} |-> [i \in Iterations |-> 0]]
  /\ outcome = "none"
  /\ history = <<>>
  /\ aborts = 0

----------------------------------------------------------------------------
(* Start and end of a run.  The locals of a run end with it.               *)

GatesForgotten ==
  /\ flagged' = {}
  /\ goldRuns' = 0
  /\ goldSeen' = [id \in TestIds |-> 0]
  /\ goldFailed' = {}
  /\ fooled' = {}
  /\ rejected' = {}
  /\ todo' = {}

ForgetLocals ==
  /\ open' = NoFile /\ page' = NoFile
  /\ backend' = "none" /\ coverageOn' = FALSE
  /\ GatesForgotten
  /\ iteration' = 0
  /\ passed' = FALSE
  /\ coverage' = NoCoverage
  /\ prevCoverage' = NoCoverage
  /\ gapsFrom' = 0
  /\ existing' = {}
  /\ feedback' = 0

AtMost(m, n) == IF m < n THEN m ELSE n

\* `iterations or max`, then the minimum of that and the configured maximum.
StartRun ==
  /\ pc = "idle"
  /\ run < MaxRuns
  /\ run' = run + 1
  /\ backend' \in Backends
  /\ coverageOn' \in CoverageModes
  /\ \E asked \in 0 .. MaxIterations + 1 :
       budget' = AtMost(IF asked = 0 THEN MaxIterations ELSE asked,
                        MaxIterations)
  /\ pc' = "generate"
  /\ outcome' = "none"
  /\ history' = <<>>
  /\ UNCHANGED <<storeVars, gateVars, loopVars, diagnostics, aborts>>

Return ==
  /\ pc' = "idle"
  /\ outcome' = "returned"
  /\ ForgetLocals

\* An uncaught exception, or the end of the process.
Abort ==
  /\ pc # "idle"
  /\ pc' = "idle"
  /\ outcome' = "aborted"
  /\ aborts' = aborts + 1
  /\ ForgetLocals
  /\ UNCHANGED <<written, suite, drawn, rendered, link, legacy,
                 run, budget, diagnostics, history>>

----------------------------------------------------------------------------
(* backend.generate_tests.  The diagnostics are written before a suite and *)
(* after bare pytest files.                                                *)

WriteDiagnostics ==
  diagnostics' = [diagnostics EXCEPT ![backend][iteration] = run]

\* Both backends end in write_executable_test_suite when there are cases.
GenerateCases ==
  /\ pc = "generate"
  /\ \E C \in SUBSET Cases \ {{}} : WriteSuite(iteration, C)
  /\ WriteDiagnostics
  /\ pc' = "render"
  /\ UNCHANGED <<gateVars, runVars, loopVars, outcome, history, aborts>>

RenderCases ==
  /\ pc = "render"
  /\ WriteRendering(iteration)
  /\ pc' = "record"
  /\ UNCHANGED <<gateVars, runVars, loopVars, diagnostics, outcome,
                 history, aborts>>

RecordArtifact ==
  /\ pc = "record"
  /\ WriteArtifactRecord
  /\ pc' = "lint"
  /\ UNCHANGED <<gateVars, runVars, loopVars, diagnostics, outcome,
                 history, aborts>>

\* The local backend returns no files when no proposal could be observed.
GenerateNothing ==
  /\ pc = "generate"
  /\ backend = "agentic"
  /\ WriteDiagnostics
  /\ pc' = "lint"
  /\ UNCHANGED <<storeVars, gateVars, runVars, loopVars, outcome,
                 history, aborts>>

\* A model answer without test_cases: its pytest files are taken as they are.
GenerateLegacy ==
  /\ pc = "generate"
  /\ backend = "model"
  /\ \E L \in SUBSET Cases \ {{}} : WriteLegacyTests(L)
  /\ pc' = "diagnose"
  /\ UNCHANGED <<gateVars, runVars, loopVars, diagnostics, outcome, history,
                 aborts>>

DiagnoseLegacy ==
  /\ pc = "diagnose"
  /\ WriteDiagnostics
  /\ pc' = "lint"
  /\ UNCHANGED <<storeVars, gateVars, runVars, loopVars, outcome, history,
                 aborts>>

\* TestGenerationError after the diagnostics: nothing safe in the answer.
GenerationFails ==
  /\ pc = "generate"
  /\ backend = "model"
  /\ WriteDiagnostics
  /\ pc' = "idle"
  /\ outcome' = "aborted"
  /\ aborts' = aborts + 1
  /\ ForgetLocals
  /\ UNCHANGED <<written, suite, drawn, rendered, link, legacy,
                 run, budget, history>>

----------------------------------------------------------------------------
(* The gates, and what is read back from disk after them.                  *)

Gate ==
  /\ GateStep
  /\ UNCHANGED <<runVars, loopVars, diagnostics, outcome, history, aborts>>

\* Mutant: the local backend's file first.
LocalFeedbackFirst(i) ==
  IF diagnostics["agentic"][i] # 0 THEN diagnostics["agentic"][i]
                                   ELSE diagnostics["model"][i]

\* _load_generation_feedback takes the model's file whenever there is one.
FeedbackSource(i) ==
  IF diagnostics["model"][i] # 0 THEN diagnostics["model"][i]
                                 ELSE diagnostics["agentic"][i]

LeaveGates ==
  /\ GatesDone
  /\ feedback' = FeedbackSource(iteration)
  /\ existing' = AcceptedTestIds
  /\ pc' = "rerun"
  /\ UNCHANGED <<storeVars, gateVars, runVars, iteration, passed, coverage,
                 prevCoverage, gapsFrom, diagnostics, outcome, history, aborts>>

\* pass_rate is passed/total and 0.0 when there is nothing to run.
RerunAccepted ==
  /\ pc = "rerun"
  /\ \E F \in SUBSET {x \in UnderTest : x[2] \notin Stable} :
       passed' = (UnderTest # {} /\ F = {})
  /\ pc' = "coverage"
  /\ UNCHANGED <<storeVars, gateVars, runVars, iteration, coverage,
                 prevCoverage, gapsFrom, existing, feedback, diagnostics,
                 outcome, history, aborts>>

----------------------------------------------------------------------------
(* Coverage.                                                               *)

\* The gaps of the report replace the old ones.
MeasureCoverage ==
  /\ pc = "coverage"
  /\ coverageOn
  /\ coverage' \in Reading
  /\ gapsFrom' = iteration + 1
  /\ history' = Append(history,
                  [pass |-> passed, cov |-> coverage', measured |-> TRUE])
  /\ pc' = "decide"
  /\ UNCHANGED <<storeVars, gateVars, runVars, iteration, passed,
                 prevCoverage, existing, feedback, diagnostics, outcome, aborts>>

\* CoverageError, or coverage switched off: the old gaps stay.
NoMeasurement ==
  /\ pc = "coverage"
  /\ coverage' = NoCoverage
  /\ history' = Append(history,
                  [pass |-> passed, cov |-> NoCoverage, measured |-> FALSE])
  /\ pc' = "decide"
  /\ UNCHANGED <<storeVars, gateVars, runVars, iteration, passed,
                 prevCoverage, gapsFrom, existing, feedback, diagnostics,
                 outcome, aborts>>

----------------------------------------------------------------------------
(* The end of the loop body.                                               *)

NextIteration ==
  /\ iteration + 1 < budget
  /\ iteration' = iteration + 1
  /\ pc' = "generate"
  /\ GatesForgotten
  /\ UNCHANGED <<open, page, backend, coverageOn, passed, coverage,
                 gapsFrom, existing, feedback, outcome>>

\* Mutant: the end of the range is missed by one.
RangeOverrun == iteration = budget /\ Return

RangeExhausted == iteration + 1 = budget /\ Return

LeavesDecide == UNCHANGED <<written, suite, drawn, rendered, link, legacy,
                            run, budget, diagnostics, history, aborts>>

\* Mutant: the baseline moves although the tests did not pass.
ContinueWithNewBaseline ==
  /\ pc = "decide"
  /\ ~passed
  /\ \/ NextIteration /\ prevCoverage' = coverage
     \/ RangeExhausted
  /\ LeavesDecide

\* `continue`: some accepted test failed.  previous_coverage stays.
ContinueAfterFailure ==
  /\ pc = "decide"
  /\ ~passed
  /\ \/ NextIteration /\ UNCHANGED prevCoverage
     \/ RangeExhausted
  /\ LeavesDecide

\* `break`: there is no coverage to improve.
StopWithoutCoverage ==
  /\ pc = "decide"
  /\ passed
  /\ coverage = NoCoverage
  /\ Return
  /\ LeavesDecide

Delta == IF prevCoverage = NoCoverage THEN coverage
                                      ELSE coverage - prevCoverage

TargetReached == coverage >= CoverageTarget
Stagnant      == iteration > 0 /\ Delta < MinDelta

\* `break`: the target is met, or the gain is too small.
StopOnCoverage ==
  /\ pc = "decide"
  /\ passed
  /\ coverage # NoCoverage
  /\ TargetReached \/ Stagnant
  /\ Return
  /\ LeavesDecide

GoOn ==
  /\ pc = "decide"
  /\ passed
  /\ coverage # NoCoverage
  /\ ~TargetReached /\ ~Stagnant
  /\ \/ NextIteration /\ prevCoverage' = coverage
     \/ RangeExhausted
  /\ LeavesDecide

Step ==
  \/ GenerateCases \/ RenderCases \/ RecordArtifact
  \/ GenerateNothing \/ GenerateLegacy \/ DiagnoseLegacy \/ GenerationFails
  \/ Gate \/ LeaveGates
  \/ RerunAccepted \/ MeasureCoverage \/ NoMeasurement
  \/ ContinueAfterFailure \/ StopWithoutCoverage \/ StopOnCoverage \/ GoOn

Next == StartRun \/ Abort \/ Step

Spec == Init /\ [][Next]_vars

\* A run is one thread: it goes on until it returns or dies.
FairSpec == Spec /\ WF_vars(Step)

----------------------------------------------------------------------------
(* Properties.                                                             *)

AfterGates == pc \in {"rerun", "coverage", "decide"}

\* Once the gates are done, no name occurs twice among the cases that are
\* left on disk, in whatever file or run they were written: the results,
\* the lint flags and the QC items are all keyed by name.
SurvivorNamesUnique ==
  AfterGates => \A x \in Instances : Alone(x, Instances)

\* What the gates leave in the suites was passed by the gold executable in
\* every determinism run of this pass and by no dummy, also when it comes
\* from an earlier iteration or an earlier run.
SurvivorsProven ==
  AfterGates =>
    \A x \in Instances :
      /\ x[2] \notin FoolsSome
      /\ IdOf[x[2]] \notin goldFailed
      /\ goldSeen[IdOf[x[2]]] = DeterminismRuns

\* The linter reads renderings and the filter edits suites: a case with a
\* HIGH flag gets past the gates only in a suite whose writer was killed
\* before it made the record of its rendering.
LintEscapesOnlyTornSuites ==
  AfterGates =>
    \A x \in Instances : x[2] \in HighLint => link[x[1]] = NoFile

\* Wherever runs were killed, the rendering recorded for a suite exists and
\* still tests at least the cases of the suite, and no two suites are
\* recorded with the same rendering, though the two kinds of file are
\* numbered independently.
RenderingCoversSuite ==
  \A s \in Slots :
    link[s] # NoFile =>
      /\ link[s] \in drawn
      /\ suite[s] \subseteq rendered[link[s]]
      /\ \A t \in Slots : link[t] = link[s] => t = s

\* If no run was ever cut short, suites and renderings agree exactly
\* whenever neither is being written.
RenderingExactWithoutAborts ==
  aborts = 0 /\ pc \notin {"render", "record", "rerender"} =>
    \A s \in written : link[s] # NoFile /\ rendered[link[s]] = suite[s]

\* From the second iteration on, the prompt names exactly the tests that
\* are on disk, and shows the gaps of the last iteration that measured any.
PromptIsCurrent ==
  pc = "generate" /\ iteration > 0 =>
    /\ existing = AcceptedTestIds
    /\ \A k \in 1 .. Len(history) : history[k].measured => k <= gapsFrom
    /\ gapsFrom > 0 => history[gapsFrom].measured

\* The diagnostics in a prompt are those of the iteration just finished,
\* unless a model run before this local one left a file for that iteration.
FeedbackIsCurrent ==
  pc = "generate" /\ iteration > 0 =>
    \/ feedback = run
    \/ /\ backend = "agentic"
       /\ feedback # 0
       /\ feedback = diagnostics["model"][iteration - 1]

\* Reference definition of the stopping rule, over the iterations of a run.
PassedBefore(k) == {j \in 1 .. k - 1 : history[j].pass}
Latest(S)       == CHOOSE j \in S : \A i \in S : i <= j

Baseline(k) ==
  IF PassedBefore(k) = {} THEN 0 ELSE history[Latest(PassedBefore(k))].cov

StopsAt(k) ==
  /\ history[k].pass
  /\ \/ history[k].cov = NoCoverage
     \/ history[k].cov >= CoverageTarget
     \/ k > 1 /\ history[k].cov - Baseline(k) < MinDelta

\* A run returns at the first iteration whose tests all pass and whose
\* coverage is unknown, sufficient, or too little above that of the last
\* iteration before it whose tests all passed, and otherwise after its
\* last iteration.
ReturnsAtFirstStop ==
  outcome = "returned" =>
    /\ \A k \in 1 .. Len(history) - 1 : ~StopsAt(k)
    /\ Len(history) = budget \/ StopsAt(Len(history))

\* Every run that is started comes to an end, whatever the tests do.
RunEnds == (pc # "idle") ~> (pc = "idle")

\* What the hard gate report says of a test, "gold determinism failed"
\* (hard_gates.py), should be true of it: some run did not pass.
UnstableMeansFailed ==
  pc = "filter" =>
    \A id \in TestIds :
      goldSeen[id] > 0 /\ ~Deterministic(id) => id \in goldFailed

\* Suite files, renderings and records stay consistent through writes, gates,
\* kills and runs (write_executable_test_suite, test_writer.py:139; hard_gates.py:128-190).
StoreIsConsistent ==
  /\ TypeOK
  /\ LintEscapesOnlyTornSuites
  /\ RenderingCoversSuite
  /\ RenderingExactWithoutAborts

\* All that a prompt is made of - test names, gaps and diagnostics - is of the
\* iteration before it (controller.py:53-75, 260-275).
PromptsAreCurrent == PromptIsCurrent /\ FeedbackIsCurrent
=============================================================================

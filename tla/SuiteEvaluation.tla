-------------------------- MODULE SuiteEvaluation --------------------------
(***************************************************************************)
(* evaluate_suite: run the generated tests on the gold program, lint them, *)
(* apply the hard gates, measure what is left again, and score it.  Each   *)
(* measurement leaves a report of its own on disk, the scorer three more,  *)
(* and construct-task exports the QC queue for a reader.  The tests may be *)
(* changed between two evaluations, and a call may be killed anywhere.     *)
(* The gates are HardGates; here they keep some of the tests that none of  *)
(* their measurements speaks against.                                      *)
(***************************************************************************)
EXTENDS SuiteScore, FiniteSets

CONSTANTS
  Tests,            \* ids of canonical test cases
  Traits,           \* kinds of tests, see TraitType
  Rates,            \* line coverages the coverage tools report
  DeterminismRuns,  \* config.determinism_runs
  Multipliers,      \* efficiency multipliers, in quarters
  MaxCalls          \* bound on the evaluations

\* lint: the severity of its flag; shape: what the redundancy signature keeps
\* of it; stable: gold always passes it; fools: a dummy passes it; survives: a
\* synthetic mutant does; safe: it can be timed.
TraitType == [lint : {"no", "medium", "high"}, shape : Nat, stable : BOOLEAN,
              fools : BOOLEAN, survives : BOOLEAN, safe : BOOLEAN]

Items == {"weak", "flaky", "dummy", "mutation", "redundant"} \X (Tests \cup {"suite"})

\* The reports in reports/ and qc/: the evaluation that wrote them, the tests
\* they are of, and what they say.
Reports ==
  [redundancy |-> [call : Nat, of : SUBSET Tests, score : Nat, clustered : SUBSET Tests],
   mutation   |-> [call : Nat, of : SUBSET Tests, survivors : SUBSET Tests],
   efficiency |-> [call : Nat, of : SUBSET Tests, eligible : BOOLEAN,
                   multiplier : Multipliers \cup {None}],
   quality    |-> [call : Nat, of : SUBSET Tests, rate : Nat, queued : Nat],
   reward     |-> [call : Nat, of : SUBSET Tests, quality : 0 .. One,
                   result : [passed : BOOLEAN, multiplier : Nat \cup {None},
                             score : 0 .. One, noted : BOOLEAN]],
   qc         |-> [call : Nat, of : SUBSET Tests, items : SUBSET Items]]

Names == DOMAIN Reports

ASSUME EvaluationAssumption ==
  /\ IsFiniteSet(Tests) /\ Traits \subseteq TraitType
  /\ Rates \subseteq 0 .. One
  /\ DeterminismRuns \in Nat \ {0} /\ Multipliers \subseteq 3 .. 5
  /\ MaxCalls \in Nat
  /\ \A n \in Names : None \notin Reports[n]

VARIABLES
  trait,    \* the kind of each test
  suite,    \* generated_tests/: the tests on disk
  coverage, \* the line coverage of the last coverage report, or None
  report,   \* reports/ and qc/, by name
  exported, \* the decision of qc/qc_queue.md
  pc,       \* the next step of the call in progress
  gold,     \* gold_result: the tests run and those that passed
  lint,     \* lint_report: the tests flagged, by severity
  runs,     \* determinism runs made
  unsteady, \* tests that failed one of them
  fooled,   \* tests that a dummy passed
  declared, \* the profile names benchmark commands
  calls     \* evaluations begun

disk  == <<trait, suite, coverage>>
local == <<gold, lint, runs, unsteady, fooled, declared>>
vars  == <<disk, report, exported, pc, local, calls>>

NoResult == [run |-> {}, passed |-> {}]
NoFlags  == [run |-> {}, high |-> {}, medium |-> {}]

Init ==
  /\ trait \in [Tests -> Traits] /\ suite \in SUBSET Tests
  /\ coverage \in Rates \cup {None}
  /\ report = [n \in Names |-> None] /\ exported = None
  /\ pc = "idle" /\ gold = NoResult /\ lint = NoFlags
  /\ runs = 0 /\ unsteady = {} /\ fooled = {} /\ declared = FALSE
  /\ calls = 0
-----------------------------------------------------------------------------
(* Measures.                                                               *)

\* The share of the tests s in the tests t.
Portion(s, t) == Share(Cardinality(s), Cardinality(t))

\* run_generated_suite on the gold program: unstable tests pass or fail.
GoldRuns == {[run |-> suite, passed |-> suite \ f] :
               f \in SUBSET {t \in suite : ~trait[t].stable}}

Flags(s) == [run |-> s, high |-> {t \in s : trait[t].lint = "high"},
                        medium |-> {t \in s : trait[t].lint = "medium"}]

\* Tests with the same signature.
Cluster(t, s) == {u \in s : trait[u].shape = trait[t].shape}

Clusters(s) == {Cluster(t, s) : t \in s}

\* The average of the penalties: each of the n tests of a cluster draws
\* (n - 1) / n, a cluster n - 1.
Redundancy(s) ==
  Share(Cardinality(s) - Cardinality(Clusters(s)), Cardinality(s))

\* One item for each flagged test, one for the suite for each rate that is not
\* what it should be, one for each surviving test, one for each test that is
\* not alone in its cluster.
QueueItems ==
  {<<"weak", t>> : t \in lint.high \cup lint.medium}
    \cup (IF unsteady # {} \/ suite = {} THEN {<<"flaky", "suite">>} ELSE {})
    \cup (IF fooled # {} THEN {<<"dummy", "suite">>} ELSE {})
    \cup (IF report["mutation"].survivors # {} THEN {<<"mutation", "suite">>} ELSE {})
    \cup {<<"mutation", t>> : t \in report["mutation"].survivors}
    \cup {<<"redundant", t>> : t \in report["redundancy"].clustered}

\* The items that are not of medium severity.
Blockers(items) == {i \in items :
  \/ i[1] \in {"flaky", "dummy"}
  \/ i[1] = "weak" /\ i[2] \in lint.high}

\* Mutant: nothing of high severity, nothing to do.
DecisionOfBlockers(items) == IF Blockers(items) = {} THEN "ready" ELSE "hold"

Decision(items) ==
  IF items = {} THEN "ready" ELSE IF Blockers(items) # {} THEN "hold" ELSE "review"
-----------------------------------------------------------------------------
(* The steps.                                                              *)

Goto(here, there) == pc = here /\ pc' = there

Write(name, r) == report' = [report EXCEPT ![name] = r]

Begin ==
  /\ Goto("idle", "gold 1") /\ calls < MaxCalls /\ calls' = calls + 1
  /\ declared' \in BOOLEAN
  /\ gold' = NoResult /\ lint' = NoFlags /\ runs' = 0
  /\ unsteady' = {} /\ fooled' = {}
  /\ UNCHANGED <<disk, report, exported>>

FirstGoldRun ==
  /\ Goto("gold 1", "lint 1") /\ gold' \in GoldRuns
  /\ UNCHANGED <<disk, report, exported, lint, runs, unsteady, fooled, declared, calls>>

FirstLint ==
  /\ Goto("lint 1", "gates") /\ lint' = Flags(suite)
  /\ UNCHANGED <<disk, report, exported, gold, runs, unsteady, fooled, declared, calls>>

\* apply_hard_quality_gates: tests with a high flag, those a dummy passes and
\* those that failed a run are taken out of the suite.
HardGates ==
  /\ Goto("gates", "gold 2")
  /\ \E f \in SUBSET {t \in suite : ~trait[t].stable} :
       suite' = (suite \ f) \ (lint.high \cup {t \in suite : trait[t].fools})
  /\ UNCHANGED <<trait, coverage, report, exported, local, calls>>

\* Mutant: the result of before the gates is scored.
OldGoldRun ==
  /\ Goto("gold 2", "lint 2")
  /\ UNCHANGED <<disk, report, exported, local, calls>>

GoldRun ==
  /\ Goto("gold 2", "lint 2") /\ gold' \in GoldRuns
  /\ UNCHANGED <<disk, report, exported, lint, runs, unsteady, fooled, declared, calls>>

Lint ==
  /\ Goto("lint 2", "determinism") /\ lint' = Flags(suite)
  /\ UNCHANGED <<disk, report, exported, gold, runs, unsteady, fooled, declared, calls>>

\* run_gold_determinism_details, run by run.
DeterminismRun ==
  /\ pc = "determinism" /\ runs < DeterminismRuns
  /\ \E r \in GoldRuns : unsteady' = unsteady \cup (r.run \ r.passed)
  /\ runs' = runs + 1 /\ pc' = IF runs' = DeterminismRuns THEN "dummies" ELSE pc
  /\ UNCHANGED <<disk, report, exported, gold, lint, fooled, declared, calls>>

DummyRuns ==
  /\ Goto("dummies", "redundancy")
  /\ fooled' = {t \in suite : trait[t].fools}
  /\ UNCHANGED <<disk, report, exported, gold, lint, runs, unsteady, declared, calls>>

Analyze ==
  /\ Goto("redundancy", "mutation")
  /\ Write("redundancy", [call |-> calls, of |-> suite, score |-> Redundancy(suite),
       clustered |-> {t \in suite : Cluster(t, suite) # {t}}])
  /\ UNCHANGED <<disk, exported, local, calls>>

MutationRuns ==
  /\ Goto("mutation", "efficiency")
  /\ Write("mutation", [call |-> calls, of |-> suite,
       survivors |-> {t \in suite : trait[t].survives}])
  /\ UNCHANGED <<disk, exported, local, calls>>

Efficiency(eligible, m) ==
  [call |-> calls, of |-> suite, eligible |-> eligible, multiplier |-> m]

\* The gold program against itself: the clocks decide on the ratio.
ScoreEfficiency ==
  /\ Goto("efficiency", "quality")
  /\ IF \/ Portion(gold.passed, gold.run) < Gate
        \/ ~declared /\ \A t \in suite : ~trait[t].safe
       THEN Write("efficiency", Efficiency(FALSE, None))
       ELSE \E m \in Multipliers : Write("efficiency", Efficiency(TRUE, m))
  /\ UNCHANGED <<disk, exported, local, calls>>

Measures ==
  [correct   |-> Portion(gold.passed, gold.run),
   strength  |-> AssertionStrength(Cardinality(gold.run), Cardinality(lint.high),
                                   Cardinality(lint.medium)),
   coverage  |-> coverage,
   steady    |-> Portion(suite \ unsteady, suite),
   rejecting |-> One - Portion(fooled, suite),
   redundant |-> report["redundancy"].score]

\* score_suite computes all three reports and then writes one after the other.
WriteQuality ==
  /\ Goto("quality", "reward")
  /\ Write("quality", [call |-> calls, of |-> gold.run,
       rate |-> Portion(gold.passed, gold.run), queued |-> Cardinality(QueueItems)])
  /\ UNCHANGED <<disk, exported, local, calls>>

WriteReward ==
  /\ Goto("reward", "qc")
  /\ Write("reward", [call |-> calls, of |-> gold.run, quality |-> Quality(Measures),
       result |-> Reward(Measures, report["efficiency"].multiplier)])
  /\ UNCHANGED <<disk, exported, local, calls>>

WriteQueue ==
  /\ Goto("qc", "export")
  /\ Write("qc", [call |-> calls, of |-> lint.run, items |-> QueueItems])
  /\ UNCHANGED <<disk, exported, local, calls>>

\* export_qc_queue, which evaluate-suite by itself leaves out.
Export ==
  /\ Goto("export", "done")
  /\ exported' \in {exported, Decision(report["qc"].items)}
  /\ UNCHANGED <<disk, report, local, calls>>

Step ==
  \/ FirstGoldRun \/ FirstLint \/ HardGates \/ GoldRun \/ Lint \/ DeterminismRun
  \/ DummyRuns \/ Analyze \/ MutationRuns \/ ScoreEfficiency
  \/ WriteQuality \/ WriteReward \/ WriteQueue \/ Export

\* Between two calls tests are generated or removed, and coverage measured.
Generate ==
  /\ pc = "done" /\ pc' = "idle" /\ calls < MaxCalls
  /\ suite' \in SUBSET Tests /\ coverage' \in Rates \cup {None}
  /\ UNCHANGED <<trait, report, exported, local, calls>>

Kill ==
  /\ pc \notin {"idle", "done"} /\ pc' = "idle"
  /\ UNCHANGED <<disk, report, exported, local, calls>>

Next == Begin \/ Step \/ Generate \/ Kill

Spec == Init /\ [][Next]_vars
-----------------------------------------------------------------------------
TypeOK ==
  /\ suite \subseteq Tests /\ coverage \in Rates \cup {None}
  /\ \A n \in Names : report[n] # None => report[n].of \subseteq Tests
  /\ report["reward"] # None => report["reward"].result.score \in 0 .. One
  /\ gold.passed \subseteq gold.run /\ runs \in 0 .. DeterminismRuns
  /\ exported \in {None, "ready", "review", "hold"}

\* When evaluate_suite returns, every report is of the tests that are on disk:
\* none was made before the gates, or by an earlier call.
ReportsOfOneSuite ==
  pc = "done" => \A n \in Names : report[n].of = suite /\ report[n].call = calls

\* Reports are replaced in the order that their readers rely on:
\* a score is never of an older evaluation than the QC queue beside it, nor
\* the quality report than the score, whenever a call was killed.
ReportsInOrder ==
  LET Call(n) == IF report[n] = None THEN 0 ELSE report[n].call
  IN  Call("qc") <= Call("reward") /\ Call("reward") <= Call("quality")
      /\ Call("quality") <= Call("efficiency") /\ Call("efficiency") <= Call("mutation")

\* A suite whose running times were not compared is scored by its quality
\* alone; if it passed the gate without a coverage report, the cap holds.
UntimedIsNeutral ==
  LET r     == report["reward"]
      score == r.result.score
  IN  pc = "done" /\ r.result.passed =>
        /\ ~report["efficiency"].eligible =>
             score = IF coverage = None THEN Smaller(r.quality, Cap) ELSE r.quality
        /\ coverage = None => score <= Cap

\* "Ready: no QC items generated." (qc/qc_export.py:110): then no test left in
\* the suite is weak or redundant, fooled by a dummy or a mutant, or failed a
\* determinism run.
ReadyMeansUnflagged ==
  [][exported' = "ready" /\ exported' # exported =>
       /\ unsteady = {} /\ suite # {}
       /\ \A t \in suite :
            /\ trait[t].lint = "no" /\ ~trait[t].fools /\ ~trait[t].survives
            /\ \A u \in suite : trait[u].shape = trait[t].shape => u = t]_vars

\* The reports of an evaluation are of one suite, in order, and the score does
\* not depend on what was not measured (cli.py:228-303, suite_scorer.py:30-137).
ReportsAreConsistent ==
  TypeOK /\ ReportsInOrder /\ ReportsOfOneSuite /\ UntimedIsNeutral
=============================================================================

----------------------------- MODULE HardGates -----------------------------
(***************************************************************************)
(* apply_hard_quality_gates: lint the rendered files, run every test       *)
(* several times on the gold executable and once on each dummy, then strip *)
(* the rejected names from the suite files, one file after the other.      *)
(***************************************************************************)
EXTENDS TestStore

CONSTANTS
  DeterminismRuns,  \* config.determinism_runs
  Stable,           \* cases the gold executable passes whenever they run
  Dummies,          \* always_zero, generic_help, echo_args
  Fools,            \* cases each dummy executable passes
  HighLint          \* cases whose rendering draws a HIGH lint flag

ASSUME GateAssumption ==
  /\ DeterminismRuns \in Nat \ {0}
  /\ Stable \subseteq Cases
  /\ HighLint \subseteq Cases
  /\ Fools \in [Dummies -> SUBSET Cases]

FoolsSome == {c \in Cases : \E d \in Dummies : c \in Fools[d]}

VARIABLES
  pc,         \* where the process that owns the task is
  flagged,    \* names with a HIGH lint flag
  goldRuns,   \* determinism runs made so far
  goldSeen,   \* outcomes collected for each name, over all runs
  goldFailed, \* names with an outcome other than "passed"
  fooled,     \* names a dummy passed
  rejected,   \* keys of rejection_reasons
  todo        \* suite files still to be filtered

gateVars == <<flagged, goldRuns, goldSeen, goldFailed, fooled, rejected, todo>>

GatePhases   == {"lint", "gold", "dummy", "filter", "rerender"}

GateTypeOK ==
  /\ flagged \subseteq TestIds
  /\ goldRuns \in 0 .. DeterminismRuns
  /\ goldSeen \in [TestIds -> Nat]
  /\ goldFailed \subseteq TestIds
  /\ fooled \subseteq TestIds
  /\ rejected \subseteq TestIds
  /\ todo \subseteq Slots

GatesClear ==
  /\ flagged = {}
  /\ goldRuns = 0
  /\ goldSeen = [id \in TestIds |-> 0]
  /\ goldFailed = {}
  /\ fooled = {}
  /\ rejected = {}
  /\ todo = {}

----------------------------------------------------------------------------
(* AssertionQualityLinter.lint_path reads every test_*.py file: all the    *)
(* renderings, current or not, and the bare pytest files.                  *)
Lint ==
  /\ pc = "lint"
  /\ LET tests == UNION {rendered[s] : s \in drawn} \cup legacy
     IN  flagged' = {IdOf[c] : c \in tests \cap HighLint}
  /\ goldRuns' = 0
  /\ goldSeen' = [id \in TestIds |-> 0]
  /\ goldFailed' = {}
  /\ fooled' = {}
  /\ rejected' = {}
  /\ todo' = {}
  /\ pc' = "gold"
  /\ UNCHANGED storeVars

\* One run of run_gold_determinism_details; F are the instances that fail it.
GoldRun ==
  /\ pc = "gold"
  /\ goldRuns < DeterminismRuns
  /\ \E F \in SUBSET {x \in UnderTest : x[2] \notin Stable} :
       goldFailed' = goldFailed \cup IdsIn(F)
  /\ goldSeen' = [id \in TestIds |->
                    goldSeen[id] + Cardinality(WithId(UnderTest, id))]
  /\ goldRuns' = goldRuns + 1
  /\ pc' = IF goldRuns + 1 = DeterminismRuns THEN "dummy" ELSE "gold"
  /\ UNCHANGED <<storeVars, flagged, fooled, rejected, todo>>

\* Mutants: the outcomes of a name are not counted, or one run too many is
\* asked for.
NeverFails(id)       == id \notin goldFailed
PassesOneMore(id)    == goldSeen[id] = goldRuns + 1 /\ id \notin goldFailed

\* _per_test_deterministic: one outcome per run, and every one a pass.
Deterministic(id) == goldSeen[id] = goldRuns /\ id \notin goldFailed

\* Mutants: a gate that is run and then forgotten.
ReasonsWithoutDummies(dummyPasses) ==
  flagged \cup {id \in TestIds : goldSeen[id] > 0 /\ ~Deterministic(id)}

\* _rejection_reasons, over the dummy outcomes just collected.
RejectionReasons(dummyPasses) ==
  flagged \cup dummyPasses
    \cup {id \in TestIds : goldSeen[id] > 0 /\ ~Deterministic(id)}

\* DummyBinaryRunner.run_details, then the start of _filter_canonical_suites.
DummyRun ==
  /\ pc = "dummy"
  /\ fooled' = IdsIn({x \in UnderTest : x[2] \in FoolsSome})
  /\ rejected' = RejectionReasons(fooled')
  /\ todo' = written
  /\ pc' = "filter"
  /\ UNCHANGED <<storeVars, flagged, goldRuns, goldSeen, goldFailed>>

\* Suite files are visited in the order of their names.
Before(s, t) == s[1] < t[1] \/ (s[1] = t[1] /\ s[2] < t[2])

NextToFilter(s) == s \in todo /\ \A t \in todo : t = s \/ Before(s, t)

AcceptedCases(s) == {c \in suite[s] : IdOf[c] \notin rejected}

\* No case of the file is rejected: `continue`.
KeepSuite ==
  /\ pc = "filter"
  /\ \E s \in Slots :
       /\ NextToFilter(s)
       /\ AcceptedCases(s) = suite[s]
       /\ todo' = todo \ {s}
  /\ UNCHANGED <<storeVars, pc, flagged, goldRuns, goldSeen, goldFailed,
                 fooled, rejected>>

\* The file is rewritten; its rendering follows if a record names it.
FilterSuite ==
  /\ pc = "filter"
  /\ \E s \in Slots :
       /\ NextToFilter(s)
       /\ AcceptedCases(s) # suite[s]
       /\ suite' = [suite EXCEPT ![s] = AcceptedCases(s)]
       /\ todo' = todo \ {s}
       /\ open' = IF link[s] = NoFile THEN NoFile ELSE s
       /\ pc' = IF link[s] = NoFile THEN "filter" ELSE "rerender"
  /\ UNCHANGED <<written, drawn, rendered, link, legacy, page,
                 flagged, goldRuns, goldSeen, goldFailed, fooled, rejected>>

\* _rewrite_rendered_tests.
RewriteRendering ==
  /\ pc = "rerender"
  /\ drawn' = drawn \cup {link[open]}
  /\ rendered' = [rendered EXCEPT ![link[open]] = suite[open]]
  /\ open' = NoFile
  /\ pc' = "filter"
  /\ UNCHANGED <<written, suite, link, legacy, page, gateVars>>

GateStep ==
  \/ Lint \/ GoldRun \/ DummyRun
  \/ KeepSuite \/ FilterSuite \/ RewriteRendering

\* The gate has reported and its caller goes on.
GatesDone == pc = "filter" /\ todo = {}
=============================================================================

-------------------------- MODULE GenerationProofs --------------------------
(***************************************************************************)
(* Proofs, for every value of the constants, that GenerationController     *)
(* keeps GenerationInvariant!IInv and hence its safety properties, and     *)
(* that it implements SuiteAcceptance.                                     *)
(***************************************************************************)
EXTENDS GenerationInvariant, SuiteAcceptance, FiniteSetTheorems, TLAPS

----------------------------------------------------------------------------
(* Types.                                                                  *)

LEMMA ConstantTypes ==
  /\ Iterations \subseteq Nat
  /\ Copies \subseteq Nat
  /\ 0 \in Iterations
  /\ \A i \in Iterations, n \in Copies : <<i, n>> \in Slots
  /\ \A s \in Slots : s[1] \in Iterations /\ s[2] \in Copies
  /\ NoFile \notin Slots
  BY StoreAssumption DEF StoreAssumption, Iterations, Copies, Slots

LEMMA InitTypes == Init => TypeOK
<1> SUFFICES ASSUME Init PROVE TypeOK
  OBVIOUS
<1>1. StoreTypeOK
  BY DEF Init, StoreInit, StoreTypeOK
<1>2. GateTypeOK
  BY GateAssumption DEF Init, GatesClear, GateTypeOK, GateAssumption
<1>3. /\ pc \in Phases
      /\ run \in 0 .. MaxRuns
      /\ budget \in 0 .. MaxIterations
      /\ iteration \in Iterations
      /\ gapsFrom \in 0 .. MaxIterations
      /\ feedback \in 0 .. MaxRuns
      /\ aborts \in 0 .. MaxRuns
  BY ConstantTypes, StoreAssumption, ControllerAssumption
  DEF Init, Phases, StoreAssumption, ControllerAssumption
<1>4. /\ coverage \in Reading
      /\ prevCoverage \in Reading
      /\ backend \in Backends \cup {"none"}
      /\ outcome \in {"none", "returned", "aborted"}
      /\ coverageOn \in BOOLEAN
      /\ passed \in BOOLEAN
      /\ existing \subseteq TestIds
  BY DEF Init, Reading
<1>5. diagnostics \in [{"agentic", "model"} -> [Iterations -> 0 .. MaxRuns]]
  BY ControllerAssumption DEF Init, ControllerAssumption
<1>6. history \in Seq([pass : BOOLEAN, cov : Reading, measured : BOOLEAN])
  BY DEF Init
<1> QED
  BY <1>1, <1>2, <1>3, <1>4, <1>5, <1>6 DEF TypeOK

LEMMA IdTypes ==
  ASSUME StoreTypeOK
  PROVE  /\ UnderTest \subseteq (Slots \cup {NoFile}) \X Cases
         /\ Instances \subseteq Slots \X Cases
         /\ \A x \in (Slots \cup {NoFile}) \X Cases : IdOf[x[2]] \in TestIds
         /\ \A c \in Cases : IdOf[c] \in TestIds
  BY StoreAssumption DEF StoreTypeOK, StoreAssumption, UnderTest, Instances

LEMMA FiniteTests ==
  ASSUME StoreTypeOK
  PROVE  /\ IsFiniteSet(UnderTest)
         /\ \A id : IsFiniteSet(WithId(UnderTest, id))
         /\ \A id : Cardinality(WithId(UnderTest, id)) \in Nat
<1>1. IsFiniteSet(Iterations) /\ IsFiniteSet(Copies)
  BY FS_Interval, StoreAssumption DEF Iterations, Copies, StoreAssumption
<1>2. IsFiniteSet(Slots) /\ IsFiniteSet({NoFile})
  BY <1>1, FS_Product, FS_Singleton DEF Slots
<1>3. IsFiniteSet(Slots \cup {NoFile})
  BY <1>2, FS_Union
<1>4. IsFiniteSet((Slots \cup {NoFile}) \X Cases)
  BY <1>3, FS_Product, StoreAssumption DEF StoreAssumption
<1>5. IsFiniteSet(UnderTest)
  BY <1>4, IdTypes, FS_Subset
<1>6. ASSUME NEW id
      PROVE  /\ IsFiniteSet(WithId(UnderTest, id))
             /\ Cardinality(WithId(UnderTest, id)) \in Nat
  <2>1. WithId(UnderTest, id) \subseteq UnderTest
    BY DEF WithId
  <2> QED
    BY <2>1, <1>5, FS_Subset, FS_CardinalityType
<1> QED
  BY <1>5, <1>6

LEMMA GateTypes ==
  ASSUME TypeOK, WriterInv, Gate
  PROVE  TypeOK'
<1>1. StoreTypeOK /\ GateTypeOK /\ pc \in Phases
  BY DEF TypeOK
<1>2. StoreTypeOK' /\ GateTypeOK' /\ pc' \in Phases
  <2>1. CASE Lint
    <3>1. flagged' \subseteq TestIds
      BY <1>1, <2>1, IdTypes, GateAssumption DEF Lint, GateAssumption
    <3> QED
      BY <1>1, <2>1, <3>1, GateAssumption
      DEF Lint, StoreTypeOK, GateTypeOK, storeVars, GatePhases, Phases, GateAssumption
  <2>2. CASE GoldRun
    <3>1. PICK F \in SUBSET {x \in UnderTest : x[2] \notin Stable} :
            goldFailed' = goldFailed \cup IdsIn(F)
      BY <2>2 DEF GoldRun
    <3>2. goldFailed' \subseteq TestIds
      BY <1>1, <3>1, IdTypes DEF IdsIn, GateTypeOK
    <3>3. goldSeen' \in [TestIds -> Nat]
      BY <1>1, <2>2, FiniteTests DEF GoldRun, GateTypeOK
    <3>4. goldRuns' \in 0 .. DeterminismRuns
      BY <1>1, <2>2, GateAssumption DEF GoldRun, GateTypeOK, GateAssumption
    <3> QED
      BY <1>1, <2>2, <3>2, <3>3, <3>4
      DEF GoldRun, StoreTypeOK, GateTypeOK, storeVars, GatePhases, Phases
  <2>3. CASE DummyRun
    <3>1. fooled' \subseteq TestIds
      BY <1>1, <2>3, IdTypes DEF DummyRun, IdsIn
    <3>2. rejected' \subseteq TestIds
      BY <1>1, <2>3, <3>1 DEF DummyRun, RejectionReasons, GateTypeOK
    <3>3. todo' \subseteq Slots
      BY <1>1, <2>3 DEF DummyRun, StoreTypeOK
    <3> QED
      BY <1>1, <2>3, <3>1, <3>2, <3>3
      DEF DummyRun, StoreTypeOK, GateTypeOK, storeVars, GatePhases, Phases
  <2>4. CASE KeepSuite
    BY <1>1, <2>4
    DEF KeepSuite, StoreTypeOK, GateTypeOK, storeVars, GatePhases, Phases
  <2>5. CASE FilterSuite
    <3>1. PICK s \in Slots :
            /\ suite' = [suite EXCEPT ![s] = AcceptedCases(s)]
            /\ todo' = todo \ {s}
            /\ open' = IF link[s] = NoFile THEN NoFile ELSE s
            /\ pc' = IF link[s] = NoFile THEN "filter" ELSE "rerender"
      BY <2>5 DEF FilterSuite
    <3>2. AcceptedCases(s) \in SUBSET Cases
      BY <1>1 DEF AcceptedCases, StoreTypeOK
    <3>3. suite' \in [Slots -> SUBSET Cases]
      BY <1>1, <3>1, <3>2 DEF StoreTypeOK
    <3>4. StoreTypeOK'
      BY <1>1, <2>5, <3>1, <3>3 DEF StoreTypeOK, FilterSuite
    <3>5. GateTypeOK'
      BY <1>1, <2>5, <3>1 DEF GateTypeOK, FilterSuite
    <3> QED
      BY <3>1, <3>4, <3>5 DEF GatePhases, Phases
  <2>6. CASE RewriteRendering
    <3>1. open \in Slots /\ link[open] \in Slots
      BY <1>1, <2>6 DEF RewriteRendering, WriterInv, StoreTypeOK
    <3>2. suite[open] \in SUBSET Cases
      BY <1>1, <3>1 DEF StoreTypeOK
    <3>3. rendered' \in [Slots -> SUBSET Cases]
      BY <1>1, <2>6, <3>1, <3>2 DEF StoreTypeOK, RewriteRendering
    <3>4. StoreTypeOK'
      BY <1>1, <2>6, <3>1, <3>3 DEF StoreTypeOK, RewriteRendering
    <3>5. GateTypeOK'
      BY <1>1, <2>6 DEF GateTypeOK, RewriteRendering, gateVars
    <3> QED
      BY <2>6, <3>4, <3>5 DEF GatePhases, Phases, RewriteRendering
  <2> QED
    BY <2>1, <2>2, <2>3, <2>4, <2>5, <2>6 DEF Gate, GateStep
<1>3. /\ UNCHANGED <<run, backend, coverageOn, budget>>
      /\ UNCHANGED <<iteration, passed, coverage, prevCoverage, gapsFrom,
                     existing, feedback>>
      /\ UNCHANGED <<diagnostics, outcome, history, aborts>>
  BY DEF Gate, runVars, loopVars
<1>4. Phases' = Phases /\ Reading' = Reading
  BY DEF Phases, Reading, GatePhases
<1> QED
  BY <1>2, <1>3, <1>4 DEF TypeOK

\* What TypeOK says of the variables of the loop.
LoopTypeOK ==
  /\ run \in 0 .. MaxRuns
  /\ backend \in Backends \cup {"none"}
  /\ coverageOn \in BOOLEAN
  /\ budget \in 0 .. MaxIterations
  /\ iteration \in Iterations
  /\ passed \in BOOLEAN
  /\ coverage \in Reading
  /\ prevCoverage \in Reading
  /\ gapsFrom \in 0 .. MaxIterations
  /\ existing \subseteq TestIds
  /\ feedback \in 0 .. MaxRuns

LogTypeOK ==
  /\ diagnostics \in [{"agentic", "model"} -> [Iterations -> 0 .. MaxRuns]]
  /\ outcome \in {"none", "returned", "aborted"}
  /\ history \in Seq([pass : BOOLEAN, cov : Reading, measured : BOOLEAN])
  /\ aborts \in 0 .. MaxRuns

LEMMA TypeParts ==
  /\ TypeOK <=> /\ StoreTypeOK /\ GateTypeOK /\ pc \in Phases
                /\ LoopTypeOK /\ LogTypeOK
  /\ TypeOK' <=> /\ StoreTypeOK' /\ GateTypeOK' /\ pc' \in Phases
                 /\ LoopTypeOK' /\ LogTypeOK'
  BY DEF TypeOK, LoopTypeOK, LogTypeOK, Phases, GatePhases

LEMMA NextReading == Reading' = Reading /\ NoCoverage \in Reading
  BY DEF Reading

\* The steps that go on leave the gate, or the store, or both alone.
LEMMA GateTypesKept ==
  ASSUME GateTypeOK, UNCHANGED gateVars \/ GatesForgotten
  PROVE  GateTypeOK'
<1>1. CASE UNCHANGED gateVars
  BY <1>1 DEF GateTypeOK, gateVars
<1>2. CASE GatesForgotten
  BY <1>2, GateAssumption DEF GateTypeOK, GatesForgotten, GateAssumption
<1> QED
  BY <1>1, <1>2

LEMMA StoreTypesKept ==
  ASSUME StoreTypeOK,
         UNCHANGED <<written, suite, drawn, rendered, link, legacy>>,
         UNCHANGED <<open, page>> \/ (open' = NoFile /\ page' = NoFile)
  PROVE  StoreTypeOK'
  BY DEF StoreTypeOK

LEMMA ForgottenTypes ==
  ASSUME LoopTypeOK, ForgetLocals, UNCHANGED <<run, budget>>
  PROVE  LoopTypeOK'
<1>1. 0 \in 0 .. MaxIterations /\ 0 \in 0 .. MaxRuns /\ 0 \in Iterations
  BY ConstantTypes, StoreAssumption, ControllerAssumption
  DEF StoreAssumption, ControllerAssumption
<1>2. /\ run' \in 0 .. MaxRuns
      /\ budget' \in 0 .. MaxIterations
      /\ iteration' \in Iterations
      /\ gapsFrom' \in 0 .. MaxIterations
      /\ feedback' \in 0 .. MaxRuns
  BY <1>1 DEF LoopTypeOK, ForgetLocals
<1>3. /\ backend' \in Backends \cup {"none"}
      /\ coverage' \in Reading'
      /\ prevCoverage' \in Reading'
      /\ existing' \subseteq TestIds
  BY NextReading DEF ForgetLocals
<1>4. coverageOn' \in BOOLEAN /\ passed' \in BOOLEAN
  BY DEF ForgetLocals
<1> QED
  BY <1>2, <1>3, <1>4 DEF LoopTypeOK

LEMMA WriterTypes ==
  ASSUME StoreTypeOK, iteration \in Iterations, WriterInv,
         \/ \E C \in SUBSET Cases \ {{}} : WriteSuite(iteration, C)
         \/ pc = "render" /\ WriteRendering(iteration)
         \/ WriteArtifactRecord
         \/ \E L \in SUBSET Cases \ {{}} : WriteLegacyTests(L)
  PROVE  StoreTypeOK'
<1>1. ASSUME NEW C \in SUBSET Cases, WriteSuite(iteration, C)
      PROVE  StoreTypeOK'
  BY <1>1, ConstantTypes DEF WriteSuite, StoreTypeOK
<1>2. CASE pc = "render" /\ WriteRendering(iteration)
  <2>1. open \in Slots /\ suite[open] \in SUBSET Cases
    BY <1>2 DEF WriterInv, StoreTypeOK
  <2> QED
    BY <1>2, <2>1, ConstantTypes DEF WriteRendering, StoreTypeOK
<1>3. CASE WriteArtifactRecord
  BY <1>3 DEF WriteArtifactRecord, StoreTypeOK
<1>4. ASSUME NEW L \in SUBSET Cases, WriteLegacyTests(L)
      PROVE  StoreTypeOK'
  BY <1>4 DEF WriteLegacyTests, StoreTypeOK
<1> QED
  BY <1>1, <1>2, <1>3, <1>4

LEMMA DiagnosticTypes ==
  ASSUME LoopTypeOK, LogTypeOK, WriteDiagnostics
  PROVE  diagnostics' \in
           [{"agentic", "model"} -> [Iterations -> 0 .. MaxRuns]]
<1>1. ASSUME NEW b \in {"agentic", "model"}
      PROVE  [diagnostics[b] EXCEPT ![iteration] = run]
               \in [Iterations -> 0 .. MaxRuns]
  BY <1>1 DEF LoopTypeOK, LogTypeOK
<1> QED
  BY <1>1 DEF LoopTypeOK, LogTypeOK, WriteDiagnostics

LEMMA LoopTypes ==
  ASSUME TypeOK, RunsInv, WriterInv, Next, ~Gate
  PROVE  TypeOK'
<1> USE TypeParts
<1> USE DEF Phases
<1>1. CASE StartRun
  <2>1. run' \in 0 .. MaxRuns
    BY <1>1, ControllerAssumption DEF StartRun, LoopTypeOK, ControllerAssumption
  <2>2. budget' \in 0 .. MaxIterations
    BY <1>1, StoreAssumption DEF StartRun, AtMost, StoreAssumption
  <2>3. LoopTypeOK'
    BY <1>1, <2>1, <2>2, NextReading, ControllerAssumption
    DEF StartRun, LoopTypeOK, loopVars, ControllerAssumption
  <2>4. LogTypeOK'
    BY <1>1, NextReading DEF StartRun, LogTypeOK
  <2> QED
    BY <1>1, <2>3, <2>4, StoreTypesKept, GateTypesKept
    DEF StartRun, storeVars
<1>2. CASE Abort
  <2>1. aborts' \in 0 .. MaxRuns
    BY <1>2, ControllerAssumption
    DEF Abort, RunsInv, LoopTypeOK, LogTypeOK, ControllerAssumption
  <2>2. LogTypeOK'
    BY <1>2, <2>1, NextReading DEF Abort, LogTypeOK
  <2> QED
    BY <1>2, <2>2, StoreTypesKept, GateTypesKept, ForgottenTypes
    DEF Abort, ForgetLocals
<1>3. CASE GenerateCases
  BY <1>3, WriterTypes, DiagnosticTypes, GateTypesKept, NextReading
  DEF GenerateCases, LoopTypeOK, LogTypeOK, runVars, loopVars
<1>4. CASE RenderCases
  BY <1>4, WriterTypes, GateTypesKept, NextReading
  DEF RenderCases, LoopTypeOK, LogTypeOK, runVars, loopVars
<1>5. CASE RecordArtifact
  BY <1>5, WriterTypes, GateTypesKept, NextReading
  DEF RecordArtifact, LoopTypeOK, LogTypeOK, runVars, loopVars, GatePhases
<1>6. CASE GenerateNothing
  BY <1>6, StoreTypesKept, DiagnosticTypes, GateTypesKept, NextReading
  DEF GenerateNothing, LoopTypeOK, LogTypeOK, runVars, loopVars, storeVars,
      GatePhases
<1>7. CASE GenerateLegacy
  BY <1>7, WriterTypes, GateTypesKept, NextReading
  DEF GenerateLegacy, LoopTypeOK, LogTypeOK, runVars, loopVars
<1>7a. CASE DiagnoseLegacy
  BY <1>7a, StoreTypesKept, DiagnosticTypes, GateTypesKept, NextReading
  DEF DiagnoseLegacy, LoopTypeOK, LogTypeOK, runVars, loopVars, storeVars,
      GatePhases
<1>8. CASE GenerationFails
  <2>1. aborts' \in 0 .. MaxRuns
    BY <1>8, ControllerAssumption
    DEF GenerationFails, RunsInv, LoopTypeOK, LogTypeOK, ControllerAssumption
  <2>2. LogTypeOK'
    BY <1>8, <2>1, NextReading, DiagnosticTypes
    DEF GenerationFails, LogTypeOK
  <2> QED
    BY <1>8, <2>2, StoreTypesKept, GateTypesKept, ForgottenTypes
    DEF GenerationFails, ForgetLocals
<1>9. CASE LeaveGates
  <2>1. existing' \subseteq TestIds
    BY <1>9, IdTypes DEF LeaveGates, AcceptedTestIds, IdsIn
  <2>2. feedback' \in 0 .. MaxRuns
    BY <1>9 DEF LeaveGates, FeedbackSource, LogTypeOK, LoopTypeOK
  <2> QED
    BY <1>9, <2>1, <2>2, StoreTypesKept, GateTypesKept, NextReading
    DEF LeaveGates, LoopTypeOK, LogTypeOK, runVars, storeVars
<1>10. CASE RerunAccepted
  <2>1. passed' \in BOOLEAN
    BY <1>10 DEF RerunAccepted
  <2> QED
    BY <1>10, <2>1, StoreTypesKept, GateTypesKept, NextReading
    DEF RerunAccepted, LoopTypeOK, LogTypeOK, runVars, storeVars
<1>11. CASE MeasureCoverage
  <2>1. gapsFrom' \in 0 .. MaxIterations
    BY <1>11, StoreAssumption
    DEF MeasureCoverage, LoopTypeOK, Iterations, StoreAssumption
  <2>2. history' \in Seq([pass : BOOLEAN, cov : Reading, measured : BOOLEAN])
    BY <1>11 DEF MeasureCoverage, LoopTypeOK, LogTypeOK
  <2> QED
    BY <1>11, <2>1, <2>2, StoreTypesKept, GateTypesKept, NextReading
    DEF MeasureCoverage, LoopTypeOK, LogTypeOK, runVars, storeVars
<1>12. CASE NoMeasurement
  <2>1. history' \in Seq([pass : BOOLEAN, cov : Reading, measured : BOOLEAN])
    BY <1>12, NextReading DEF NoMeasurement, LoopTypeOK, LogTypeOK
  <2> QED
    BY <1>12, <2>1, StoreTypesKept, GateTypesKept, NextReading
    DEF NoMeasurement, LoopTypeOK, LogTypeOK, runVars, storeVars
<1>13. ASSUME LeavesDecide, NextIteration, prevCoverage' \in Reading
       PROVE  TypeOK'
  <2>1. iteration' \in Iterations
    BY <1>13, StoreAssumption
    DEF NextIteration, LoopTypeOK, Iterations, StoreAssumption
  <2> QED
    BY <1>13, <2>1, StoreTypesKept, GateTypesKept, NextReading
    DEF LeavesDecide, NextIteration, LoopTypeOK, LogTypeOK
<1>14. ASSUME LeavesDecide, Return
       PROVE  TypeOK'
  BY <1>14, StoreTypesKept, GateTypesKept, NextReading, ForgottenTypes
  DEF LeavesDecide, Return, ForgetLocals, LogTypeOK
<1>15. CASE ContinueAfterFailure
  BY <1>15, <1>13, <1>14 DEF ContinueAfterFailure, RangeExhausted, LoopTypeOK
<1>16. CASE StopWithoutCoverage
  BY <1>16, <1>14 DEF StopWithoutCoverage
<1>17. CASE StopOnCoverage
  BY <1>17, <1>14 DEF StopOnCoverage
<1>18. CASE GoOn
  BY <1>18, <1>13, <1>14 DEF GoOn, RangeExhausted, LoopTypeOK
<1> QED
  BY <1>1, <1>2, <1>3, <1>4, <1>5, <1>6, <1>7, <1>8, <1>9, <1>10, <1>11,
     <1>12, <1>15, <1>16, <1>17, <1>18, <1>7a DEF Next, Step

\* A step of the gates or of the loop leaves the program well typed.
LEMMA NextTypes ==
  ASSUME TypeOK, RunsInv, WriterInv, Next
  PROVE  TypeOK'
  BY GateTypes, LoopTypes

----------------------------------------------------------------------------
(* The steps that touch neither suites nor renderings.                     *)

FilesKept == UNCHANGED <<written, suite, drawn, rendered, link, legacy>>

\* A pass over the loop body begins or ends.
PassEnds ==
  /\ pc' \in {"idle", "generate"}
  /\ FilesKept
  /\ flagged' = flagged \/ flagged' = {}

\* From the gates to the decision at the end of the loop body.
PassAdvances ==
  /\ AfterGates \/ GatesDone
  /\ AfterGates'
  /\ UNCHANGED <<storeVars, gateVars>>

LEMMA StepKinds ==
  ASSUME Next
  PROVE  \/ PassEnds \/ PassAdvances
         \/ GenerateCases \/ RenderCases \/ RecordArtifact
         \/ GenerateNothing \/ GenerateLegacy \/ DiagnoseLegacy \/ Gate
<1>1. CASE StartRun
  BY <1>1 DEF StartRun, PassEnds, FilesKept, storeVars, gateVars
<1>2. CASE Abort
  BY <1>2 DEF Abort, PassEnds, FilesKept, ForgetLocals, GatesForgotten
<1>3. CASE GenerationFails
  BY <1>3 DEF GenerationFails, PassEnds, FilesKept, ForgetLocals,
              GatesForgotten
<1>4. CASE LeaveGates
  BY <1>4 DEF LeaveGates, PassAdvances, AfterGates
<1>5. CASE RerunAccepted
  BY <1>5 DEF RerunAccepted, PassAdvances, AfterGates
<1>6. CASE MeasureCoverage
  BY <1>6 DEF MeasureCoverage, PassAdvances, AfterGates
<1>7. CASE NoMeasurement
  BY <1>7 DEF NoMeasurement, PassAdvances, AfterGates
<1>8. ASSUME LeavesDecide, NextIteration
      PROVE  PassEnds
  BY <1>8 DEF LeavesDecide, NextIteration, PassEnds, FilesKept, GatesForgotten
<1>9. ASSUME LeavesDecide, Return
      PROVE  PassEnds
  BY <1>9 DEF LeavesDecide, Return, PassEnds, FilesKept, ForgetLocals,
              GatesForgotten
<1>10. CASE ContinueAfterFailure
  BY <1>8, <1>9, <1>10 DEF ContinueAfterFailure, RangeExhausted
<1>11. CASE StopWithoutCoverage \/ StopOnCoverage
  BY <1>9, <1>11 DEF StopWithoutCoverage, StopOnCoverage
<1>12. CASE GoOn
  BY <1>8, <1>9, <1>12 DEF GoOn, RangeExhausted
<1> QED
  BY <1>1, <1>2, <1>3, <1>4, <1>5, <1>6, <1>7, <1>10, <1>11, <1>12
  DEF Next, Step

----------------------------------------------------------------------------
(* Runs.                                                                   *)

LEMMA RunsKept ==
  ASSUME TypeOK, RunsInv, Next
  PROVE  RunsInv'
<1>1. run \in Nat /\ aborts \in Nat
  BY ControllerAssumption DEF TypeOK, ControllerAssumption
<1>2. CASE StartRun
  BY <1>1, <1>2 DEF StartRun, RunsInv
<1>3. CASE Abort
  BY <1>1, <1>3 DEF Abort, RunsInv
<1>4. CASE GenerationFails
  BY <1>1, <1>4 DEF GenerationFails, RunsInv
<1>5. CASE Gate
  BY <1>5 DEF Gate, RunsInv, runVars, GateStep, Lint, GoldRun, DummyRun,
              KeepSuite, FilterSuite, RewriteRendering
<1>6. CASE GenerateCases \/ RenderCases \/ RecordArtifact
             \/ GenerateNothing \/ GenerateLegacy \/ DiagnoseLegacy
  BY <1>6 DEF GenerateCases, RenderCases, RecordArtifact, GenerateNothing,
              GenerateLegacy, DiagnoseLegacy, RunsInv, runVars
<1>7. CASE LeaveGates \/ RerunAccepted \/ MeasureCoverage \/ NoMeasurement
  BY <1>7 DEF LeaveGates, RerunAccepted, MeasureCoverage, NoMeasurement,
              RunsInv, runVars, GatesDone
<1>8. CASE ContinueAfterFailure \/ StopWithoutCoverage \/ StopOnCoverage
             \/ GoOn
  BY <1>8 DEF ContinueAfterFailure, StopWithoutCoverage, StopOnCoverage,
              GoOn, LeavesDecide, RunsInv
<1> QED
  BY <1>2, <1>3, <1>4, <1>5, <1>6, <1>7, <1>8 DEF Next, Step

----------------------------------------------------------------------------
(* The writer.                                                             *)

\* The file the writer takes is new, and in range.
LEMMA NewSlot ==
  ASSUME NEW i \in Iterations, NEW n \in Copies, NEW files,
         FirstFree(files, i, n)
  PROVE  <<i, n>> \in Slots \ files
  BY ConstantTypes DEF FirstFree

LEMMA WriterKept ==
  ASSUME TypeOK, WriterInv, LinkInv, Next
  PROVE  WriterInv'
<1>1. StoreTypeOK /\ iteration \in Iterations
  BY DEF TypeOK
<1>2. CASE PassEnds \/ PassAdvances
  BY <1>2 DEF PassEnds, PassAdvances, AfterGates, WriterInv
<1>3. CASE GenerateCases
  <2>1. PICK n \in Copies :
          /\ FirstFree(written, iteration, n)
          /\ written' = written \cup {<<iteration, n>>}
          /\ open' = <<iteration, n>>
          /\ link' = link
    BY <1>3 DEF GenerateCases, WriteSuite
  <2>2. link[<<iteration, n>>] = NoFile
    BY <1>1, <2>1, NewSlot DEF LinkInv
  <2> QED
    BY <1>3, <2>1, <2>2 DEF GenerateCases, WriterInv
<1>4. CASE RenderCases
  <2>1. PICK n \in Copies :
          /\ FirstFree(drawn, iteration, n)
          /\ drawn' = drawn \cup {<<iteration, n>>}
          /\ rendered' = [rendered EXCEPT ![<<iteration, n>>] = suite[open]]
          /\ page' = <<iteration, n>>
          /\ UNCHANGED <<written, suite, link, legacy, open>>
    BY <1>4 DEF RenderCases, WriteRendering
  <2>2. <<iteration, n>> \in Slots \ drawn
    BY <1>1, <2>1, NewSlot
  <2>3. rendered'[page'] = suite'[open']
    BY <1>1, <2>1, <2>2 DEF StoreTypeOK
  <2>4. \A s \in Slots : link'[s] # page'
    BY <2>1, <2>2, StoreAssumption DEF LinkInv, StoreAssumption
  <2>5. open' \in written' /\ link'[open'] = NoFile
    BY <1>4, <2>1 DEF RenderCases, WriterInv
  <2> QED
    BY <1>4, <2>1, <2>3, <2>4, <2>5 DEF RenderCases, WriterInv
<1>5. CASE RecordArtifact \/ GenerateNothing \/ GenerateLegacy \/ DiagnoseLegacy
  BY <1>5 DEF RecordArtifact, GenerateNothing, GenerateLegacy,
              DiagnoseLegacy, WriterInv
<1>6. CASE Gate
  <2>1. CASE FilterSuite
    BY <1>1, <2>1 DEF FilterSuite, WriterInv, LinkInv
  <2>2. CASE Lint \/ GoldRun \/ DummyRun \/ KeepSuite \/ RewriteRendering
    BY <2>2 DEF Lint, GoldRun, DummyRun, KeepSuite, RewriteRendering, WriterInv
  <2> QED
    BY <1>6, <2>1, <2>2 DEF Gate, GateStep
<1> QED
  BY <1>2, <1>3, <1>4, <1>5, <1>6, StepKinds

----------------------------------------------------------------------------
(* Suites and their renderings.                                            *)

\* Suites that shrink, and renderings that stay, keep the records true.
LEMMA ShrinkingSuites ==
  ASSUME StoreTypeOK, LinkInv,
         UNCHANGED <<written, drawn, rendered, link>>,
         \A s \in Slots : suite'[s] \subseteq suite[s]
  PROVE  LinkInv'
  BY DEF LinkInv, StoreTypeOK

LEMMA LinksKept ==
  ASSUME TypeOK, WriterInv, LinkInv, Next
  PROVE  LinkInv'
<1>1. StoreTypeOK /\ iteration \in Iterations
  BY DEF TypeOK
<1>2. CASE \/ PassEnds \/ PassAdvances \/ GenerateNothing \/ GenerateLegacy \/ DiagnoseLegacy
           \/ Gate /\ (Lint \/ GoldRun \/ DummyRun \/ KeepSuite)
  <2>1. UNCHANGED <<written, suite, drawn, rendered, link>>
    BY <1>2 DEF PassEnds, PassAdvances, FilesKept, storeVars, GenerateNothing,
                GenerateLegacy, DiagnoseLegacy, WriteLegacyTests, Lint, GoldRun, DummyRun,
                KeepSuite
  <2> QED
    BY <2>1 DEF LinkInv
<1>3. CASE GenerateCases
  <2>1. PICK C \in SUBSET Cases, n \in Copies :
          /\ FirstFree(written, iteration, n)
          /\ written' = written \cup {<<iteration, n>>}
          /\ suite' = [suite EXCEPT ![<<iteration, n>>] = C]
          /\ UNCHANGED <<drawn, rendered, link>>
    BY <1>3 DEF GenerateCases, WriteSuite
  <2>2. <<iteration, n>> \in Slots \ written
    BY <1>1, <2>1, NewSlot
  <2>3. \A s \in Slots : s # <<iteration, n>> => suite'[s] = suite[s]
    BY <1>1, <2>1 DEF StoreTypeOK
  <2> QED
    BY <2>1, <2>2, <2>3 DEF LinkInv
<1>4. CASE RenderCases
  <2>1. PICK n \in Copies :
          /\ FirstFree(drawn, iteration, n)
          /\ drawn' = drawn \cup {<<iteration, n>>}
          /\ rendered' = [rendered EXCEPT ![<<iteration, n>>] = suite[open]]
          /\ UNCHANGED <<written, suite, link>>
    BY <1>4 DEF RenderCases, WriteRendering
  <2>2. <<iteration, n>> \in Slots \ drawn
    BY <1>1, <2>1, NewSlot
  <2>3. \A p \in drawn : rendered'[p] = rendered[p]
    BY <1>1, <2>1, <2>2 DEF StoreTypeOK
  <2> QED
    BY <2>1, <2>3 DEF LinkInv
<1>5. CASE RecordArtifact
  <2>1. /\ link' = [link EXCEPT ![open] = page]
        /\ UNCHANGED <<written, suite, drawn, rendered>>
    BY <1>5 DEF RecordArtifact, WriteArtifactRecord
  <2>2. /\ open \in written /\ open \in Slots
        /\ page \in drawn
        /\ rendered[page] = suite[open]
        /\ \A s \in Slots : link[s] # page
    BY <1>1, <1>5 DEF RecordArtifact, WriterInv, StoreTypeOK
  <2>3. link'[open] = page /\ \A s \in Slots : s # open => link'[s] = link[s]
    BY <1>1, <2>1, <2>2 DEF StoreTypeOK
  <2> QED
    BY <2>1, <2>2, <2>3 DEF LinkInv
<1>6. CASE FilterSuite
  <2>1. PICK s \in Slots : suite' = [suite EXCEPT ![s] = AcceptedCases(s)]
    BY <1>6 DEF FilterSuite
  <2>2. \A t \in Slots : suite'[t] \subseteq suite[t]
    BY <1>1, <2>1 DEF AcceptedCases, StoreTypeOK
  <2> QED
    BY <1>1, <1>6, <2>2, ShrinkingSuites DEF FilterSuite
<1>7. CASE RewriteRendering
  <2>1. /\ drawn' = drawn \cup {link[open]}
        /\ rendered' = [rendered EXCEPT ![link[open]] = suite[open]]
        /\ UNCHANGED <<written, suite, link>>
    BY <1>7 DEF RewriteRendering
  <2>2. open \in Slots /\ link[open] \in Slots
    BY <1>1, <1>7 DEF RewriteRendering, WriterInv, StoreTypeOK
  <2>3. \A s \in Slots :
          link[s] # NoFile /\ s # open => rendered'[link[s]] = rendered[link[s]]
    BY <1>1, <2>1, <2>2 DEF LinkInv, StoreTypeOK
  <2>4. rendered'[link[open]] = suite[open]
    BY <1>1, <2>1, <2>2 DEF StoreTypeOK
  <2> QED
    BY <2>1, <2>2, <2>3, <2>4 DEF LinkInv
<1> QED
  BY <1>2, <1>3, <1>4, <1>5, <1>6, <1>7, StepKinds DEF Gate, GateStep

----------------------------------------------------------------------------
(* The linter.                                                             *)

\* Filtering never brings an instance back.
LEMMA FewerInstances ==
  ASSUME written' = written, \A s \in Slots : suite'[s] \subseteq suite[s]
  PROVE  Instances' \subseteq Instances
  BY DEF Instances

LEMMA FilterShrinks ==
  ASSUME StoreTypeOK, FilterSuite
  PROVE  /\ written' = written /\ link' = link
         /\ \A s \in Slots : suite'[s] \subseteq suite[s]
  BY DEF FilterSuite, AcceptedCases, StoreTypeOK

LEMMA LintKept ==
  ASSUME TypeOK, LinkInv, LintInv, Next
  PROVE  LintInv'
<1>1. StoreTypeOK
  BY DEF TypeOK
<1>2. CASE PassEnds
  BY <1>2 DEF PassEnds, LintInv, Running, Judged
<1>3. CASE PassAdvances
  BY <1>3 DEF PassAdvances, AfterGates, GatesDone, LintInv, Running, Judged,
              Instances, storeVars, gateVars
<1>4. CASE GenerateCases \/ RenderCases \/ RecordArtifact
             \/ GenerateNothing \/ GenerateLegacy \/ DiagnoseLegacy
  <2>1. pc' \in {"render", "record", "diagnose", "lint"} /\ flagged' = flagged
    BY <1>4 DEF GenerateCases, RenderCases, RecordArtifact, GenerateNothing,
                GenerateLegacy, DiagnoseLegacy, gateVars
  <2> QED
    BY <2>1 DEF LintInv, Running, Judged
<1>5. CASE Lint
  <2>1. flagged' = {IdOf[c] : c \in
           (UNION {rendered[s] : s \in drawn} \cup legacy) \cap HighLint}
    BY <1>5 DEF Lint
  <2>2. Instances' = Instances /\ link' = link
    BY <1>5 DEF Lint, storeVars, Instances
  <2>3. ASSUME NEW x \in Instances, x[2] \in HighLint, link[x[1]] # NoFile
        PROVE  IdOf[x[2]] \in flagged'
    <3>1. x[1] \in Slots /\ x[2] \in suite[x[1]]
      BY DEF Instances
    <3>2. link[x[1]] \in drawn /\ x[2] \in rendered[link[x[1]]]
      BY <2>3, <3>1 DEF LinkInv
    <3> QED
      BY <2>1, <2>3, <3>2
  <2>4. \A id \in flagged' : \E c \in HighLint : IdOf[c] = id
    BY <2>1
  <2> QED
    BY <2>2, <2>3, <2>4 DEF LintInv
<1>6. CASE GoldRun \/ DummyRun \/ KeepSuite \/ RewriteRendering
  <2>1. /\ Instances' = Instances
        /\ link' = link /\ flagged' = flagged
        /\ Running \/ Judged
    BY <1>6 DEF GoldRun, DummyRun, KeepSuite, RewriteRendering, storeVars,
                gateVars, Instances, Running, Judged
  <2> QED
    BY <2>1 DEF LintInv
<1>7. CASE FilterSuite
  <2>1. Instances' \subseteq Instances /\ link' = link
    BY <1>1, <1>7, FilterShrinks, FewerInstances
  <2>2. flagged' = flagged /\ Judged
    BY <1>7 DEF FilterSuite, Judged
  <2> QED
    BY <2>1, <2>2 DEF LintInv
<1> QED
  BY <1>2, <1>3, <1>4, <1>5, <1>6, <1>7, StepKinds DEF Gate, GateStep

----------------------------------------------------------------------------
(* The determinism runs.                                                   *)

LEMMA OneMoreRun ==
  ASSUME NEW n \in Nat, NEW k \in Nat
  PROVE  n * k + k = (n + 1) * k /\ 0 * k = 0 /\ n * 1 = n
  OBVIOUS

LEMMA GoldKept ==
  ASSUME TypeOK, GoldInv, Next
  PROVE  GoldInv'
<1>1. StoreTypeOK /\ goldRuns \in Nat /\ goldSeen \in [TestIds -> Nat]
  BY GateAssumption DEF TypeOK, GateTypeOK, GateAssumption
<1>2. DeterminismRuns \in Nat \ {0}
  BY GateAssumption DEF GateAssumption
<1>3. CASE PassEnds \/ PassAdvances
  BY <1>3 DEF PassEnds, PassAdvances, AfterGates, GoldInv, Running
<1>4. CASE GenerateCases \/ RenderCases \/ RecordArtifact
             \/ GenerateNothing \/ GenerateLegacy \/ DiagnoseLegacy
  <2>1. pc' \in {"render", "record", "diagnose", "lint"}
    BY <1>4 DEF GenerateCases, RenderCases, RecordArtifact, GenerateNothing,
                GenerateLegacy, DiagnoseLegacy
  <2> QED
    BY <2>1 DEF GoldInv, Running
<1>5. CASE Lint
  <2>1. UnderTest' = UnderTest
    BY <1>5 DEF Lint, storeVars, UnderTest, Instances
  <2>2. \A id : Cardinality(WithId(UnderTest, id))' =
                  Cardinality(WithId(UnderTest, id))
    BY <2>1 DEF WithId
  <2>3. pc' = "gold" /\ goldRuns' = 0 /\ goldFailed' = {}
        /\ goldSeen' = [id \in TestIds |-> 0]
    BY <1>5 DEF Lint
  <2>4. ASSUME NEW id \in TestIds
        PROVE  goldSeen'[id] =
                 goldRuns' * Cardinality(WithId(UnderTest, id))'
    BY <1>1, <2>2, <2>3, FiniteTests, OneMoreRun
  <2> QED
    BY <1>2, <2>3, <2>4 DEF GoldInv, Running
<1>6. CASE GoldRun
  <2>1. UnderTest' = UnderTest
    BY <1>6 DEF GoldRun, storeVars, UnderTest, Instances
  <2>2. \A id : Cardinality(WithId(UnderTest, id))' =
                  Cardinality(WithId(UnderTest, id))
    BY <2>1 DEF WithId
  <2>3. ASSUME NEW id \in TestIds
        PROVE  goldSeen'[id] =
                 goldRuns' * Cardinality(WithId(UnderTest, id))'
    <3>1. goldSeen[id] = goldRuns * Cardinality(WithId(UnderTest, id))
      BY <1>6 DEF GoldRun, GoldInv, Running
    <3>2. /\ goldSeen'[id] = goldSeen[id] + Cardinality(WithId(UnderTest, id))
          /\ goldRuns' = goldRuns + 1
      BY <1>6 DEF GoldRun
    <3> QED
      BY <1>1, <2>2, <3>1, <3>2, FiniteTests, OneMoreRun
  <2>4. ASSUME NEW id \in goldFailed', id \in TestIds
        PROVE  \E x \in UnderTest' : IdOf[x[2]] = id /\ x[2] \notin Stable
    <3>1. PICK F \in SUBSET {x \in UnderTest : x[2] \notin Stable} :
            goldFailed' = goldFailed \cup IdsIn(F)
      BY <1>6 DEF GoldRun
    <3>2. CASE id \in goldFailed
      BY <1>6, <2>1, <2>4, <3>2 DEF GoldRun, GoldInv, Running
    <3>3. CASE id \in IdsIn(F)
      BY <2>1, <3>1, <3>3 DEF IdsIn
    <3> QED
      BY <3>1, <3>2, <3>3
  <2>5. /\ pc' = "gold" => goldRuns' < DeterminismRuns
        /\ pc' = "dummy" => goldRuns' = DeterminismRuns
    BY <1>1, <1>2, <1>6 DEF GoldRun
  <2> QED
    BY <2>3, <2>4, <2>5 DEF GoldInv
<1>7. CASE DummyRun \/ KeepSuite \/ FilterSuite \/ RewriteRendering
  <2>1. pc' \in {"filter", "rerender"}
    BY <1>7 DEF DummyRun, KeepSuite, FilterSuite, RewriteRendering
  <2> QED
    BY <2>1 DEF GoldInv, Running
<1> QED
  BY <1>3, <1>4, <1>5, <1>6, <1>7, StepKinds DEF Gate, GateStep

----------------------------------------------------------------------------
(* The judgement.                                                          *)

\* A name seen exactly once per run has a single instance.
LEMMA SeenOnceIsAlone ==
  ASSUME TypeOK, GoldInv, pc = "dummy",
         NEW x \in UnderTest, Deterministic(IdOf[x[2]])
  PROVE  Alone(x, UnderTest) /\ goldSeen[IdOf[x[2]]] = DeterminismRuns
<1> DEFINE id == IdOf[x[2]]
           K  == Cardinality(WithId(UnderTest, id))
<1>1. StoreTypeOK /\ id \in TestIds
  BY IdTypes DEF TypeOK
<1>2. IsFiniteSet(WithId(UnderTest, id)) /\ K \in Nat
  BY <1>1, FiniteTests
<1>3. goldRuns = DeterminismRuns /\ goldRuns \in Nat \ {0}
  BY GateAssumption DEF GoldInv, GateAssumption
<1>4. goldSeen[id] = goldRuns * K /\ goldSeen[id] = goldRuns
  BY <1>1 DEF GoldInv, Running, Deterministic
<1>5. K = 1
  <2>1. \A n \in Nat \ {0}, k \in Nat : n * k = n => k = 1
    OBVIOUS
  <2> QED
    BY <1>2, <1>3, <1>4, <2>1
<1>6. PICK y : WithId(UnderTest, id) = {y}
  BY <1>2, <1>5, FS_Singleton
<1>7. \A z \in UnderTest : IdOf[z[2]] = id => z = y
  BY <1>6 DEF WithId
<1> QED
  BY <1>3, <1>4, <1>7 DEF Alone

\* What is true of one name's instances when some are gone.
LEMMA AloneInFewer ==
  ASSUME NEW P, NEW Q \in SUBSET P, NEW x \in Q, Alone(x, P)
  PROVE  Alone(x, Q)
  BY DEF Alone

LEMMA JudgementHolds ==
  ASSUME TypeOK, GoldInv, DummyRun
  PROVE  JudgedInv'
<1>1. StoreTypeOK /\ goldSeen \in [TestIds -> Nat]
  BY DEF TypeOK, GateTypeOK
<1>2. /\ Instances' = Instances /\ goldFailed' = goldFailed
      /\ flagged' = flagged /\ goldSeen' = goldSeen
      /\ rejected' = RejectionReasons(fooled')
      /\ fooled' = IdsIn({x \in UnderTest : x[2] \in FoolsSome})
      /\ todo' = written /\ pc' = "filter" /\ pc = "dummy"
  BY DEF DummyRun, storeVars, Instances
<1>3. ASSUME NEW x \in Instances, IdOf[x[2]] \notin rejected'
      PROVE  /\ Alone(x, Instances)
             /\ x[2] \notin FoolsSome
             /\ IdOf[x[2]] \notin goldFailed
             /\ IdOf[x[2]] \notin flagged
             /\ goldSeen[IdOf[x[2]]] = DeterminismRuns
  <2> DEFINE id == IdOf[x[2]]
  <2>1. UnderTest = Instances /\ x \in UnderTest
    BY DEF UnderTest, Instances
  <2>2. id \in TestIds
    BY <1>1, IdTypes
  <2>3. id \notin flagged /\ id \notin fooled'
    BY <1>2, <1>3 DEF RejectionReasons
  <2>4. x[2] \notin FoolsSome
    BY <1>2, <2>1, <2>3 DEF IdsIn
  <2>5. goldSeen[id] > 0
    <3>1. x \in WithId(UnderTest, id)
      BY <2>1 DEF WithId
    <3>2. /\ IsFiniteSet(WithId(UnderTest, id))
          /\ Cardinality(WithId(UnderTest, id)) \in Nat
      BY <1>1, FiniteTests
    <3>3. Cardinality(WithId(UnderTest, id)) # 0
      BY <3>1, <3>2, FS_EmptySet
    <3>4. goldRuns = DeterminismRuns /\ goldRuns \in Nat \ {0}
      BY <1>2, GateAssumption DEF GoldInv, GateAssumption
    <3>5. goldSeen[id] = goldRuns * Cardinality(WithId(UnderTest, id))
      BY <1>2, <2>2 DEF GoldInv, Running
    <3>6. \A n \in Nat \ {0}, k \in Nat \ {0} : n * k > 0
      OBVIOUS
    <3> QED
      BY <3>2, <3>3, <3>4, <3>5, <3>6
  <2>6. Deterministic(id)
    BY <1>2, <1>3, <2>2, <2>5 DEF RejectionReasons
  <2>7. Alone(x, UnderTest) /\ goldSeen[id] = DeterminismRuns
    BY <1>2, <2>1, <2>6, SeenOnceIsAlone
  <2> QED
    BY <2>1, <2>3, <2>4, <2>6, <2>7 DEF Deterministic
<1>4. \A x \in Instances : x[1] \in written
  BY DEF Instances
<1> QED
  BY <1>2, <1>3, <1>4 DEF JudgedInv, AfterGates, Alone

\* While files are filtered the verdict stands: what is left only shrinks,
\* and a file leaves todo without its rejected cases.
LEMMA VerdictStands ==
  ASSUME JudgedInv, Judged, ~AfterGates',
         NEW S, todo' = todo \ S,
         UNCHANGED <<flagged, goldSeen, goldFailed, rejected>>,
         Instances' \subseteq Instances,
         \A x \in Instances' : x[1] \in S => IdOf[x[2]] \notin rejected
  PROVE  JudgedInv'
<1>1. ASSUME NEW x \in Instances'
      PROVE  /\ IdOf[x[2]] \notin rejected' =>
                  /\ Alone(x, Instances')
                  /\ x[2] \notin FoolsSome
                  /\ IdOf[x[2]] \notin goldFailed'
                  /\ IdOf[x[2]] \notin flagged'
                  /\ goldSeen'[IdOf[x[2]]] = DeterminismRuns
             /\ IdOf[x[2]] \in rejected' => x[1] \in todo'
  BY <1>1, AloneInFewer DEF JudgedInv
<1> QED
  BY <1>1 DEF JudgedInv, Alone

LEMMA JudgedKept ==
  ASSUME TypeOK, GoldInv, JudgedInv, Next
  PROVE  JudgedInv'
<1>1. StoreTypeOK
  BY DEF TypeOK
<1>2. CASE PassEnds
  BY <1>2 DEF PassEnds, JudgedInv, Judged, AfterGates
<1>3. CASE PassAdvances
  BY <1>3 DEF PassAdvances, AfterGates, GatesDone, JudgedInv, Judged,
              Instances, storeVars, gateVars, Alone
<1>4. CASE GenerateCases \/ RenderCases \/ RecordArtifact
             \/ GenerateNothing \/ GenerateLegacy \/ DiagnoseLegacy \/ Lint \/ GoldRun
  <2>1. pc' \in {"render", "record", "diagnose", "lint", "gold", "dummy"}
    BY <1>4 DEF GenerateCases, RenderCases, RecordArtifact, GenerateNothing,
                GenerateLegacy, DiagnoseLegacy, Lint, GoldRun
  <2> QED
    BY <2>1 DEF JudgedInv, Judged, AfterGates
<1>5. CASE DummyRun
  BY <1>5, JudgementHolds
<1>6. CASE KeepSuite
  <2>1. PICK s \in Slots : AcceptedCases(s) = suite[s] /\ todo' = todo \ {s}
    BY <1>6 DEF KeepSuite
  <2>2. Instances' = Instances
    BY <1>6 DEF KeepSuite, storeVars, Instances
  <2>3. \A x \in Instances' : x[1] \in {s} => IdOf[x[2]] \notin rejected
    BY <2>1, <2>2 DEF Instances, AcceptedCases
  <2> QED
    BY <1>6, <2>1, <2>2, <2>3, VerdictStands
    DEF KeepSuite, Judged, AfterGates
<1>7. CASE FilterSuite
  <2>1. PICK s \in Slots : /\ suite' = [suite EXCEPT ![s] = AcceptedCases(s)]
                           /\ todo' = todo \ {s}
                           /\ pc' \in {"filter", "rerender"}
    BY <1>7 DEF FilterSuite
  <2>2. Instances' \subseteq Instances
    BY <1>1, <1>7, FilterShrinks, FewerInstances
  <2>3. \A x \in Instances' : x[1] \in {s} => IdOf[x[2]] \notin rejected
    BY <1>1, <2>1 DEF Instances, AcceptedCases, StoreTypeOK
  <2> QED
    BY <1>7, <2>1, <2>2, <2>3, VerdictStands
    DEF FilterSuite, Judged, AfterGates
<1>8. CASE RewriteRendering
  <2>1. Instances' = Instances
    BY <1>8 DEF RewriteRendering, Instances
  <2>2. Judged /\ pc' = "filter" /\ UNCHANGED gateVars
    BY <1>8 DEF RewriteRendering, Judged
  <2> QED
    BY <2>1, <2>2 DEF JudgedInv, AfterGates, Alone, gateVars
<1> QED
  BY <1>2, <1>3, <1>4, <1>5, <1>6, <1>7, <1>8, StepKinds DEF Gate, GateStep

----------------------------------------------------------------------------
(* The inductive invariant.                                                *)

LEMMA InitInvariant == Init => IInv
<1> SUFFICES ASSUME Init PROVE IInv
  OBVIOUS
<1>1. TypeOK
  BY InitTypes
<1>2. RunsInv
  BY DEF Init, RunsInv
<1>3. WriterInv /\ LintInv /\ GoldInv /\ JudgedInv
  BY DEF Init, GatesClear, WriterInv, LintInv, GoldInv, JudgedInv, Running,
         Judged, AfterGates
<1>4. LinkInv
  BY DEF Init, StoreInit, LinkInv
<1> QED
  BY <1>1, <1>2, <1>3, <1>4 DEF IInv

LEMMA StutterInvariant == IInv /\ UNCHANGED vars => IInv'
<1> SUFFICES ASSUME IInv, UNCHANGED vars PROVE IInv'
  OBVIOUS
<1>1. /\ UNCHANGED <<written, suite, drawn, rendered, link, legacy, open, page>>
      /\ UNCHANGED <<flagged, goldRuns, goldSeen, goldFailed, fooled,
                     rejected, todo>>
      /\ UNCHANGED <<run, backend, coverageOn, budget>>
      /\ UNCHANGED <<iteration, passed, coverage, prevCoverage, gapsFrom,
                     existing, feedback>>
      /\ UNCHANGED <<pc, diagnostics, outcome, history, aborts>>
  BY DEF vars, storeVars, gateVars, runVars, loopVars
<1>2. TypeOK'
  <2>1. StoreTypeOK' /\ GateTypeOK'
    BY <1>1 DEF IInv, TypeOK, StoreTypeOK, GateTypeOK
  <2> QED
    BY <1>1, <2>1, NextReading DEF IInv, TypeOK, Phases, GatePhases
<1>3. RunsInv' /\ WriterInv' /\ LinkInv'
  BY <1>1 DEF IInv, RunsInv, WriterInv, LinkInv
<1>4. Instances' = Instances /\ UnderTest' = UnderTest
  BY <1>1 DEF Instances, UnderTest
<1>5. Running' = Running /\ Judged' = Judged /\ AfterGates' = AfterGates
  BY <1>1 DEF Running, Judged, AfterGates
<1>6. LintInv'
  BY <1>1, <1>4, <1>5 DEF IInv, LintInv
<1>7. GoldInv'
  <2>1. \A id : WithId(UnderTest, id)' = WithId(UnderTest, id)
    BY <1>4 DEF WithId
  <2> QED
    BY <1>1, <1>4, <1>5, <2>1 DEF IInv, GoldInv
<1>8. JudgedInv'
  BY <1>1, <1>4, <1>5 DEF IInv, JudgedInv, Alone
<1> QED
  BY <1>2, <1>3, <1>6, <1>7, <1>8 DEF IInv

LEMMA NextInvariant == IInv /\ [Next]_vars => IInv'
<1>1. ASSUME IInv, Next
      PROVE  IInv'
  BY <1>1, NextTypes, RunsKept, WriterKept, LinksKept, LintKept, GoldKept,
     JudgedKept DEF IInv
<1> QED
  BY <1>1, StutterInvariant

\* Every reachable state satisfies the inductive invariant, whatever the
\* cases, names, bounds, dummies and coverage values are.
THEOREM Invariance == Spec => []IInv
  BY InitInvariant, NextInvariant, PTL DEF Spec

\* The store, the gates and the loop hold only values of their types.
THEOREM TypeCorrect == Spec => []TypeOK
<1>1. IInv => TypeOK
  BY DEF IInv
<1> QED
  BY <1>1, Invariance, PTL

----------------------------------------------------------------------------
(* What the invariant says of the tests that survive the gates.            *)

\* No instance on disk is rejected any more once the gates are done.
LEMMA SurvivorsAreAccepted ==
  ASSUME IInv, AfterGates, NEW x \in Instances
  PROVE  IdOf[x[2]] \notin rejected
  BY DEF IInv, JudgedInv, Judged, AfterGates

\* Whatever files earlier iterations, earlier runs and killed runs left, no
\* two tests that survive the gates have the same name.
THEOREM NamesUnique == Spec => []SurvivorNamesUnique
<1>1. IInv => SurvivorNamesUnique
  BY SurvivorsAreAccepted
  DEF IInv, JudgedInv, Judged, AfterGates, SurvivorNamesUnique
<1> QED
  BY <1>1, Invariance, PTL

\* A surviving test was passed by the gold executable in each determinism
\* run and by no dummy executable.
THEOREM Proven == Spec => []SurvivorsProven
<1>1. IInv => SurvivorsProven
  BY SurvivorsAreAccepted
  DEF IInv, JudgedInv, Judged, AfterGates, SurvivorsProven
<1> QED
  BY <1>1, Invariance, PTL

\* A test with a HIGH lint flag survives only in a suite whose writer was
\* killed before it recorded the rendering.
THEOREM LintEscapes == Spec => []LintEscapesOnlyTornSuites
<1>1. IInv => LintEscapesOnlyTornSuites
  <2> SUFFICES ASSUME IInv, AfterGates, NEW x \in Instances,
                      x[2] \in HighLint, link[x[1]] # NoFile
               PROVE  FALSE
    BY DEF LintEscapesOnlyTornSuites
  <2>1. IdOf[x[2]] \in flagged
    BY DEF IInv, LintInv, Judged, AfterGates
  <2>2. IdOf[x[2]] \notin flagged
    BY SurvivorsAreAccepted DEF IInv, JudgedInv, Judged, AfterGates
  <2> QED
    BY <2>1, <2>2
<1> QED
  BY <1>1, Invariance, PTL

\* At every moment, also after a kill, a recorded rendering tests all the
\* cases of its suite and belongs to no other suite.
THEOREM RenderingsCover == Spec => []RenderingCoversSuite
<1>1. IInv => RenderingCoversSuite
  BY DEF IInv, LinkInv, RenderingCoversSuite
<1> QED
  BY <1>1, Invariance, PTL

----------------------------------------------------------------------------
(* Suites and renderings agree while no run is cut short.                  *)

LEMMA ExactKept ==
  ASSUME IInv, ExactInv, Next
  PROVE  ExactInv'
<1> USE DEF ExactInv
<1>0. /\ aborts \in Nat
      /\ StoreTypeOK /\ WriterInv /\ LinkInv
  BY ControllerAssumption DEF IInv, TypeOK
<1>1. CASE Abort \/ GenerationFails
  <2>1. aborts' = aborts + 1
    BY <1>1 DEF Abort, GenerationFails
  <2> QED
    BY <1>0, <2>1
<1>2. ASSUME pc \notin {"render", "record", "rerender"},
             UNCHANGED <<written, suite, rendered, link, aborts>>
      PROVE  ExactInv'
  BY <1>2
<1>3. CASE GenerateCases
  <2>1. PICK C \in SUBSET Cases \ {{}} : WriteSuite(iteration, C)
    BY <1>3 DEF GenerateCases
  <2>2. PICK n \in Copies :
          /\ written' = written \cup {<<iteration, n>>}
          /\ suite' = [suite EXCEPT ![<<iteration, n>>] = C]
          /\ open' = <<iteration, n>>
          /\ UNCHANGED <<rendered, link>>
    BY <2>1 DEF WriteSuite
  <2>3. pc = "generate" /\ pc' = "render" /\ aborts' = aborts
    BY <1>3 DEF GenerateCases
  <2>4. ASSUME NEW s \in written, s # <<iteration, n>>
        PROVE  suite'[s] = suite[s]
    BY <1>0, <2>2, <2>4 DEF StoreTypeOK
  <2> QED
    BY <2>2, <2>3, <2>4
<1>4. CASE RenderCases
  <2>1. PICK n \in Copies :
          /\ FirstFree(drawn, iteration, n)
          /\ rendered' = [rendered EXCEPT ![<<iteration, n>>] = suite[open]]
          /\ UNCHANGED <<written, suite, link, open>>
    BY <1>4 DEF RenderCases, WriteRendering
  <2>2. pc = "render" /\ pc' = "record" /\ aborts' = aborts
    BY <1>4 DEF RenderCases
  <2>3. ASSUME NEW s \in written, link[s] # NoFile
        PROVE  rendered'[link[s]] = rendered[link[s]]
    <3>1. link[s] \in drawn /\ link[s] \in Slots
      BY <1>0, <2>3 DEF LinkInv, StoreTypeOK
    <3>2. link[s] # <<iteration, n>>
      BY <2>1, <3>1 DEF FirstFree
    <3> QED
      BY <1>0, <2>1, <3>1, <3>2 DEF StoreTypeOK
  <2> QED
    BY <2>1, <2>2, <2>3
<1>5. CASE RecordArtifact
  <2>1. /\ pc = "record" /\ pc' = "lint" /\ aborts' = aborts
        /\ link' = [link EXCEPT ![open] = page]
        /\ UNCHANGED <<written, suite, rendered>>
    BY <1>5 DEF RecordArtifact, WriteArtifactRecord
  <2>2. /\ open \in written /\ page \in drawn /\ page # NoFile
        /\ rendered[page] = suite[open]
    BY <1>0, <2>1, ConstantTypes DEF WriterInv, StoreTypeOK
  <2>3. \A s \in written : link'[s] = IF s = open THEN page ELSE link[s]
    BY <1>0, <2>1 DEF StoreTypeOK
  <2> QED
    BY <2>1, <2>2, <2>3
<1>6. CASE Gate /\ FilterSuite
  <2>1. PICK s \in Slots :
          /\ suite' = [suite EXCEPT ![s] = AcceptedCases(s)]
          /\ open' = IF link[s] = NoFile THEN NoFile ELSE s
          /\ pc' = IF link[s] = NoFile THEN "filter" ELSE "rerender"
          /\ AcceptedCases(s) # suite[s]
    BY <1>6 DEF FilterSuite
  <2>2. pc = "filter" /\ aborts' = aborts /\ UNCHANGED <<written, rendered, link>>
    BY <1>6 DEF FilterSuite, Gate
  <2>3. s \in written
    BY <1>0, <2>1 DEF AcceptedCases, LinkInv
  <2>4. \A t \in written : t # s => suite'[t] = suite[t]
    BY <1>0, <2>1 DEF StoreTypeOK
  <2> QED
    BY <2>1, <2>2, <2>3, <2>4
<1>7. CASE Gate /\ RewriteRendering
  <2>1. /\ pc = "rerender" /\ pc' = "filter" /\ aborts' = aborts
        /\ rendered' = [rendered EXCEPT ![link[open]] = suite[open]]
        /\ UNCHANGED <<written, suite, link>>
    BY <1>7 DEF RewriteRendering, Gate
  <2>2. open \in Slots /\ link[open] \in Slots /\ link[open] # NoFile
    BY <1>0, <2>1 DEF WriterInv, StoreTypeOK
  <2>3. ASSUME NEW s \in written, link[s] # NoFile
        PROVE  rendered'[link[s]] = IF s = open THEN suite[s] ELSE rendered[link[s]]
    <3>1. s \in Slots /\ link[s] \in Slots
      BY <1>0, <2>3 DEF StoreTypeOK
    <3>2. s # open => link[s] # link[open]
      BY <1>0, <2>2, <2>3, <3>1 DEF LinkInv
    <3> QED
      BY <1>0, <2>1, <2>2, <3>1, <3>2 DEF StoreTypeOK
  <2>4. link[open] # NoFile
    BY <2>2
  <2> QED
    BY <2>1, <2>3, <2>4
<1>8. CASE Gate /\ (Lint \/ GoldRun \/ DummyRun \/ KeepSuite)
  BY <1>2, <1>8 DEF Gate, Lint, GoldRun, DummyRun, KeepSuite, storeVars
<1>9. CASE StartRun \/ GenerateNothing \/ GenerateLegacy \/ DiagnoseLegacy
             \/ LeaveGates \/ RerunAccepted \/ MeasureCoverage \/ NoMeasurement
  BY <1>2, <1>9 DEF StartRun, GenerateNothing, GenerateLegacy, WriteLegacyTests,
     DiagnoseLegacy, LeaveGates, GatesDone, RerunAccepted, MeasureCoverage,
     NoMeasurement, storeVars
<1>10. CASE ContinueAfterFailure \/ StopWithoutCoverage \/ StopOnCoverage \/ GoOn
  BY <1>2, <1>10 DEF ContinueAfterFailure, StopWithoutCoverage, StopOnCoverage, GoOn,
     LeavesDecide
<1> QED
  BY <1>1, <1>3, <1>4, <1>5, <1>6, <1>7, <1>8, <1>9, <1>10
  DEF Next, Step, Gate, GateStep

----------------------------------------------------------------------------
(* What a run keeps from one iteration to the next.                        *)

\* The steps of an iteration before its measurement.
Inner ==
  /\ pc \notin {"idle", "decide"} /\ pc' \notin {"idle", "decide"}
  /\ UNCHANGED <<run, backend, budget, iteration, prevCoverage, gapsFrom,
                 outcome, history>>

\* The measurement, or its failure, is entered in the history.
Measured ==
  /\ pc = "coverage" /\ pc' = "decide"
  /\ UNCHANGED <<written, suite, run, backend, budget, iteration, passed,
                 prevCoverage, existing, feedback, diagnostics, outcome>>
  /\ coverage' \in Reading
  /\ \E m \in BOOLEAN :
       /\ gapsFrom' = IF m THEN iteration + 1 ELSE gapsFrom
       /\ history' = Append(history,
                       [pass |-> passed, cov |-> coverage', measured |-> m])

\* The rule that ends a run at its current iteration.
Stops ==
  passed /\ (coverage = NoCoverage \/ TargetReached \/ Stagnant)

\* The next iteration, with a new baseline if the tests passed.
GoesOn ==
  /\ pc = "decide" /\ pc' = "generate"
  /\ ~ Stops /\ iteration + 1 < budget
  /\ iteration' = iteration + 1
  /\ prevCoverage' = IF passed THEN coverage ELSE prevCoverage
  /\ UNCHANGED <<written, suite, run, backend, budget, gapsFrom, existing, feedback,
                 diagnostics, outcome, history>>

Returns ==
  /\ pc = "decide" /\ pc' = "idle" /\ outcome' = "returned"
  /\ Stops \/ iteration + 1 = budget
  /\ iteration' = 0 /\ gapsFrom' = 0 /\ prevCoverage' = NoCoverage
  /\ UNCHANGED <<budget, history>>

Breaks ==
  /\ pc # "idle" /\ pc' = "idle" /\ outcome' = "aborted"
  /\ iteration' = 0 /\ gapsFrom' = 0 /\ prevCoverage' = NoCoverage

LEMMA LoopKinds ==
  ASSUME TypeOK, Next
  PROVE  StartRun \/ Inner \/ Measured \/ GoesOn \/ Returns \/ Breaks
<1> USE DEF runVars, loopVars
<1>0. passed \in BOOLEAN
  BY DEF TypeOK
<1>1. CASE Abort \/ GenerationFails
  BY <1>1 DEF Abort, GenerationFails, ForgetLocals, Breaks
<1>2. CASE GenerateCases \/ RenderCases \/ RecordArtifact \/ GenerateNothing
             \/ GenerateLegacy \/ DiagnoseLegacy
  BY <1>2 DEF GenerateCases, RenderCases, RecordArtifact, GenerateNothing,
     GenerateLegacy, DiagnoseLegacy, Inner
<1>3. CASE Gate
  BY <1>3 DEF Gate, GateStep, Lint, GoldRun, DummyRun, KeepSuite, FilterSuite,
     RewriteRendering, Inner
<1>4. CASE LeaveGates \/ RerunAccepted
  BY <1>4 DEF LeaveGates, GatesDone, RerunAccepted, Inner
<1>5. CASE MeasureCoverage
  BY <1>5 DEF MeasureCoverage, Measured, storeVars
<1>6. CASE NoMeasurement
  BY <1>6, NextReading DEF NoMeasurement, Measured, storeVars
<1>7. CASE ContinueAfterFailure
  BY <1>7 DEF ContinueAfterFailure, NextIteration, RangeExhausted, Return,
     ForgetLocals, LeavesDecide, Stops, GoesOn, Returns
<1>8. CASE StopWithoutCoverage \/ StopOnCoverage
  BY <1>8 DEF StopWithoutCoverage, StopOnCoverage, Return, ForgetLocals,
     LeavesDecide, Stops, Returns
<1>9. CASE GoOn
  BY <1>9 DEF GoOn, NextIteration, RangeExhausted, Return, ForgetLocals,
     LeavesDecide, Stops, GoesOn, Returns
<1> QED
  BY <1>1, <1>2, <1>3, <1>4, <1>5, <1>6, <1>7, <1>8, <1>9 DEF Next, Step

Entries == [pass : BOOLEAN, cov : Reading, measured : BOOLEAN]

\* One more entry leaves the others where they are.
LEMMA OneMoreEntry ==
  ASSUME history \in Seq(Entries), NEW e \in Entries, history' = Append(history, e)
  PROVE  /\ Len(history') = Len(history) + 1 /\ Len(history) \in Nat
         /\ history'[Len(history) + 1] = e
         /\ \A k \in 1 .. Len(history) : history'[k] = history[k]
  OBVIOUS

LEMMA HistoryTypes ==
  ASSUME TypeOK
  PROVE  /\ history \in Seq(Entries)
         /\ iteration \in Nat /\ budget \in Nat /\ run \in Nat
         /\ gapsFrom \in Nat /\ passed \in BOOLEAN
         /\ coverage \in Reading /\ prevCoverage \in Reading
  BY ConstantTypes, StoreAssumption, ControllerAssumption DEF TypeOK, Entries

LEMMA CountKept ==
  ASSUME IInv, CountInv, Next
  PROVE  CountInv'
<1> USE DEF CountInv
<1>0. TypeOK
  BY DEF IInv
<1>1. CASE StartRun
  <2>1. run' >= 1 /\ run \in Nat
    BY <1>0, <1>1, HistoryTypes DEF StartRun
  <2>2. budget' > 0
    BY <1>1, StoreAssumption DEF StartRun, AtMost
  <2>3. Len(<< >>) = 0
    OBVIOUS
  <2> QED
    BY <1>1, <2>1, <2>2, <2>3 DEF StartRun, loopVars
<1>2. CASE Inner
  BY <1>2 DEF Inner
<1>3. CASE Measured
  <2>1. Len(history') = Len(history) + 1
    BY <1>0, <1>3, HistoryTypes, OneMoreEntry DEF Measured, Entries
  <2> QED
    BY <1>3, <2>1 DEF Measured
<1>4. CASE GoesOn
  BY <1>4 DEF GoesOn
<1>5. CASE Returns \/ Breaks
  BY <1>5 DEF Returns, Breaks
<1> QED
  BY <1>0, <1>1, <1>2, <1>3, <1>4, <1>5, LoopKinds

LEMMA GapsKept ==
  ASSUME IInv, CountInv, GapsInv, Next
  PROVE  GapsInv'
<1> USE DEF GapsInv
<1>0. TypeOK
  BY DEF IInv
<1>1. CASE StartRun
  <2>1. Len(<< >>) = 0
    OBVIOUS
  <2> QED
    BY <1>1, <2>1 DEF StartRun, loopVars, CountInv
<1>2. CASE Inner
  BY <1>2 DEF Inner
<1>3. CASE Measured
  <2>1. PICK m \in BOOLEAN :
          /\ gapsFrom' = IF m THEN iteration + 1 ELSE gapsFrom
          /\ history' = Append(history,
                          [pass |-> passed, cov |-> coverage', measured |-> m])
    BY <1>3 DEF Measured
  <2>2. /\ Len(history') = Len(history) + 1 /\ Len(history) = iteration
        /\ history'[iteration + 1].measured = m
        /\ \A k \in 1 .. iteration : history'[k] = history[k]
    BY <1>0, <1>3, <2>1, HistoryTypes, OneMoreEntry DEF Measured, Entries, CountInv
  <2>3. gapsFrom \in Nat /\ iteration \in Nat
    BY <1>0, HistoryTypes
  <2> QED
    BY <1>3, <2>1, <2>2, <2>3 DEF Measured
<1>4. CASE GoesOn
  BY <1>4 DEF GoesOn
<1>5. CASE Returns \/ Breaks
  BY <1>5 DEF Returns, Breaks
<1> QED
  BY <1>0, <1>1, <1>2, <1>3, <1>4, <1>5, LoopKinds

\* The diagnostics file of the iteration is written once, by this run.
LEMMA Diagnosed ==
  ASSUME TypeOK, backend \in Backends, WriteDiagnostics
  PROVE  diagnostics'[backend][iteration] = run
  BY ControllerAssumption DEF TypeOK, WriteDiagnostics

LEMMA ReadBackKept ==
  ASSUME IInv, CountInv, ReadBackInv, Next
  PROVE  ReadBackInv'
<1> USE DEF ReadBackInv
<1>0. TypeOK
  BY DEF IInv
<1>1. CASE StartRun
  BY <1>1 DEF StartRun, loopVars, CountInv, AfterGates
<1>2. CASE Returns \/ Breaks
  BY <1>2 DEF Returns, Breaks, AfterGates
<1>3. CASE GenerateCases \/ GenerateNothing \/ DiagnoseLegacy
  <2>1. diagnostics'[backend'][iteration'] = run'
    BY <1>0, <1>3, Diagnosed DEF GenerateCases, GenerateNothing, DiagnoseLegacy,
       CountInv, runVars, loopVars
  <2>2. pc' \in {"render", "lint"}
    BY <1>3 DEF GenerateCases, GenerateNothing, DiagnoseLegacy
  <2> QED
    BY <2>1, <2>2 DEF AfterGates
<1>4. CASE GenerateLegacy
  BY <1>4 DEF GenerateLegacy, AfterGates
<1>5. CASE RenderCases \/ RecordArtifact \/ Gate
  <2>1. /\ pc \notin {"idle", "generate", "diagnose"}
        /\ pc' \in {"record", "lint", "gold", "dummy", "filter", "rerender"}
        /\ UNCHANGED <<diagnostics, backend, iteration, run>>
    BY <1>5 DEF RenderCases, RecordArtifact, Gate, GateStep, Lint, GoldRun, DummyRun,
       KeepSuite, FilterSuite, RewriteRendering, runVars, loopVars
  <2> QED
    BY <2>1 DEF AfterGates
<1>6. CASE LeaveGates
  <2>1. /\ pc = "filter" /\ pc' = "rerun"
        /\ feedback' = FeedbackSource(iteration) /\ existing' = AcceptedTestIds
        /\ UNCHANGED <<diagnostics, backend, iteration, run, written, suite>>
    BY <1>6 DEF LeaveGates, GatesDone, runVars, storeVars
  <2>2. run >= 1 /\ backend \in {"agentic", "model"}
        /\ diagnostics[backend][iteration] = run
    BY <2>1, ControllerAssumption DEF CountInv
  <2>3. run # 0
    BY <2>2
  <2>4. FeedbackOf(iteration)'
    BY <2>1, <2>2, <2>3 DEF FeedbackOf, FeedbackSource
  <2>5. AcceptedTestIds' = AcceptedTestIds
    BY <2>1 DEF AcceptedTestIds, IdsIn, Instances
  <2> QED
    BY <2>1, <2>2, <2>4, <2>5 DEF AfterGates, FeedbackOf
<1>7. CASE RerunAccepted \/ Measured
  <2>1. /\ AfterGates /\ AfterGates'
        /\ pc \notin {"idle", "generate", "diagnose"} /\ pc' # "generate"
        /\ UNCHANGED <<diagnostics, backend, iteration, run, written, suite, existing,
                       feedback>>
    BY <1>7 DEF RerunAccepted, Measured, AfterGates, storeVars, runVars
  <2>2. AcceptedTestIds' = AcceptedTestIds
    BY <2>1 DEF AcceptedTestIds, IdsIn, Instances
  <2> QED
    BY <2>1, <2>2 DEF FeedbackOf
<1>8. CASE GoesOn
  <2>1. AcceptedTestIds' = AcceptedTestIds
    BY <1>8 DEF GoesOn, AcceptedTestIds, IdsIn, Instances
  <2>2. iteration' - 1 = iteration
    BY <1>0, <1>8, HistoryTypes DEF GoesOn
  <2> QED
    BY <1>8, <2>1, <2>2 DEF GoesOn, AfterGates, FeedbackOf
<1>9. CASE MeasureCoverage \/ NoMeasurement
  <2>1. Measured
    BY <1>9, NextReading DEF MeasureCoverage, NoMeasurement, Measured, runVars, storeVars
  <2> QED
    BY <1>7, <2>1
<1>10. CASE Abort \/ GenerationFails
  <2>1. Breaks
    BY <1>10 DEF Abort, GenerationFails, ForgetLocals, Breaks
  <2> QED
    BY <1>2, <2>1
<1>11. CASE ContinueAfterFailure \/ StopWithoutCoverage \/ StopOnCoverage \/ GoOn
  <2>1. pc = "decide"
    BY <1>11 DEF ContinueAfterFailure, StopWithoutCoverage, StopOnCoverage, GoOn
  <2>2. GoesOn \/ Returns \/ Breaks
    BY <1>0, <2>1, LoopKinds DEF StartRun, Inner, Measured
  <2> QED
    BY <1>2, <1>8, <2>2
<1> QED
  BY <1>1, <1>3, <1>4, <1>5, <1>6, <1>7, <1>9, <1>10, <1>11 DEF Next, Step

----------------------------------------------------------------------------
(* The stopping rule.                                                      *)

\* The latest of some numbers is the one above all the others.
LEMMA LatestIsMaximum ==
  ASSUME NEW S \in SUBSET Nat, NEW n \in Nat, \A i \in S : i < n
  PROVE  Latest(S \cup {n}) = n /\ HasLatest(S \cup {n})
<1>1. \A i \in S \cup {n} : i <= n
  OBVIOUS
<1>2. \A j \in S \cup {n} : (\A i \in S \cup {n} : i <= j) => j = n
  BY <1>1
<1> QED
  BY <1>1, <1>2 DEF Latest, HasLatest

\* The latest is one of them.
LEMMA LatestIsOne ==
  ASSUME NEW S, S # {}, HasLatest(S)
  PROVE  Latest(S) \in S
<1>1. \E j \in S : \A i \in S : i <= j
  BY DEF HasLatest
<1> QED
  BY <1>1, Zenon DEF Latest

\* The baseline and the rule look at earlier entries and at their own.
LEMMA RuleLooksBack ==
  ASSUME history \in Seq(Entries), NEW e \in Entries, history' = Append(history, e),
         \A k \in 1 .. Len(history) + 1 : HasLatest(PassedBefore(k))
  PROVE  /\ \A k \in 1 .. Len(history) + 1 :
              PassedBefore(k)' = PassedBefore(k) /\ Baseline(k)' = Baseline(k)
         /\ \A k \in 1 .. Len(history) : StopsAt(k)' = StopsAt(k)
<1>1. /\ Len(history) \in Nat
      /\ \A k \in 1 .. Len(history) : history'[k] = history[k]
  BY OneMoreEntry
<1>2. ASSUME NEW k \in 1 .. Len(history) + 1
      PROVE  PassedBefore(k)' = PassedBefore(k) /\ Baseline(k)' = Baseline(k)
  <2>1. PassedBefore(k)' = PassedBefore(k)
    BY <1>1 DEF PassedBefore
  <2>2. ASSUME PassedBefore(k) # {}
        PROVE  Latest(PassedBefore(k)) \in 1 .. Len(history)
    <3>1. HasLatest(PassedBefore(k))
      BY <1>2
    <3>2. Latest(PassedBefore(k)) \in PassedBefore(k)
      BY <2>2, <3>1, LatestIsOne
    <3> QED
      BY <1>1, <1>2, <3>2 DEF PassedBefore
  <2> QED
    BY <1>1, <2>1, <2>2 DEF Baseline
<1>3. ASSUME NEW k \in 1 .. Len(history)
      PROVE  StopsAt(k)' = StopsAt(k)
  BY <1>1, <1>2 DEF StopsAt
<1> QED
  BY <1>2, <1>3

\* At the decision the rule is what the loop computes.
LEMMA RuleIsComputed ==
  ASSUME TypeOK, CountInv, StopInv, pc = "decide"
  PROVE  StopsAt(iteration + 1) <=> Stops
<1>1. /\ history[iteration + 1].pass = passed
      /\ history[iteration + 1].cov = coverage
      /\ Baseline(iteration + 1) = Known(prevCoverage)
  BY DEF StopInv
<1>2. /\ passed \in BOOLEAN /\ iteration \in Nat
      /\ coverage \in Reading /\ prevCoverage \in Reading
  BY HistoryTypes
<1>3. iteration + 1 > 1 <=> iteration > 0
  BY <1>2
<1>4. coverage # NoCoverage => coverage - Known(prevCoverage) = Delta
  BY <1>2, ControllerAssumption DEF Reading, Known, Delta
<1> QED
  BY <1>1, <1>2, <1>3, <1>4 DEF StopsAt, Stops, TargetReached, Stagnant

LEMMA StopKept ==
  ASSUME IInv, CountInv, StopInv, Next
  PROVE  StopInv'
<1> USE DEF StopInv
<1>0. TypeOK
  BY DEF IInv
<1>1. CASE StartRun
  <2>1. /\ Len(<< >>) = 0 /\ history' = << >>
        /\ iteration' = 0 /\ prevCoverage' = NoCoverage /\ pc' = "generate"
    BY <1>1 DEF StartRun, loopVars, CountInv
  <2>2. \A k \in {1} : PassedBefore(k)' = {}
    BY DEF PassedBefore
  <2> QED
    BY <2>1, <2>2 DEF HasLatest, Baseline, Known
<1>2. CASE Inner
  <2>1. /\ UNCHANGED <<history, iteration, prevCoverage>>
        /\ pc # "idle" /\ pc' # "decide"
    BY <1>2 DEF Inner
  <2>2. \A k : PassedBefore(k)' = PassedBefore(k)
    BY <2>1 DEF PassedBefore
  <2>3. \A k : Baseline(k)' = Baseline(k)
    BY <2>1, <2>2 DEF Baseline
  <2>4. \A k : StopsAt(k)' = StopsAt(k)
    BY <2>1, <2>3 DEF StopsAt
  <2> QED
    BY <2>1, <2>2, <2>3, <2>4 DEF HasLatest
<1>3. CASE Measured
  <2>1. PICK m \in BOOLEAN :
          history' = Append(history,
                       [pass |-> passed, cov |-> coverage', measured |-> m])
    BY <1>3 DEF Measured
  <2> DEFINE e == [pass |-> passed, cov |-> coverage', measured |-> m]
  <2>2. /\ e \in Entries /\ history \in Seq(Entries)
        /\ Len(history) = iteration /\ iteration \in Nat
        /\ UNCHANGED <<iteration, prevCoverage, passed>>
        /\ pc # "idle" /\ pc' = "decide"
    BY <1>0, <1>3, HistoryTypes DEF Measured, Entries, CountInv
  <2>3. /\ Len(history') = iteration + 1
        /\ history'[iteration + 1] = e
    BY <2>1, <2>2, OneMoreEntry
  <2>4. /\ \A k \in 1 .. iteration + 1 :
             PassedBefore(k)' = PassedBefore(k) /\ Baseline(k)' = Baseline(k)
        /\ \A k \in 1 .. iteration : StopsAt(k)' = StopsAt(k)
    BY <2>1, <2>2, RuleLooksBack
  <2>5. \A k \in 1 .. iteration + 2 : HasLatest(PassedBefore(k))'
    <3>1. \A k \in 1 .. iteration + 1 : HasLatest(PassedBefore(k))'
      BY <2>2, <2>4 DEF HasLatest
    <3>2. PassedBefore(iteration + 2)' =
            IF passed THEN PassedBefore(iteration + 1)' \cup {iteration + 1}
            ELSE PassedBefore(iteration + 1)'
      BY <2>2, <2>3 DEF PassedBefore
    <3>3. \A i \in PassedBefore(iteration + 1)' : i \in 1 .. iteration
      BY <2>2 DEF PassedBefore
    <3>4. HasLatest(PassedBefore(iteration + 1)' \cup {iteration + 1})
      <4> DEFINE n == iteration + 1
                 S == PassedBefore(iteration + 1)'
      <4>1. n \in Nat /\ S \in SUBSET Nat /\ \A i \in S : i < n
        BY <2>2, <3>3
      <4> HIDE DEF n, S
      <4>2. HasLatest(S \cup {n})
        BY <4>1, LatestIsMaximum
      <4> QED
        BY <4>2 DEF n, S
    <3>5. HasLatest(PassedBefore(iteration + 1)')
      BY <2>2, <3>1
    <3>6. HasLatest(PassedBefore(iteration + 2)')
      BY <3>2, <3>4, <3>5
    <3> QED
      BY <2>2, <3>1, <3>6
  <2>6. history'[iteration' + 1].pass = passed'
        /\ history'[iteration' + 1].cov = coverage'
    BY <2>2, <2>3
  <2> QED
    BY <2>2, <2>3, <2>4, <2>5, <2>6 DEF Known
<1>4. CASE GoesOn
  <2>1. /\ pc = "decide" /\ pc' = "generate" /\ ~ Stops
        /\ iteration' = iteration + 1 /\ iteration \in Nat
        /\ prevCoverage' = IF passed THEN coverage ELSE prevCoverage
        /\ history' = history /\ Len(history) = iteration + 1
        /\ passed \in BOOLEAN
    BY <1>0, <1>4, HistoryTypes DEF GoesOn, CountInv
  <2>2. \A k : PassedBefore(k)' = PassedBefore(k)
    BY <2>1 DEF PassedBefore
  <2>3. \A k : Baseline(k)' = Baseline(k)
    BY <2>1, <2>2 DEF Baseline
  <2>4. \A k : StopsAt(k)' = StopsAt(k)
    BY <2>1, <2>3 DEF StopsAt
  <2>5. ~ StopsAt(iteration + 1)
    BY <1>0, <2>1, RuleIsComputed
  <2>6. Baseline(iteration + 2) = Known(prevCoverage')
    <3>1. /\ history[iteration + 1].pass = passed
          /\ history[iteration + 1].cov = coverage
          /\ Baseline(iteration + 1) = Known(prevCoverage)
      BY <2>1
    <3>2. PassedBefore(iteration + 2) =
            IF passed THEN PassedBefore(iteration + 1) \cup {iteration + 1}
            ELSE PassedBefore(iteration + 1)
      BY <2>1, <3>1 DEF PassedBefore
    <3>3. CASE passed
      <4>1. /\ PassedBefore(iteration + 1) \in SUBSET Nat
            /\ \A i \in PassedBefore(iteration + 1) : i < iteration + 1
        BY <2>1 DEF PassedBefore
      <4>2. Latest(PassedBefore(iteration + 1) \cup {iteration + 1}) = iteration + 1
        <5> DEFINE n == iteration + 1
                   S == PassedBefore(iteration + 1)
        <5>1. n \in Nat /\ S \in SUBSET Nat /\ \A i \in S : i < n
          BY <2>1, <4>1
        <5> HIDE DEF n, S
        <5>2. Latest(S \cup {n}) = n
          BY <5>1, LatestIsMaximum
        <5> QED
          BY <5>2 DEF n, S
      <4>3. coverage # NoCoverage
        BY <2>1, <3>3 DEF Stops
      <4> QED
        BY <2>1, <3>1, <3>2, <3>3, <4>2, <4>3 DEF Baseline, Known
    <3>4. CASE ~ passed
      BY <2>1, <3>1, <3>2, <3>4 DEF Baseline
    <3> QED
      BY <3>3, <3>4
  <2>7. \A k \in 1 .. iteration + 1 : ~ StopsAt(k)
    BY <2>1, <2>5
  <2>8. iteration' + 1 = iteration + 2
    BY <2>1
  <2> QED
    BY <2>1, <2>2, <2>3, <2>4, <2>6, <2>7, <2>8 DEF HasLatest, Known
<1>5. CASE Returns \/ Breaks
  BY <1>5 DEF Returns, Breaks
<1> QED
  BY <1>0, <1>1, <1>2, <1>3, <1>4, <1>5, LoopKinds

LEMMA ReturnsKept ==
  ASSUME IInv, CountInv, StopInv, ReturnsAtFirstStop, Next
  PROVE  ReturnsAtFirstStop'
<1>0. TypeOK
  BY DEF IInv
<1>1. CASE StartRun
  BY <1>1 DEF StartRun, ReturnsAtFirstStop
<1>2. CASE Inner \/ Measured \/ GoesOn \/ Breaks
  BY <1>2 DEF Inner, Measured, GoesOn, Breaks, CountInv, ReturnsAtFirstStop
<1>3. CASE Returns
  <2>1. /\ pc = "decide" /\ history' = history /\ budget' = budget
        /\ Stops \/ iteration + 1 = budget
        /\ Len(history) = iteration + 1 /\ iteration \in Nat
    BY <1>0, <1>3, HistoryTypes DEF Returns, CountInv
  <2>2. \A k : StopsAt(k)' = StopsAt(k)
    BY <2>1 DEF StopsAt, Baseline, PassedBefore
  <2>3. StopsAt(iteration + 1) \/ Len(history) = budget
    BY <1>0, <2>1, RuleIsComputed
  <2>4. \A k \in 1 .. iteration : ~ StopsAt(k)
    BY <2>1 DEF StopInv
  <2> QED
    BY <2>1, <2>2, <2>3, <2>4 DEF ReturnsAtFirstStop
<1> QED
  BY <1>0, <1>1, <1>2, <1>3, LoopKinds

----------------------------------------------------------------------------
(* The invariant of the loop.                                              *)

LEMMA InitCInv == Init => CInv
<1> SUFFICES ASSUME Init PROVE CInv
  OBVIOUS
<1>1. ExactInv /\ CountInv
  BY DEF Init, StoreInit, ExactInv, CountInv
<1>2. GapsInv /\ ReadBackInv /\ StopInv /\ ReturnsAtFirstStop
  BY DEF Init, GapsInv, ReadBackInv, AfterGates, StopInv, ReturnsAtFirstStop
<1> QED
  BY <1>1, <1>2 DEF CInv

LEMMA StutterCInv == CInv /\ UNCHANGED vars => CInv'
<1> SUFFICES ASSUME CInv, UNCHANGED vars PROVE CInv'
  OBVIOUS
<1> USE DEF CInv, vars, storeVars, gateVars, runVars, loopVars
<1>1. ExactInv' /\ CountInv' /\ GapsInv'
  BY DEF ExactInv, CountInv, GapsInv
<1>2. ReadBackInv'
  BY DEF ReadBackInv, AfterGates, AcceptedTestIds, IdsIn, Instances, FeedbackOf
<1>3. /\ \A k : PassedBefore(k)' = PassedBefore(k)
      /\ \A k : StopsAt(k)' = StopsAt(k)
      /\ \A k : Baseline(k)' = Baseline(k)
  BY DEF StopsAt, Baseline, PassedBefore
<1>4. StopInv' /\ ReturnsAtFirstStop'
  BY <1>3 DEF StopInv, HasLatest, ReturnsAtFirstStop
<1> QED
  BY <1>1, <1>2, <1>4

LEMMA NextCInv == IInv /\ CInv /\ [Next]_vars => CInv'
<1>1. ASSUME IInv, CInv, Next
      PROVE  CInv'
  BY <1>1, ExactKept, CountKept, GapsKept, ReadBackKept, StopKept, ReturnsKept
  DEF CInv
<1> QED
  BY <1>1, StutterCInv

\* Beside the inductive invariant of store and gates, that of the loop.
THEOREM LoopInvariance == Spec => [](IInv /\ CInv)
  BY InitInvariant, NextInvariant, InitCInv, NextCInv, PTL DEF Spec

\* Through writes, gates, kills and runs suites, renderings and records stay
\* consistent, and agree exactly as long as no run was cut short.
THEOREM StoreConsistent == Spec => []StoreIsConsistent
<1>1. CInv => RenderingExactWithoutAborts
  BY DEF CInv, ExactInv, RenderingExactWithoutAborts
<1> QED
  BY <1>1, TypeCorrect, LintEscapes, RenderingsCover, LoopInvariance, PTL
  DEF StoreIsConsistent

\* A prompt after the first shows the names on disk, the gaps of the last
\* measurement and the diagnostics of the iteration just finished.
THEOREM PromptsCurrent == Spec => []PromptsAreCurrent
<1>1. CInv => PromptIsCurrent
  BY DEF CInv, GapsInv, ReadBackInv, PromptIsCurrent
<1>2. CInv => FeedbackIsCurrent
  BY DEF CInv, ReadBackInv, FeedbackOf, FeedbackIsCurrent
<1>3. CInv => PromptsAreCurrent
  BY <1>1, <1>2 DEF PromptsAreCurrent
<1> QED
  BY <1>3, LoopInvariance, PTL

\* A run that returns does so at the first iteration where the stopping rule
\* applies, or after its last one.
THEOREM StopsAsRuled == Spec => []ReturnsAtFirstStop
<1>1. CInv => ReturnsAtFirstStop
  BY DEF CInv
<1> QED
  BY <1>1, LoopInvariance, PTL
----------------------------------------------------------------------------
(* What follows from being an acceptance process, and the proof that the   *)
(* generation loop is one: its initial state maps to an initial state of   *)
(* SuiteAcceptance and every step of it to a step or a stutter.  The names *)
(* phase, pool and doomed are those of the abstract process by itself; the *)
(* loop's come in through the instance Acceptance.                         *)

\* From the judgement on, whatever is not condemned is sound.
AbsInv ==
  /\ phase \in {"judged", "accepted"} =>
       \A x \in pool \ doomed : x \notin Hollow /\ AloneIn(x, pool)
  /\ phase = "accepted" => doomed = {}

LEMMA AbsInvInductive == AbsInv /\ [AbsNext]_absVars => AbsInv'
<1> SUFFICES ASSUME AbsInv, [AbsNext]_absVars PROVE AbsInv'
  OBVIOUS
<1>1. CASE Add \/ Reopen
  BY <1>1 DEF Add, Reopen, AbsInv
<1>2. CASE Judge
  BY <1>2 DEF Judge, AbsInv, AloneIn
<1>3. CASE Sweep
  <2>1. pool' \subseteq pool /\ pool' \ doomed' \subseteq pool \ doomed
    BY <1>3 DEF Sweep
  <2> QED
    BY <1>3, <2>1 DEF Sweep, AbsInv, AloneIn
<1>4. CASE Accept
  BY <1>4 DEF Accept, AbsInv, AloneIn
<1>5. CASE UNCHANGED absVars
  BY <1>5 DEF absVars, AbsInv, AloneIn
<1> QED
  BY <1>1, <1>2, <1>3, <1>4, <1>5 DEF AbsNext

\* Every process that adds, judges, sweeps and accepts as specified leaves a
\* pool in which each name stands for one test and no dummy passes any.
THEOREM AcceptanceIsSound == AbsSpec => []AcceptedIsSound
<1>1. AbsInit => AbsInv
  BY DEF AbsInit, AbsInv
<1>2. AbsInv => AcceptedIsSound
  BY DEF AbsInv, AcceptedIsSound
<1> QED
  BY <1>1, <1>2, AbsInvInductive, PTL DEF AbsSpec
-----------------------------------------------------------------------------
\* Instances whose name the verdict at hand condemns.
Condemned == {x \in Instances : IdOf[x[2]] \in rejected}

LEMMA PoolTypes ==
  ASSUME StoreTypeOK
  PROVE  Instances \in SUBSET (Slots \X Cases)
  BY IdTypes

LEMMA AlonePool ==
  ASSUME StoreTypeOK, NEW x \in Instances
  PROVE  Acceptance!AloneIn(x, Instances) <=> Alone(x, Instances)
  BY IdTypes DEF Acceptance!AloneIn, Alone

\* A step that does not change phase, suites or verdict is a stutter.
LEMMA Stutter ==
  ASSUME AcceptancePhase' = AcceptancePhase,
         Instances' = Instances,
         StillDoomed' = StillDoomed
  PROVE  UNCHANGED Acceptance!absVars
  BY DEF Acceptance!absVars

LEMMA PassEndsMaps ==
  ASSUME PassEnds
  PROVE  [Acceptance!AbsNext]_(Acceptance!absVars)
<1>1. AcceptancePhase' = "open" /\ StillDoomed' = {} /\ Instances' = Instances
  BY DEF PassEnds, FilesKept, AcceptancePhase, StillDoomed, Instances
<1>2. CASE AcceptancePhase = "open"
  <2>1. StillDoomed = {}
    BY <1>2 DEF AcceptancePhase, StillDoomed
  <2> QED
    BY <1>1, <1>2, <2>1, Stutter
<1>3. CASE AcceptancePhase # "open"
  BY <1>1, <1>3 DEF Acceptance!AbsNext, Acceptance!Reopen
<1> QED
  BY <1>2, <1>3

LEMMA PassAdvancesMaps ==
  ASSUME IInv, PassAdvances
  PROVE  [Acceptance!AbsNext]_(Acceptance!absVars)
<1>1. /\ AcceptancePhase' = "accepted" /\ StillDoomed' = {}
      /\ Instances' = Instances
  BY DEF PassAdvances, AfterGates, storeVars, AcceptancePhase, StillDoomed,
         Instances
<1>2. CASE AfterGates
  <2>1. AcceptancePhase = "accepted" /\ StillDoomed = {}
    BY <1>2 DEF AfterGates, AcceptancePhase, StillDoomed
  <2> QED
    BY <1>1, <2>1, Stutter
<1>3. CASE GatesDone
  <2>1. AcceptancePhase = "judged"
    BY <1>3 DEF GatesDone, AcceptancePhase
  <2>2. StillDoomed = {}
    BY <1>3 DEF GatesDone, IInv, JudgedInv, Judged, StillDoomed
  <2> QED
    BY <1>1, <2>1, <2>2 DEF Acceptance!AbsNext, Acceptance!Accept
<1> QED
  BY <1>2, <1>3 DEF PassAdvances

LEMMA GenerateCasesMaps ==
  ASSUME IInv, IInv', GenerateCases
  PROVE  [Acceptance!AbsNext]_(Acceptance!absVars)
<1>1. StoreTypeOK /\ StoreTypeOK' /\ iteration \in Iterations
  BY DEF IInv, TypeOK
<1>2. PICK C \in SUBSET Cases, n \in Copies :
        /\ FirstFree(written, iteration, n)
        /\ written' = written \cup {<<iteration, n>>}
        /\ suite' = [suite EXCEPT ![<<iteration, n>>] = C]
  BY DEF GenerateCases, WriteSuite
<1>3. <<iteration, n>> \in Slots \ written
  BY <1>1, <1>2, NewSlot
<1>4. \A s \in written : suite'[s] = suite[s]
  BY <1>1, <1>2, <1>3 DEF StoreTypeOK
<1>5. Instances \subseteq Instances'
  BY <1>2, <1>4 DEF Instances
<1>6. Instances' \in SUBSET (Slots \X Cases)
  BY <1>1 DEF Instances, StoreTypeOK
<1>7. /\ AcceptancePhase = "open" /\ AcceptancePhase' = "open"
      /\ StillDoomed = {} /\ StillDoomed' = {}
  BY DEF GenerateCases, AcceptancePhase, StillDoomed
<1> QED
  BY <1>5, <1>6, <1>7 DEF Acceptance!AbsNext, Acceptance!Add

\* Writing renderings and records, and running tests, is not visible.
LEMMA HiddenSteps ==
  ASSUME RenderCases \/ RecordArtifact \/ GenerateNothing \/ GenerateLegacy
           \/ DiagnoseLegacy \/ Lint \/ GoldRun
  PROVE  [Acceptance!AbsNext]_(Acceptance!absVars)
<1>1. /\ pc \in {"generate", "render", "record", "diagnose", "lint", "gold"}
      /\ pc' \in {"render", "record", "diagnose", "lint", "gold", "dummy"}
      /\ written' = written /\ suite' = suite
  BY DEF RenderCases, WriteRendering, RecordArtifact, WriteArtifactRecord,
         GenerateNothing, GenerateLegacy, DiagnoseLegacy, WriteLegacyTests, Lint, GoldRun,
         storeVars
<1>2. /\ AcceptancePhase = "open" /\ AcceptancePhase' = "open"
      /\ StillDoomed = {} /\ StillDoomed' = {}
      /\ Instances' = Instances
  BY <1>1 DEF AcceptancePhase, StillDoomed, Instances
<1> QED
  BY <1>2, Stutter

\* A test with nothing against it, alone under its name, is not condemned.
LEMMA FaultlessIsSpared ==
  ASSUME IInv, DummyRun, NEW x \in Instances, x[2] \in FaultlessCases,
         Alone(x, Instances)
  PROVE  IdOf[x[2]] \notin rejected'
<1> DEFINE id == IdOf[x[2]]
<1>1. StoreTypeOK /\ pc = "dummy" /\ x \in UnderTest /\ UnderTest = Instances
  BY DEF IInv, TypeOK, DummyRun, UnderTest, Instances
<1>2. id \in TestIds
  BY <1>1, IdTypes
<1>3. id \notin flagged
  BY DEF IInv, LintInv, FaultlessCases
<1>4. id \notin fooled'
  BY <1>1 DEF DummyRun, IdsIn, FaultlessCases, Alone
<1>5. id \notin goldFailed
  BY <1>1, <1>2 DEF IInv, GoldInv, Running, FaultlessCases, Alone
<1>6. goldSeen[id] = goldRuns
  <2>1. WithId(UnderTest, id) = {x}
    BY <1>1 DEF WithId, Alone
  <2>2. Cardinality(WithId(UnderTest, id)) = 1
    BY <2>1, FS_Singleton
  <2>3. goldSeen[id] = goldRuns * 1 /\ goldRuns \in Nat
    BY <1>1, <1>2, <2>2, GateAssumption
    DEF IInv, GoldInv, Running, GateAssumption
  <2> QED
    BY <2>3, OneMoreRun
<1> QED
  BY <1>3, <1>4, <1>5, <1>6 DEF DummyRun, RejectionReasons, Deterministic

LEMMA DummyRunMaps ==
  ASSUME IInv, IInv', DummyRun
  PROVE  [Acceptance!AbsNext]_(Acceptance!absVars)
<1>1. /\ AcceptancePhase = "open" /\ AcceptancePhase' = "judged"
      /\ StillDoomed' = Condemned' /\ StillDoomed = {}
      /\ Instances' = Instances
  BY DEF DummyRun, storeVars, AcceptancePhase, StillDoomed, Instances,
         Condemned
<1>2. Condemned' \in SUBSET Instances
  BY <1>1 DEF Condemned
<1>3. StoreTypeOK
  BY DEF IInv, TypeOK
<1>4. ASSUME NEW x \in Instances,
             x \in {y \in Slots \X Cases : y[2] \in FaultlessCases},
             Acceptance!AloneIn(x, Instances)
      PROVE  x \notin Condemned'
  BY <1>3, <1>4, FaultlessIsSpared, AlonePool DEF Condemned
<1>5. ASSUME NEW x \in Instances \ Condemned'
      PROVE  /\ x \notin {y \in Slots \X Cases : y[2] \in FoolsSome}
             /\ Acceptance!AloneIn(x, Instances)
  <2>1. IdOf[x[2]] \notin rejected' /\ Judged'
    BY <1>1 DEF Condemned, DummyRun, Judged
  <2>2. x[2] \notin FoolsSome /\ Alone(x, Instances)
    BY <1>1, <2>1 DEF IInv, JudgedInv, Alone
  <2> QED
    BY <1>3, <2>2, AlonePool
<1>6. Acceptance!Judge
  BY <1>1, <1>2, <1>4, <1>5 DEF Acceptance!Judge
<1> QED
  BY <1>6 DEF Acceptance!AbsNext

LEMMA FilteringMaps ==
  ASSUME IInv, KeepSuite \/ FilterSuite \/ RewriteRendering
  PROVE  [Acceptance!AbsNext]_(Acceptance!absVars)
<1>1. /\ AcceptancePhase = "judged" /\ AcceptancePhase' = "judged"
      /\ StillDoomed = Condemned /\ StillDoomed' = Condemned'
      /\ rejected' = rejected
  BY DEF KeepSuite, FilterSuite, RewriteRendering, gateVars,
         AcceptancePhase, StillDoomed, Condemned
<1>2. CASE KeepSuite \/ RewriteRendering
  <2>1. Instances' = Instances /\ Condemned' = Condemned
    BY <1>1, <1>2 DEF KeepSuite, RewriteRendering, storeVars, Instances,
                      Condemned
  <2> QED
    BY <1>1, <2>1, Stutter
<1>3. CASE FilterSuite
  <2>1. StoreTypeOK
    BY DEF IInv, TypeOK
  <2>2. PICK s \in Slots : /\ suite' = [suite EXCEPT ![s] = AcceptedCases(s)]
                           /\ written' = written
    BY <1>3 DEF FilterSuite
  <2>3. /\ suite'[s] = AcceptedCases(s)
        /\ \A t \in Slots : t # s => suite'[t] = suite[t]
    BY <2>1, <2>2 DEF StoreTypeOK
  <2>4. Instances' \subseteq Instances
    BY <2>1, <1>3, FilterShrinks, FewerInstances
  <2>5. \A x \in Instances : x \notin Instances' => IdOf[x[2]] \in rejected
    BY <2>2, <2>3 DEF Instances, AcceptedCases
  <2>6. Condemned' \in SUBSET Condemned
    BY <1>1, <2>4 DEF Condemned
  <2>7. Instances' = Instances \ (Condemned \ Condemned')
    BY <1>1, <2>4, <2>5 DEF Condemned
  <2>8. Acceptance!Sweep
    BY <1>1, <2>6, <2>7 DEF Acceptance!Sweep
  <2> QED
    BY <2>8 DEF Acceptance!AbsNext
<1> QED
  BY <1>2, <1>3

LEMMA InitMaps == Init => Acceptance!AbsInit
  BY DEF Init, StoreInit, Acceptance!AbsInit, AcceptancePhase, StillDoomed,
         Instances

LEMMA StepMaps ==
  ASSUME IInv, IInv', [Next]_vars
  PROVE  [Acceptance!AbsNext]_(Acceptance!absVars)
<1>1. CASE Next
  BY <1>1, StepKinds, PassEndsMaps, PassAdvancesMaps, GenerateCasesMaps,
     HiddenSteps, DummyRunMaps, FilteringMaps DEF Gate, GateStep
<1>2. CASE UNCHANGED vars
  <2>1. /\ AcceptancePhase' = AcceptancePhase /\ Instances' = Instances
        /\ StillDoomed' = StillDoomed
    BY <1>2 DEF vars, storeVars, gateVars, AcceptancePhase, Instances,
                StillDoomed
  <2> QED
    BY <2>1, Stutter
<1> QED
  BY <1>1, <1>2

\* The loop, over any number of runs, iterations, files and crashes, is an
\* acceptance process: it takes a test out of a suite only after judging
\* the whole pool, spares every sound test that is alone under its name,
\* and accepts only when all it condemned is gone.
THEOREM Implementation == Spec => ImplementsAcceptance
<1>1. IInv /\ IInv' /\ [Next]_vars => [Acceptance!AbsNext]_(Acceptance!absVars)
  BY StepMaps
<1> QED
  BY <1>1, InitMaps, Invariance, PTL
  DEF Spec, ImplementsAcceptance, Acceptance!AbsSpec
=============================================================================

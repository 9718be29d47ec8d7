------------------------- MODULE TaskReleaseProofs -------------------------
(***************************************************************************)
(* A release that ended is whole, and its manifest is of what lies beside  *)
(* it, for any repositories and any number of releases and rebuilds.       *)
(***************************************************************************)
EXTENDS TaskRelease, TLAPS

Released == phase = "idle" /\ outcome = "released"

\* The parts of an evaluator package.
Parts(t, r, l, p, k, ls, x) ==
  [tests |-> t, reports |-> r, leak |-> l, program |-> p, task |-> k,
   listed |-> ls, runs |-> x]

OfInput(l, x) ==
  Parts(input.tests, input.reports, l, input.program, input.repo, TRUE, x)

AllOfInput ==
  CopyPublicDocs(input.repo) \cup CopyAssets(input.repo)
    \cup Instructions \cup {SolverVisibleTaskSpec(input.repo), SolverManifest}

\* The task directory stays as it is during a release.
InputIsTask == phase # "idle" => input = Task

SolverWritten ==
  \/ phase \in {"copy tests", "end tests", "copy reports", "copy program",
                "task", "list", "check", "copy check", "manifest",
                "evaluator manifest"}
  \/ Released

SolverSoFar ==
  /\ phase \in {"remove evaluator", "docs"} => solver = {}
  /\ phase = "assets" => solver = CopyPublicDocs(input.repo)
  /\ phase = "own files" =>
       solver = CopyPublicDocs(input.repo) \cup CopyAssets(input.repo)
  /\ SolverWritten => solver = AllOfInput

EvaluatorSoFar ==
  /\ phase \in {"docs", "assets", "own files", "copy tests"} => evaluator = NoEvaluator
  /\ phase = "end tests" =>
       evaluator = Parts(Partial, None, None, None, None, FALSE, FALSE)
  /\ phase = "copy reports" =>
       evaluator = Parts(input.tests, None, None, None, None, FALSE, FALSE)
  /\ phase = "copy program" =>
       evaluator = Parts(input.tests, input.reports, evaluator.leak, None, None, FALSE, FALSE)
  /\ phase = "task" =>
       evaluator = Parts(input.tests, input.reports, evaluator.leak, input.program,
                         None, FALSE, FALSE)
  /\ phase = "list" =>
       evaluator = Parts(input.tests, input.reports, evaluator.leak, input.program,
                         input.repo, FALSE, FALSE)
  /\ phase \in {"check", "copy check"} => evaluator = OfInput(evaluator.leak, FALSE)
  /\ phase \in {"manifest", "evaluator manifest"} => evaluator = OfInput(leak, FALSE)
  /\ Released => \E x \in BOOLEAN : evaluator = OfInput(leak, x)

VerdictOfRelease ==
  phase \in {"copy check", "manifest", "evaluator manifest"} \/ Released =>
    leak = [release |-> release, passed |-> LeakCheck(AllOfInput)]

ManifestOfRelease ==
  phase = "evaluator manifest" \/ Released =>
    manifest = [release |-> release, passed |-> leak.passed, tests |-> input.tests,
                hash |-> [solver |-> AllOfInput, evaluator |-> OfInput(leak, FALSE)]]

EvaluatorManifest ==
  /\ Released => emanifest = manifest
  /\ phase \notin {"idle", "remove solver", "remove evaluator"} => emanifest = None

\* A release that is over was whole, was recorded as dead, or never began.
ReleasesEnd ==
  /\ release \in 0 .. MaxReleases /\ phase \in Phases
  /\ dead \in [0 .. MaxReleases -> Phases \cup {None}]
  /\ phase = "idle" => Released \/ dead[release] # None \/ manifest = None

RInv ==
  /\ InputIsTask
  /\ SolverSoFar
  /\ EvaluatorSoFar
  /\ VerdictOfRelease
  /\ ManifestOfRelease
  /\ EvaluatorManifest
  /\ ReleasesEnd
  /\ ManifestsAgree
-----------------------------------------------------------------------------
LEMMA NoneIsNoPhase == None \notin Phases
  BY ReleaseAssumption

LEMMA ReleasesAreNumbered == MaxReleases \in Nat
  BY ReleaseAssumption

LEMMA RunsForgotten ==
  ASSUME NEW t, NEW r, NEW l, NEW p, NEW k, NEW ls, NEW x, NEW e,
         e = [Parts(t, r, l, p, k, ls, x) EXCEPT !.runs = FALSE]
  PROVE  e = Parts(t, r, l, p, k, ls, FALSE)
  BY DEF Parts

LEMMA ReleaseStarts == Init => RInv
<1> SUFFICES ASSUME Init PROVE RInv
  OBVIOUS
<1>1. phase = "idle" /\ outcome = "none" /\ manifest = None /\ emanifest = None
  BY DEF Init
<1>2. ReleasesEnd
  <2>1. release = 0 /\ dead = [r \in 0 .. MaxReleases |-> None]
    BY DEF Init
  <2>2. dead \in [0 .. MaxReleases -> Phases \cup {None}]
    BY <2>1
  <2>3. release \in 0 .. MaxReleases
    BY <2>1, ReleasesAreNumbered
  <2>4. phase \in Phases
    BY <1>1 DEF Phases
  <2> QED
    BY <1>1, <2>2, <2>3, <2>4 DEF ReleasesEnd
<1> QED
  BY <1>1, <1>2 DEF RInv, InputIsTask, SolverSoFar, SolverWritten, EvaluatorSoFar,
     VerdictOfRelease, ManifestOfRelease, EvaluatorManifest, ManifestsAgree, Released

\* What holds of the task and of the end in each step of a release.
LEMMA StepKeeps ==
  ASSUME RInv, NEW from \in Phases \ {"idle"}, NEW to \in Phases \ {"idle"}, Step(from, to)
  PROVE  /\ InputIsTask' /\ ReleasesEnd'
         /\ phase = from /\ phase' = to /\ ~Released'
         /\ UNCHANGED <<input, release>>
         /\ input = Task /\ Task = [repo |-> repo, tests |-> tests, reports |-> reports,
                                    program |-> program]
         /\ AllOfInput' = AllOfInput
<1>1. /\ phase = from /\ phase' = to /\ ~Released' /\ UNCHANGED <<input, release, dead>>
      /\ UNCHANGED taskVars
  BY DEF Step, Released
<1>2. input = Task
  BY <1>1 DEF RInv, InputIsTask
<1>3. InputIsTask'
  BY <1>1, <1>2 DEF InputIsTask, Task, taskVars
<1>4. ReleasesEnd'
  <2>1. phase' \in Phases /\ phase' # "idle"
    BY <1>1
  <2>2. release \in 0 .. MaxReleases /\ dead \in [0 .. MaxReleases -> Phases \cup {None}]
    BY DEF RInv, ReleasesEnd
  <2> QED
    BY <1>1, <2>1, <2>2, Zenon DEF ReleasesEnd
<1>5. AllOfInput' = AllOfInput
  BY <1>1 DEF AllOfInput
<1> QED
  BY <1>1, <1>2, <1>3, <1>4, <1>5 DEF Task

LEMMA RemoveSolverKeeps == ASSUME RInv, RemoveSolver PROVE RInv'
<1>1. Step("remove solver", "remove evaluator") /\ solver' = {} /\
      UNCHANGED <<leak, evaluator, manifest, emanifest, outcome>>
  BY DEF RemoveSolver
<1>2. /\ InputIsTask' /\ ReleasesEnd' /\ phase' = "remove evaluator" /\ ~Released'
  BY <1>1, StepKeeps DEF Phases
<1> QED
  BY <1>1, <1>2 DEF RInv, SolverSoFar, SolverWritten, EvaluatorSoFar, VerdictOfRelease,
     ManifestOfRelease, EvaluatorManifest, ManifestsAgree

LEMMA RemoveEvaluatorKeeps == ASSUME RInv, RemoveEvaluator PROVE RInv'
<1>1. /\ Step("remove evaluator", "docs")
      /\ evaluator' = NoEvaluator /\ emanifest' = None
      /\ UNCHANGED <<leak, solver, manifest, outcome>>
  BY DEF RemoveEvaluator
<1>2. /\ InputIsTask' /\ ReleasesEnd' /\ phase = "remove evaluator" /\ phase' = "docs"
      /\ ~Released'
  BY <1>1, StepKeeps DEF Phases
<1>3. NoEvaluator' = NoEvaluator
  BY DEF NoEvaluator
<1> QED
  BY <1>1, <1>2, <1>3 DEF RInv, SolverSoFar, SolverWritten, EvaluatorSoFar, VerdictOfRelease,
     ManifestOfRelease, EvaluatorManifest, ManifestsAgree

\* The three steps that place files for the solver.
LEMMA PlacesKeep ==
  ASSUME RInv, CopyDocs \/ CopyDeclaredAssets \/ WriteOwnFiles PROVE RInv'
<1>1. PICK from \in {"docs", "assets", "own files"}, to \in {"assets", "own files", "copy tests"} :
        /\ Step(from, to) /\ UNCHANGED <<leak, evaluator, manifest, emanifest, outcome>>
  BY DEF CopyDocs, CopyDeclaredAssets, WriteOwnFiles, Place
<1>2. from \in Phases \ {"idle"} /\ to \in Phases \ {"idle"}
  BY DEF Phases
<1>3. /\ InputIsTask' /\ ReleasesEnd' /\ phase = from /\ phase' = to /\ ~Released'
      /\ input' = input /\ input.repo = repo /\ AllOfInput' = AllOfInput
  <2>1. /\ InputIsTask' /\ ReleasesEnd' /\ phase = from /\ phase' = to /\ ~Released'
        /\ input' = input /\ input = Task /\ AllOfInput' = AllOfInput
    BY <1>1, <1>2, StepKeeps, Zenon
  <2>2. input.repo = repo
    BY <2>1 DEF Task
  <2> QED
    BY <2>1, <2>2
<1>4. SolverSoFar'
  <2>1. CASE CopyDocs
    BY <2>1, <1>3 DEF CopyDocs, Place, Step, RInv, SolverSoFar, SolverWritten
  <2>2. CASE CopyDeclaredAssets
    BY <2>2, <1>3 DEF CopyDeclaredAssets, Place, Step, RInv, SolverSoFar, SolverWritten
  <2>3. CASE WriteOwnFiles
    <3>1. /\ phase = "own files" /\ phase' = "copy tests"
          /\ solver' = solver \cup (Instructions \cup {SolverVisibleTaskSpec(repo), SolverManifest})
      BY <2>3 DEF WriteOwnFiles, Place, Step
    <3>2. solver' = AllOfInput
      BY <3>1, <1>3 DEF RInv, SolverSoFar, AllOfInput
    <3> QED
      BY <3>1, <3>2, <1>3 DEF SolverSoFar
  <2> QED
    BY <2>1, <2>2, <2>3
<1>5. EvaluatorSoFar'
  <2>1. evaluator = NoEvaluator
    BY <1>3 DEF RInv, EvaluatorSoFar
  <2>2. evaluator' = NoEvaluator'
    BY <1>1, <2>1 DEF NoEvaluator
  <2> QED
    BY <1>3, <2>2 DEF EvaluatorSoFar
<1> QED
  BY <1>1, <1>3, <1>4, <1>5 DEF RInv, VerdictOfRelease, ManifestOfRelease,
     EvaluatorManifest, ManifestsAgree

\* The steps that write the evaluator package, up to its list of contents.
LEMMA PartsKeep ==
  ASSUME RInv,
         CopyTests \/ EndTests \/ CopyReports \/ CopyProgram \/ WriteTask \/ ListEvaluator
  PROVE  RInv'
<1> DEFINE From == {"copy tests", "end tests", "copy reports", "copy program", "task", "list"}
           To   == {"end tests", "copy reports", "copy program", "task", "list", "check"}
<1>1. PICK from \in From, to \in To :
        /\ Step(from, to) /\ UNCHANGED <<leak, solver, manifest, emanifest, outcome>>
  BY DEF CopyTests, EndTests, CopyReports, CopyProgram, WriteTask, ListEvaluator, Put
<1>2. from \in Phases \ {"idle"} /\ to \in Phases \ {"idle"}
  BY DEF Phases
<1>3. /\ InputIsTask' /\ ReleasesEnd' /\ phase = from /\ phase' = to /\ ~Released'
      /\ input' = input /\ input = Task /\ AllOfInput' = AllOfInput
  BY <1>1, <1>2, StepKeeps, Zenon
<1>4. /\ input.repo = repo /\ input.tests = tests /\ input.reports = reports
      /\ input.program = program
  BY <1>3 DEF Task
<1>5. SolverSoFar'
  BY <1>1, <1>3 DEF RInv, SolverSoFar, SolverWritten
<1>6. EvaluatorSoFar'
  <2>1. CASE CopyTests
    <3>1. /\ phase = "copy tests" /\ phase' = "end tests"
          /\ evaluator' = [evaluator EXCEPT !.tests = Partial]
      BY <2>1 DEF CopyTests, Put, Step
    <3>2. evaluator = NoEvaluator
      BY <3>1 DEF RInv, EvaluatorSoFar
    <3>3. evaluator' = Parts(Partial, None, None, None, None, FALSE, FALSE)
      BY <3>1, <3>2 DEF NoEvaluator, Parts
    <3> QED
      BY <3>1, <3>3, <1>3 DEF EvaluatorSoFar, Parts, Partial
  <2>2. CASE EndTests
    <3>1. /\ phase = "end tests" /\ phase' = "copy reports"
          /\ evaluator' = [evaluator EXCEPT !.tests = tests]
      BY <2>2 DEF EndTests, Put, Step
    <3>2. evaluator = Parts(Partial, None, None, None, None, FALSE, FALSE)
      BY <3>1 DEF RInv, EvaluatorSoFar
    <3>3. evaluator' = Parts(input.tests, None, None, None, None, FALSE, FALSE)'
      BY <3>1, <3>2, <1>3, <1>4 DEF Parts
    <3> QED
      BY <3>1, <3>3, <1>3 DEF EvaluatorSoFar
  <2>3. CASE CopyReports
    <3>1. /\ phase = "copy reports" /\ phase' = "copy program"
          /\ evaluator' = [evaluator EXCEPT !.reports = reports, !.leak = leak]
      BY <2>3 DEF CopyReports, Step
    <3>2. evaluator = Parts(input.tests, None, None, None, None, FALSE, FALSE)
      BY <3>1 DEF RInv, EvaluatorSoFar
    <3>3. evaluator' = Parts(input.tests, input.reports, evaluator.leak, None, None, FALSE, FALSE)'
      BY <3>1, <3>2, <1>3, <1>4 DEF Parts
    <3> QED
      BY <3>1, <3>3, <1>3 DEF EvaluatorSoFar
  <2>4. CASE CopyProgram
    <3>1. /\ phase = "copy program" /\ phase' = "task"
          /\ evaluator' = [evaluator EXCEPT !.program = program]
      BY <2>4 DEF CopyProgram, Put, Step
    <3>2. PICK l : evaluator = Parts(input.tests, input.reports, l, None, None, FALSE, FALSE)
      BY <3>1 DEF RInv, EvaluatorSoFar
    <3>3. evaluator' = Parts(input.tests, input.reports, l, input.program, None, FALSE, FALSE)
      BY <3>1, <3>2, <1>4 DEF Parts
    <3>4. l = evaluator'.leak
      BY <3>3 DEF Parts
    <3> QED
      BY <3>1, <3>3, <3>4, <1>3 DEF EvaluatorSoFar, Parts
  <2>5. CASE WriteTask
    <3>1. /\ phase = "task" /\ phase' = "list"
          /\ evaluator' = [evaluator EXCEPT !.task = repo]
      BY <2>5 DEF WriteTask, Put, Step
    <3>2. PICK l : evaluator = Parts(input.tests, input.reports, l, input.program,
                                     None, FALSE, FALSE)
      BY <3>1 DEF RInv, EvaluatorSoFar
    <3>3. evaluator' = Parts(input.tests, input.reports, l, input.program, input.repo,
                             FALSE, FALSE)
      BY <3>1, <3>2, <1>4 DEF Parts
    <3>4. l = evaluator'.leak
      BY <3>3 DEF Parts
    <3> QED
      BY <3>1, <3>3, <3>4, <1>3 DEF EvaluatorSoFar, Parts
  <2>6. CASE ListEvaluator
    <3>1. /\ phase = "list" /\ phase' = "check"
          /\ evaluator' = [evaluator EXCEPT !.listed = TRUE]
      BY <2>6 DEF ListEvaluator, Put, Step
    <3>2. PICK l : evaluator = Parts(input.tests, input.reports, l, input.program,
                                     input.repo, FALSE, FALSE)
      BY <3>1 DEF RInv, EvaluatorSoFar
    <3>3. evaluator' = OfInput(l, FALSE)
      BY <3>1, <3>2 DEF Parts, OfInput
    <3>4. l = evaluator'.leak
      BY <3>3 DEF Parts, OfInput
    <3> QED
      BY <3>1, <3>3, <3>4, <1>3 DEF EvaluatorSoFar, Parts, OfInput
  <2> QED
    BY <2>1, <2>2, <2>3, <2>4, <2>5, <2>6
<1>7. phase' \notin {"idle", "copy check", "manifest", "evaluator manifest"}
  BY <1>3
<1>8. emanifest = None
  BY <1>3 DEF RInv, EvaluatorManifest
<1> QED
  BY <1>1, <1>3, <1>5, <1>6, <1>7, <1>8 DEF RInv, VerdictOfRelease, ManifestOfRelease,
     EvaluatorManifest, ManifestsAgree

\* The leak check, and the copy of its report.
LEMMA ChecksKeep == ASSUME RInv, RunLeakCheck \/ CopyVerdict PROVE RInv'
<1>1. CASE RunLeakCheck
  <2>1. /\ Step("check", "copy check")
        /\ leak' = [release |-> release, passed |-> LeakCheck(solver)]
        /\ UNCHANGED <<packages, outcome>>
    BY <1>1 DEF RunLeakCheck
  <2>2. /\ InputIsTask' /\ ReleasesEnd' /\ phase = "check" /\ phase' = "copy check" /\ ~Released'
        /\ input' = input /\ release' = release /\ AllOfInput' = AllOfInput
    BY <2>1, StepKeeps DEF Phases
  <2>3. solver = AllOfInput /\ solver' = solver
    BY <2>1, <2>2 DEF RInv, SolverSoFar, SolverWritten, packages
  <2>4. SolverSoFar'
    BY <2>2, <2>3 DEF SolverSoFar
  <2>5. EvaluatorSoFar'
    <3>1. evaluator = OfInput(evaluator.leak, FALSE) /\ evaluator' = evaluator
      BY <2>1, <2>2 DEF RInv, EvaluatorSoFar, packages
    <3> QED
      BY <2>2, <3>1 DEF EvaluatorSoFar, OfInput, Parts
  <2>6. leak' = [release |-> release', passed |-> LeakCheck(AllOfInput')]
    BY <2>1, <2>2, <2>3
  <2>7. VerdictOfRelease'
    BY <2>6 DEF VerdictOfRelease
  <2> QED
    BY <2>1, <2>2, <2>4, <2>5, <2>7 DEF RInv, ManifestOfRelease, EvaluatorManifest,
       ManifestsAgree, packages
<1>2. CASE CopyVerdict
  <2>1. /\ Step("copy check", "manifest")
        /\ evaluator' = [evaluator EXCEPT !.leak = leak]
        /\ UNCHANGED <<leak, solver, manifest, emanifest, outcome>>
    BY <1>2 DEF CopyVerdict, Put
  <2>2. /\ InputIsTask' /\ ReleasesEnd' /\ phase = "copy check" /\ phase' = "manifest" /\ ~Released'
        /\ input' = input /\ release' = release /\ AllOfInput' = AllOfInput
    BY <2>1, StepKeeps DEF Phases
  <2>3. SolverSoFar'
    BY <2>1, <2>2 DEF RInv, SolverSoFar, SolverWritten
  <2>4. EvaluatorSoFar'
    <3>1. PICK l : evaluator = OfInput(l, FALSE)
      BY <2>2 DEF RInv, EvaluatorSoFar
    <3>2. evaluator' = OfInput(leak, FALSE)
      BY <2>1, <3>1 DEF OfInput, Parts
    <3> QED
      BY <2>1, <2>2, <3>2 DEF EvaluatorSoFar, OfInput, Parts
  <2>5. leak = [release |-> release, passed |-> LeakCheck(AllOfInput)]
    BY <2>2 DEF RInv, VerdictOfRelease
  <2>6. VerdictOfRelease'
    BY <2>1, <2>2, <2>5 DEF VerdictOfRelease
  <2> QED
    BY <2>1, <2>2, <2>3, <2>4, <2>6 DEF RInv, ManifestOfRelease, EvaluatorManifest,
       ManifestsAgree
<1> QED
  BY <1>1, <1>2

\* The two manifests.
LEMMA ManifestKeeps == ASSUME RInv, WriteManifest PROVE RInv'
<1>1. /\ Step("manifest", "evaluator manifest") /\ manifest' = NewManifest
      /\ UNCHANGED <<leak, solver, evaluator, emanifest, outcome>>
  BY DEF WriteManifest
<1>2. /\ InputIsTask' /\ ReleasesEnd' /\ phase = "manifest" /\ phase' = "evaluator manifest"
      /\ ~Released' /\ input' = input /\ release' = release /\ AllOfInput' = AllOfInput
      /\ input = Task
  BY <1>1, StepKeeps DEF Phases
<1>3. solver = AllOfInput
  BY <1>2 DEF RInv, SolverSoFar, SolverWritten
<1>4. evaluator = OfInput(leak, FALSE) /\ OfInput(leak, FALSE)' = OfInput(leak, FALSE)
  BY <1>1, <1>2 DEF RInv, EvaluatorSoFar, OfInput, Parts
<1>5. SolverSoFar'
  BY <1>1, <1>2, <1>3 DEF SolverSoFar
<1>6. EvaluatorSoFar'
  BY <1>1, <1>2, <1>4 DEF EvaluatorSoFar
<1>7. leak = [release |-> release, passed |-> LeakCheck(AllOfInput)]
  BY <1>2 DEF RInv, VerdictOfRelease
<1>8. VerdictOfRelease'
  BY <1>1, <1>2, <1>7 DEF VerdictOfRelease
<1>9. ManifestOfRelease'
  <2>1. input.tests = tests
    BY <1>2 DEF Task
  <2>2. manifest' = [release |-> release, passed |-> leak.passed, tests |-> input.tests,
                     hash |-> [solver |-> AllOfInput, evaluator |-> OfInput(leak, FALSE)]]
    BY <1>1, <1>3, <1>4, <2>1 DEF NewManifest, Content
  <2> QED
    BY <1>1, <1>2, <1>4, <2>2 DEF ManifestOfRelease
<1>10. emanifest' = None
  BY <1>1, <1>2 DEF RInv, EvaluatorManifest
<1> QED
  BY <1>2, <1>5, <1>6, <1>8, <1>9, <1>10 DEF RInv, EvaluatorManifest, ManifestsAgree

LEMMA EvaluatorManifestKeeps == ASSUME RInv, WriteEvaluatorManifest PROVE RInv'
<1>1. /\ phase = "evaluator manifest" /\ phase' = "idle" /\ outcome' = "released"
      /\ emanifest' = NewManifest
      /\ UNCHANGED <<taskVars, leak, solver, evaluator, manifest, release, input, dead, seen>>
  BY DEF WriteEvaluatorManifest, End
<1>2. Released' /\ AllOfInput' = AllOfInput /\ OfInput(leak, FALSE)' = OfInput(leak, FALSE)
  BY <1>1 DEF Released, AllOfInput, OfInput, Parts
<1>3. solver = AllOfInput /\ evaluator = OfInput(leak, FALSE)
  BY <1>1 DEF RInv, SolverSoFar, SolverWritten, EvaluatorSoFar
<1>4. SolverSoFar'
  BY <1>1, <1>2, <1>3 DEF SolverSoFar
<1>5. EvaluatorSoFar'
  BY <1>1, <1>2, <1>3 DEF EvaluatorSoFar
<1>6. leak = [release |-> release, passed |-> LeakCheck(AllOfInput)]
  BY <1>1 DEF RInv, VerdictOfRelease
<1>7. VerdictOfRelease'
  BY <1>1, <1>2, <1>6 DEF VerdictOfRelease
<1>8. manifest = [release |-> release, passed |-> leak.passed, tests |-> input.tests,
                  hash |-> [solver |-> AllOfInput, evaluator |-> OfInput(leak, FALSE)]]
  BY <1>1 DEF RInv, ManifestOfRelease
<1>9. ManifestOfRelease'
  BY <1>1, <1>2, <1>8 DEF ManifestOfRelease
<1>10. emanifest' = manifest'
  <2>1. input = Task
    BY <1>1 DEF RInv, InputIsTask
  <2>2. input.tests = tests
    BY <2>1 DEF Task
  <2> QED
    BY <1>1, <1>3, <1>8, <2>2 DEF NewManifest, Content
<1>11. ReleasesEnd' /\ InputIsTask'
  BY <1>1, <1>2 DEF RInv, ReleasesEnd, InputIsTask, Phases
<1> QED
  BY <1>1, <1>4, <1>5, <1>7, <1>9, <1>10, <1>11 DEF RInv, EvaluatorManifest, ManifestsAgree

\* A release that does not end.
LEMMA DeathKeeps ==
  ASSUME RInv, ProgramMissing \/ Kill
  PROVE  RInv'
<1>1. /\ phase \in Phases /\ phase # "idle" /\ phase' = "idle" /\ outcome' # "released"
      /\ dead' = [dead EXCEPT ![release] = phase] /\ UNCHANGED <<leak, manifest, release>>
  BY DEF ProgramMissing, Kill, End, RInv, ReleasesEnd, packages
<1>2. ~Released' /\ ~SolverWritten'
  BY <1>1 DEF Released, SolverWritten
<1>3. ReleasesEnd'
  <2>1. dead \in [0 .. MaxReleases -> Phases \cup {None}] /\ release \in 0 .. MaxReleases
    BY DEF RInv, ReleasesEnd
  <2> HIDE DEF RInv, Phases
  <2>4. phase # None
    BY <1>1, NoneIsNoPhase
  <2>5. dead'[release] # None /\ dead' \in [0 .. MaxReleases -> Phases \cup {None}]
    BY <1>1, <2>1, <2>4
  <2>2. phase' \in Phases
    BY <1>1 DEF Phases
  <2> QED
    BY <1>1, <2>1, <2>2, <2>5 DEF ReleasesEnd
<1>4. emanifest' \in {emanifest, None}
  BY DEF ProgramMissing, Kill, packages
<1>5. ManifestsAgree'
  BY <1>1, <1>4 DEF RInv, ManifestsAgree
<1> QED
  BY <1>1, <1>2, <1>3, <1>5 DEF RInv, InputIsTask, SolverSoFar, EvaluatorSoFar,
     VerdictOfRelease, ManifestOfRelease, EvaluatorManifest

LEMMA StartKeeps == ASSUME RInv, Start PROVE RInv'
<1>1. /\ release < MaxReleases /\ release' = release + 1 /\ phase' = "remove solver"
      /\ input' = Task /\ outcome' = "none"
      /\ UNCHANGED <<taskVars, leak, packages, dead, seen>>
  BY DEF Start
<1>2. InputIsTask'
  BY <1>1 DEF InputIsTask, Task, taskVars
<1>3. ReleasesEnd'
  <2>1. release' \in 0 .. MaxReleases
    <3>1. release \in 0 .. MaxReleases
      BY DEF RInv, ReleasesEnd
    <3>2. release < MaxReleases /\ release' = release + 1
      BY <1>1
    <3> QED
      BY <3>1, <3>2, ReleasesAreNumbered
  <2>2. phase' \in Phases /\ phase' # "idle"
    BY <1>1 DEF Phases
  <2> QED
    BY <1>1, <2>1, <2>2 DEF RInv, ReleasesEnd
<1>4. ~Released' /\ ~SolverWritten'
  BY <1>1 DEF Released, SolverWritten
<1>5. ManifestsAgree'
  BY <1>1 DEF RInv, ManifestsAgree, packages
<1> QED
  BY <1>1, <1>2, <1>3, <1>4, <1>5 DEF RInv, SolverSoFar, EvaluatorSoFar,
     VerdictOfRelease, ManifestOfRelease, EvaluatorManifest

\* What happens between releases: rebuilds and evaluations.
LEMMA BetweenKeeps ==
  ASSUME RInv, Construct \/ EvaluateManifest \/ EvaluateDirectory
  PROVE  RInv'
<1>1. /\ phase = "idle" /\ UNCHANGED <<leak, solver, manifest, emanifest, phase, release,
                                       outcome, input, dead>>
      /\ evaluator' = evaluator \/ evaluator' = [evaluator EXCEPT !.runs = TRUE]
  BY DEF Construct, EvaluateManifest, EvaluateDirectory, Evaluate, packages
<1>2. Released' = Released /\ AllOfInput' = AllOfInput /\ OfInput(leak, FALSE)' = OfInput(leak, FALSE)
  BY <1>1 DEF Released, AllOfInput, OfInput, Parts
<1>3. SolverSoFar'
  BY <1>1, <1>2 DEF RInv, SolverSoFar, SolverWritten
<1>4. EvaluatorSoFar'
  <2>1. ASSUME Released PROVE \E x \in BOOLEAN : evaluator' = OfInput(leak, x)
    <3>1. PICK x \in BOOLEAN : evaluator = OfInput(leak, x)
      BY <2>1 DEF RInv, EvaluatorSoFar
    <3>2. evaluator' = OfInput(leak, x) \/ evaluator' = OfInput(leak, TRUE)
      BY <1>1, <3>1 DEF OfInput, Parts
    <3> QED
      BY <3>2
  <2> QED
    BY <1>1, <1>2, <2>1 DEF EvaluatorSoFar, OfInput, Parts
<1>5. VerdictOfRelease' /\ InputIsTask' /\ EvaluatorManifest' /\ ManifestsAgree'
  BY <1>1, <1>2 DEF RInv, VerdictOfRelease, InputIsTask, EvaluatorManifest, ManifestsAgree
<1>6. ManifestOfRelease'
  BY <1>1, <1>2 DEF RInv, ManifestOfRelease
<1>7. ReleasesEnd'
  BY <1>1, <1>2 DEF RInv, ReleasesEnd
<1> QED
  BY <1>3, <1>4, <1>5, <1>6, <1>7 DEF RInv

LEMMA NothingKeeps == ASSUME RInv, UNCHANGED vars PROVE RInv'
<1>1. /\ UNCHANGED <<repo, tests, reports, program, leak, solver, evaluator, manifest,
                     emanifest, phase, release, outcome, input, dead>>
  BY DEF vars, taskVars, packages
<1>2. /\ Released' = Released /\ SolverWritten' = SolverWritten /\ AllOfInput' = AllOfInput
      /\ OfInput(leak, FALSE)' = OfInput(leak, FALSE)
  BY <1>1 DEF Released, SolverWritten, AllOfInput, OfInput, Parts
<1>3. InputIsTask' /\ SolverSoFar' /\ VerdictOfRelease' /\ EvaluatorManifest' /\ ManifestsAgree'
  BY <1>1, <1>2 DEF RInv, InputIsTask, Task, SolverSoFar, VerdictOfRelease, EvaluatorManifest,
     ManifestsAgree
<1>4. EvaluatorSoFar'
  BY <1>1, <1>2 DEF RInv, EvaluatorSoFar, NoEvaluator, OfInput, Parts, Partial
<1>5. ManifestOfRelease' /\ ReleasesEnd'
  BY <1>1, <1>2 DEF RInv, ManifestOfRelease, ReleasesEnd
<1> QED
  BY <1>3, <1>4, <1>5 DEF RInv

LEMMA ReleaseSteps == ASSUME RInv, [Next]_vars PROVE RInv'
  BY RemoveSolverKeeps, RemoveEvaluatorKeeps, PlacesKeep, PartsKeep, ChecksKeep, ManifestKeeps,
     EvaluatorManifestKeeps, DeathKeeps, StartKeeps, BetweenKeeps, NothingKeeps, Zenon
     DEF Next, Release

\* What a release has written so far is of the task it was called for.
THEOREM ReleaseInvariant == Spec => []RInv
  BY ReleaseStarts, ReleaseSteps, PTL DEF Spec
-----------------------------------------------------------------------------
\* What release_task_package returns is a complete pair of packages of the
\* task directory it was called for, with its own verdict in both manifests.
THEOREM ReleaseIsWhole == Spec => []ReleasedIsWhole
<1>1. RInv => ReleasedIsWhole
  <2> SUFFICES ASSUME RInv, Released PROVE ReleasedIsWhole
    BY DEF ReleasedIsWhole, Released
  <2>1. solver = AllOfInput
    BY DEF RInv, SolverSoFar, SolverWritten
  <2>2. leak = [release |-> release, passed |-> LeakCheck(solver)]
    BY <2>1 DEF RInv, VerdictOfRelease
  <2>3. PICK x \in BOOLEAN : evaluator = OfInput(leak, x)
    BY DEF RInv, EvaluatorSoFar
  <2>4. [evaluator EXCEPT !.runs = FALSE] = OfInput(leak, FALSE)
    <3> DEFINE e == [evaluator EXCEPT !.runs = FALSE]
    <3>1. e = [evaluator EXCEPT !.runs = FALSE]
      OBVIOUS
    <3> HIDE DEF e
    <3>2. e = OfInput(leak, FALSE)
      BY <2>3, <3>1, RunsForgotten DEF OfInput
    <3> QED
      BY <3>1, <3>2
  <2>5. manifest = [release |-> release, passed |-> leak.passed, tests |-> input.tests,
                    hash |-> [solver |-> AllOfInput, evaluator |-> OfInput(leak, FALSE)]]
    BY DEF RInv, ManifestOfRelease
  <2>6. manifest = emanifest /\ manifest.release = release
    BY <2>5 DEF RInv, EvaluatorManifest
  <2>7. [evaluator EXCEPT !.runs = FALSE] =
          [tests |-> input.tests, reports |-> input.reports,
           program |-> input.program, task |-> input.repo,
           leak |-> [release |-> release, passed |-> LeakCheck(solver)],
           listed |-> TRUE, runs |-> FALSE]
    BY <2>2, <2>4 DEF OfInput, Parts
  <2> QED
    BY <2>1, <2>6, <2>7 DEF ReleasedIsWhole, AllOfInput
<1> QED
  BY <1>1, ReleaseInvariant, PTL

\* The package hash is that of what lies beside the manifest, unless an
\* evaluation wrote there or a later release died.
THEOREM HashesAreCurrent == Spec => []HashIsCurrent
<1>1. RInv => HashIsCurrent
  <2> SUFFICES ASSUME RInv, phase = "idle", manifest # None, manifest.hash # Content,
                      ~(dead[release] # None)
               PROVE  evaluator.runs
    BY DEF HashIsCurrent
  <2>1. Released
    BY DEF RInv, ReleasesEnd
  <2>2. manifest.hash = [solver |-> AllOfInput, evaluator |-> OfInput(leak, FALSE)]
    <3>1. manifest = [release |-> release, passed |-> leak.passed, tests |-> input.tests,
                      hash |-> [solver |-> AllOfInput, evaluator |-> OfInput(leak, FALSE)]]
      BY <2>1 DEF RInv, ManifestOfRelease
    <3> QED
      BY <3>1
  <2>3. solver = AllOfInput
    BY <2>1 DEF RInv, SolverSoFar, SolverWritten
  <2>4. PICK x \in BOOLEAN : evaluator = OfInput(leak, x)
    BY <2>1 DEF RInv, EvaluatorSoFar
  <2>5. x # FALSE
    BY <2>2, <2>3, <2>4 DEF Content
  <2>6. x = TRUE
    BY <2>5
  <2> QED
    BY <2>4, <2>6 DEF OfInput, Parts
<1> QED
  BY <1>1, ReleaseInvariant, PTL

\* A manifest that says the leak check passed lies beside a solver package
\* without findings.
THEOREM VerdictsAreCurrent == Spec => []VerdictIsCurrent
<1>1. RInv => VerdictIsCurrent
  <2> SUFFICES ASSUME RInv, phase = "idle", manifest # None, manifest.passed, ~LeakCheck(solver),
                      ~(dead[release] # None)
               PROVE  FALSE
    BY DEF VerdictIsCurrent
  <2>1. Released
    BY DEF RInv, ReleasesEnd
  <2>2. solver = AllOfInput /\ leak = [release |-> release, passed |-> LeakCheck(AllOfInput)]
    BY <2>1 DEF RInv, SolverSoFar, SolverWritten, VerdictOfRelease
  <2>3. manifest = [release |-> release, passed |-> leak.passed, tests |-> input.tests,
                    hash |-> [solver |-> AllOfInput, evaluator |-> OfInput(leak, FALSE)]]
    BY <2>1 DEF RInv, ManifestOfRelease
  <2>4. manifest.passed = leak.passed /\ leak.passed = LeakCheck(solver)
    BY <2>2, <2>3
  <2> QED
    BY <2>4
<1> QED
  BY <1>1, ReleaseInvariant, PTL

\* The two release manifests never differ.
THEOREM ManifestsAlwaysAgree == Spec => []ManifestsAgree
  BY ReleaseInvariant, PTL DEF RInv

\* A manifest stays true of hash, verdict and copy, but for what an evaluation
\* writes or a later release that died leaves (task_packager.py:47-183).
THEOREM ManifestsAreCurrent == Spec => []ManifestIsCurrent
<1>1. HashIsCurrent /\ VerdictIsCurrent /\ ManifestsAgree => ManifestIsCurrent
  BY DEF ManifestIsCurrent
<1> QED
  BY <1>1, HashesAreCurrent, VerdictsAreCurrent, ManifestsAlwaysAgree, PTL
-----------------------------------------------------------------------------
(* What an evaluation finds, and what the packages may hold.               *)

\* The tests are those a manifest beside them counts, or complete ones if
\* there is a task.yaml and no manifest.
TestsAreWhole ==
  /\ emanifest # None => evaluator.tests = emanifest.tests
  /\ emanifest = None /\ evaluator.task # None => evaluator.tests \in Versions

\* As Torn, of the first n releases.
TornUpTo(n) ==
  \E r \in 1 .. n :
    /\ dead[r] = "remove evaluator"
    /\ \A q \in r + 1 .. n : dead[q] = "remove solver"

\* A release has not yet touched the evaluator package.
Untouched == phase \in {"remove solver", "remove evaluator"}

EvaluatorType ==
  [tests : Versions \cup {None, Partial}, reports : Versions \cup {None},
   leak : Verdicts \cup {None}, program : Versions \cup {None},
   task : Repos \cup {None}, listed : BOOLEAN, runs : BOOLEAN]

TaskType ==
  /\ version \in Versions /\ repo \in Repos /\ tests \in Versions /\ reports \in Versions
  /\ program \in Versions \cup {None} /\ input.tests \in Versions

PackageType ==
  /\ leak \in Verdicts \cup {None}
  /\ evaluator \in EvaluatorType
  /\ phase # "idle" => release \in 1 .. MaxReleases
  /\ outcome \in {"none", "released", "raised", "killed"}

PInv ==
  /\ TaskType
  /\ PackageType
  /\ ~Untouched => TestsAreWhole \/ TornUpTo(release)
  /\ Untouched => TestsAreWhole \/ TornUpTo(release - 1)
  /\ NoSourceIsReleased
  /\ EvaluatedTestsAreComplete

\* One part of the package is replaced.
LEMMA PartReplaced ==
  ASSUME NEW e \in EvaluatorType
  PROVE  /\ \A v \in Versions \cup {None, Partial} : [e EXCEPT !.tests = v] \in EvaluatorType
         /\ \A v \in Versions \cup {None} : [e EXCEPT !.program = v] \in EvaluatorType
         /\ \A v \in Repos \cup {None} : [e EXCEPT !.task = v] \in EvaluatorType
         /\ \A v \in Verdicts \cup {None} : [e EXCEPT !.leak = v] \in EvaluatorType
         /\ [e EXCEPT !.listed = TRUE] \in EvaluatorType
         /\ [e EXCEPT !.runs = TRUE] \in EvaluatorType
  BY DEF EvaluatorType

\* The reports and the verdict are placed together.
LEMMA ReportsReplaced ==
  ASSUME NEW e \in EvaluatorType, NEW v \in Versions, NEW w \in Verdicts \cup {None}
  PROVE  [e EXCEPT !.reports = v, !.leak = w] \in EvaluatorType
  BY DEF EvaluatorType

LEMMA NoEvaluatorType == NoEvaluator \in EvaluatorType
  BY DEF NoEvaluator, EvaluatorType

\* Some of the parts are gone.
LEMMA PartsRemoved ==
  ASSUME NEW e \in EvaluatorType, NEW parts
  PROVE  [p \in DOMAIN e |-> IF p \in parts THEN NoEvaluator[p] ELSE e[p]] \in EvaluatorType
  BY DEF EvaluatorType, NoEvaluator

LEMMA TaskSteps == ASSUME TaskType, [Next]_vars PROVE TaskType'
<1>1. CASE Construct
  <2>1. version' \in Versions
    BY <1>1, ReleaseAssumption DEF Construct, TaskType, Versions
  <2>2. /\ repo' \in Repos /\ reports' = version' /\ tests' \in {tests, version'}
        /\ program' \in {program, version'} /\ input' = input
    BY <1>1 DEF Construct
  <2> QED
    BY <2>1, <2>2 DEF TaskType
<1>2. CASE Start
  <2>1. UNCHANGED taskVars /\ input' = Task
    BY <1>2 DEF Start
  <2>2. input'.tests = tests
    BY <2>1 DEF Task
  <2> QED
    BY <2>1, <2>2 DEF TaskType, taskVars
<1>3. CASE ~Construct /\ ~Start
  <2>1. UNCHANGED <<taskVars, input>>
    BY <1>3 DEF Next, Release, RemoveSolver, RemoveEvaluator, CopyDocs,
       CopyDeclaredAssets, WriteOwnFiles, Place, CopyTests, EndTests, CopyReports,
       CopyProgram, Put, Step, ProgramMissing, WriteTask, ListEvaluator, RunLeakCheck,
       CopyVerdict, WriteManifest, WriteEvaluatorManifest, Kill, EvaluateManifest,
       EvaluateDirectory, Evaluate, vars
  <2> QED
    BY <2>1 DEF TaskType, taskVars
<1> QED
  BY <1>1, <1>2, <1>3

\* What a step may make of the evaluator package.
LEMMA EvaluatorSteps ==
  ASSUME TaskType, PackageType, [Next]_vars
  PROVE  evaluator' \in EvaluatorType
<1> evaluator \in EvaluatorType /\ reports \in Versions /\ leak \in Verdicts \cup {None}
  BY DEF TaskType, PackageType
<1>1. CASE CopyTests \/ EndTests
  BY <1>1, PartReplaced DEF CopyTests, EndTests, Put, TaskType
<1>2. CASE CopyReports \/ CopyVerdict
  <2>1. \/ evaluator' = [evaluator EXCEPT !.reports = reports, !.leak = leak]
        \/ evaluator' = [evaluator EXCEPT !.leak = leak]
    BY <1>2 DEF CopyReports, CopyVerdict, Put
  <2>2. [evaluator EXCEPT !.leak = leak] \in EvaluatorType
    BY PartReplaced
  <2>3. [evaluator EXCEPT !.reports = reports, !.leak = leak] \in EvaluatorType
    BY ReportsReplaced
  <2> QED
    BY <2>1, <2>2, <2>3
<1>3. CASE CopyProgram \/ WriteTask \/ ListEvaluator
  BY <1>3, PartReplaced DEF CopyProgram, WriteTask, ListEvaluator, Put, TaskType
<1>4. CASE EvaluateManifest \/ EvaluateDirectory
  BY <1>4, PartReplaced DEF EvaluateManifest, EvaluateDirectory, Evaluate
<1>5. CASE RemoveEvaluator
  BY <1>5, NoEvaluatorType DEF RemoveEvaluator
<1>6. CASE Kill
  <2>1. \/ evaluator' = evaluator
        \/ \E parts : evaluator' = [p \in DOMAIN evaluator |->
                          IF p \in parts THEN NoEvaluator[p] ELSE evaluator[p]]
    BY <1>6 DEF Kill
  <2>2. evaluator \in EvaluatorType
    OBVIOUS
  <2>3. \A parts : [p \in DOMAIN evaluator |->
                     IF p \in parts THEN NoEvaluator[p] ELSE evaluator[p]] \in EvaluatorType
    BY <2>2, PartsRemoved
  <2>4. CASE evaluator' = evaluator
    BY <2>2, <2>4
  <2>5. CASE evaluator' # evaluator
    <3>1. PICK parts : evaluator' = [p \in DOMAIN evaluator |->
                          IF p \in parts THEN NoEvaluator[p] ELSE evaluator[p]]
      BY <2>1, <2>5
    <3>2. [p \in DOMAIN evaluator |->
             IF p \in parts THEN NoEvaluator[p] ELSE evaluator[p]] \in EvaluatorType
      BY <2>3
    <3> QED
      BY <3>1, <3>2, Zenon
  <2> QED
    BY <2>4, <2>5
<1>7. CASE UNCHANGED evaluator
  BY <1>7
<1> QED
  BY <1>1, <1>2, <1>3, <1>4, <1>5, <1>6, <1>7 DEF Next, Construct, Start, Release,
     RemoveSolver, CopyDocs, CopyDeclaredAssets, WriteOwnFiles, Place, ProgramMissing,
     RunLeakCheck, WriteManifest, WriteEvaluatorManifest, packages, vars

LEMMA PackageSteps ==
  ASSUME RInv, TaskType, PackageType, [Next]_vars
  PROVE  PackageType'
<1>1. leak' \in Verdicts \cup {None}
  <2>1. CASE RunLeakCheck
    <3>1. release \in 1 .. MaxReleases
      BY <2>1 DEF RunLeakCheck, Step, PackageType
    <3>2. LeakCheck(solver) \in BOOLEAN
      BY DEF LeakCheck
    <3> QED
      BY <2>1, <3>1, <3>2 DEF RunLeakCheck, Verdicts
  <2>2. CASE UNCHANGED leak
    BY <2>2 DEF PackageType
  <2> QED
    BY <2>1, <2>2 DEF Next, Construct, Start, Release, RemoveSolver, RemoveEvaluator,
       CopyDocs, CopyDeclaredAssets, WriteOwnFiles, Place, CopyTests, EndTests, CopyReports,
       CopyProgram, Put, ProgramMissing, WriteTask, ListEvaluator, CopyVerdict,
       WriteManifest, WriteEvaluatorManifest, Kill, EvaluateManifest, EvaluateDirectory,
       Evaluate, packages, vars
<1>2. phase' # "idle" => release' \in 1 .. MaxReleases
  <2>1. CASE Start
    <3>1. release \in 0 .. MaxReleases
      BY DEF RInv, ReleasesEnd
    <3>2. release < MaxReleases /\ release' = release + 1
      BY <2>1 DEF Start
    <3> QED
      BY <3>1, <3>2, ReleasesAreNumbered
  <2>2. CASE phase' = "idle"
    BY <2>2
  <2>3. CASE phase # "idle" /\ release' = release
    BY <2>3 DEF PackageType
  <2> QED
    BY <2>1, <2>2, <2>3 DEF Next, Construct, Release, RemoveSolver, RemoveEvaluator,
       CopyDocs, CopyDeclaredAssets, WriteOwnFiles, Place, CopyTests, EndTests, CopyReports,
       CopyProgram, Put, Step, ProgramMissing, WriteTask, ListEvaluator, RunLeakCheck,
       CopyVerdict, WriteManifest, WriteEvaluatorManifest, Kill, End, EvaluateManifest,
       EvaluateDirectory, Evaluate, vars
<1>3. outcome' \in {outcome, "none", "released", "raised", "killed"}
  BY DEF Next, Construct, Start, Release, RemoveSolver, RemoveEvaluator,
     CopyDocs, CopyDeclaredAssets, WriteOwnFiles, Place, CopyTests, EndTests, CopyReports,
     CopyProgram, Put, ProgramMissing, WriteTask, ListEvaluator, RunLeakCheck,
     CopyVerdict, WriteManifest, WriteEvaluatorManifest, Kill, End, EvaluateManifest,
     EvaluateDirectory, Evaluate, vars
<1> QED
  BY <1>1, <1>2, <1>3, EvaluatorSteps DEF PackageType

\* While a release writes the packages there is no task.yaml without tests,
\* and when it has returned they are those its manifest counts.
LEMMA WholeInRelease ==
  ASSUME RInv, TaskType, phase \notin {"idle", "remove solver", "remove evaluator"}
  PROVE  TestsAreWhole
<1>1. emanifest = None
  BY DEF RInv, EvaluatorManifest
<1>2. input.tests \in Versions
  BY DEF RInv, InputIsTask, Task, TaskType
<1>3. evaluator.task # None => evaluator.tests = input.tests
  <2>1. CASE phase \in {"docs", "assets", "own files", "copy tests"}
    <3>1. evaluator = NoEvaluator
      BY <2>1 DEF RInv, EvaluatorSoFar
    <3> QED
      BY <3>1 DEF NoEvaluator
  <2>2. CASE phase \in {"end tests", "copy reports"}
    <3>1. PICK t : evaluator = Parts(t, None, None, None, None, FALSE, FALSE)
      BY <2>2 DEF RInv, EvaluatorSoFar
    <3> QED
      BY <3>1 DEF Parts
  <2>3. CASE phase \in {"copy program", "task", "list"}
    <3>1. PICK l, p, k : evaluator = Parts(input.tests, input.reports, l, p, k, FALSE, FALSE)
      BY <2>3 DEF RInv, EvaluatorSoFar
    <3> QED
      BY <3>1 DEF Parts
  <2>4. CASE phase \in {"check", "copy check", "manifest", "evaluator manifest"}
    <3>1. PICK l : evaluator = OfInput(l, FALSE)
      BY <2>4 DEF RInv, EvaluatorSoFar
    <3> QED
      BY <3>1 DEF OfInput, Parts
  <2> QED
    BY <2>1, <2>2, <2>3, <2>4 DEF RInv, ReleasesEnd, Phases
<1> QED
  BY <1>1, <1>2, <1>3 DEF TestsAreWhole

LEMMA WholeAfterRelease ==
  ASSUME RInv, Released, input.tests \in Versions
  PROVE  TestsAreWhole
<1>1. evaluator.tests = input.tests
  <2>1. PICK x \in BOOLEAN : evaluator = OfInput(leak, x)
    BY DEF RInv, EvaluatorSoFar
  <2> QED
    BY <2>1 DEF OfInput, Parts
<1>2. manifest.tests = input.tests /\ emanifest = manifest
  <2>1. manifest = [release |-> release, passed |-> leak.passed, tests |-> input.tests,
                    hash |-> [solver |-> AllOfInput, evaluator |-> OfInput(leak, FALSE)]]
    BY DEF RInv, ManifestOfRelease
  <2>2. emanifest = manifest
    BY DEF RInv, EvaluatorManifest
  <2> QED
    BY <2>1, <2>2
<1> QED
  BY <1>1, <1>2 DEF TestsAreWhole
LEMMA WholeInNext ==
  /\ (RInv /\ TaskType /\ phase \notin {"idle", "remove solver", "remove evaluator"})'
       => TestsAreWhole'
  /\ (RInv /\ Released /\ input.tests \in Versions)' => TestsAreWhole'
<1>1. RInv /\ TaskType /\ phase \notin {"idle", "remove solver", "remove evaluator"}
        => TestsAreWhole
  BY WholeInRelease
<1>2. RInv /\ Released /\ input.tests \in Versions => TestsAreWhole
  BY WholeAfterRelease
<1> QED
  BY <1>1, <1>2, PTL

\* A kill in the removal of the solver package leaves the evaluator package as
\* torn as it was; one in the removal of the evaluator package tears it.
LEMMA KillsTear ==
  ASSUME RInv, PackageType, Kill, Untouched
  PROVE  /\ phase = "remove solver" /\ TornUpTo(release - 1) => TornUpTo(release)'
         /\ phase = "remove evaluator" => TornUpTo(release)'
<1>1. /\ release \in 1 .. MaxReleases /\ MaxReleases \in Nat
      /\ dead \in [0 .. MaxReleases -> Phases \cup {None}]
  BY ReleasesAreNumbered DEF PackageType, Untouched, RInv, ReleasesEnd
<1>2. dead' = [dead EXCEPT ![release] = phase] /\ release' = release
  BY DEF Kill
<1>3. /\ release \in 0 .. MaxReleases /\ dead'[release] = phase
      /\ \A q \in 0 .. MaxReleases : q # release => dead'[q] = dead[q]
  BY <1>1, <1>2
<1>4. ASSUME phase = "remove solver", TornUpTo(release - 1) PROVE TornUpTo(release)'
  <2>1. PICK r \in 1 .. release - 1 :
          /\ dead[r] = "remove evaluator"
          /\ \A q \in r + 1 .. release - 1 : dead[q] = "remove solver"
    BY <1>4 DEF TornUpTo
  <2>2. r \in 1 .. release /\ dead'[r] = "remove evaluator"
    <3>1. r \in 1 .. release /\ r \in 0 .. MaxReleases /\ r # release
      <4>1. r \in 1 .. release - 1 /\ release \in 1 .. MaxReleases /\ MaxReleases \in Nat
        BY <1>1, <2>1
      <4> QED
        BY <4>1
    <3> QED
      BY <3>1, <1>3, <2>1
  <2>3. ASSUME NEW q \in r + 1 .. release PROVE dead'[q] = "remove solver"
    <3>1. CASE q = release
      BY <3>1, <1>3, <1>4
    <3>2. CASE q # release
      <4>1. q \in r + 1 .. release /\ r \in 1 .. release /\ release \in 1 .. MaxReleases
        BY <1>1, <2>2
      <4>2. q \in r + 1 .. release - 1 /\ q \in 0 .. MaxReleases
        BY <4>1, <3>2, ReleasesAreNumbered
      <4> QED
        BY <4>2, <3>2, <1>3, <2>1
    <3> QED
      BY <3>1, <3>2
  <2>4. \A q \in r + 1 .. release' : dead'[q] = "remove solver"
    BY <1>2, <2>3, Zenon
  <2>5. r \in 1 .. release' /\ dead'[r] = "remove evaluator"
    BY <1>2, <2>2
  <2> QED
    BY <2>4, <2>5, Zenon DEF TornUpTo
<1>5. ASSUME phase = "remove evaluator" PROVE TornUpTo(release)'
  <2>1. release \in 1 .. release /\ dead'[release] = "remove evaluator"
    <3>1. release \in 1 .. MaxReleases /\ MaxReleases \in Nat
      BY <1>1
    <3>2. release \in 1 .. release
      BY <3>1
    <3> QED
      BY <3>2, <1>3, <1>5
  <2>2. release + 1 .. release = {}
    BY <1>1
  <2> QED
    BY <1>2, <2>1, <2>2 DEF TornUpTo
<1> QED
  BY <1>4, <1>5

\* A package is whole or torn: between releases, during one, after each.
LEMMA TestsSteps ==
  ASSUME RInv, PInv, [Next]_vars, RInv', TaskType'
  PROVE  /\ (~Untouched => TestsAreWhole \/ TornUpTo(release))'
         /\ (Untouched => TestsAreWhole \/ TornUpTo(release - 1))'
<1> DEFINE Good == /\ ~Untouched => TestsAreWhole \/ TornUpTo(release)
                   /\ Untouched => TestsAreWhole \/ TornUpTo(release - 1)
<1> SUFFICES Good'
  OBVIOUS
<1>1. CASE phase' \notin {"idle", "remove solver", "remove evaluator"}
  BY <1>1, WholeInNext DEF Untouched
<1>2. CASE \/ Construct \/ EvaluateManifest \/ EvaluateDirectory \/ UNCHANGED vars
  <2>1. /\ UNCHANGED <<phase, release, dead, emanifest>>
        /\ evaluator'.tests = evaluator.tests /\ evaluator'.task = evaluator.task
    <3>1. /\ UNCHANGED <<phase, release, dead, emanifest>>
          /\ evaluator' = evaluator \/ evaluator' = [evaluator EXCEPT !.runs = TRUE]
      BY <1>2 DEF Construct, EvaluateManifest, EvaluateDirectory, Evaluate, packages, vars
    <3>2. evaluator \in EvaluatorType
      BY DEF PInv, PackageType
    <3> QED
      BY <3>1, <3>2 DEF EvaluatorType
  <2>2. TestsAreWhole' = TestsAreWhole /\ Untouched' = Untouched
    BY <2>1 DEF TestsAreWhole, Untouched, Versions
  <2>3. TornUpTo(release)' = TornUpTo(release) /\ TornUpTo(release - 1)' = TornUpTo(release - 1)
    BY <2>1 DEF TornUpTo
  <2> QED
    BY <2>2, <2>3 DEF PInv
<1>3. CASE Start
  <2>1. /\ phase = "idle" /\ phase' = "remove solver" /\ release' = release + 1
        /\ UNCHANGED <<evaluator, emanifest, dead>>
    BY <1>3 DEF Start, packages
  <2>2. TestsAreWhole' = TestsAreWhole
    BY <2>1 DEF TestsAreWhole, Versions
  <2>3. TornUpTo(release - 1)' = TornUpTo(release)
    <3>1. release \in 0 .. MaxReleases
      BY DEF RInv, ReleasesEnd
    <3>2. release \in Nat
      BY <3>1, ReleasesAreNumbered
    <3>4. release' = release + 1
      BY <2>1
    <3>3. release' - 1 = release
      BY <3>2, <3>4
    <3> QED
      BY <3>3, <2>1, Zenon DEF TornUpTo
  <2> QED
    BY <2>1, <2>2, <2>3 DEF PInv, Untouched
<1>4. CASE RemoveSolver
  <2>1. /\ phase = "remove solver" /\ phase' = "remove evaluator"
        /\ UNCHANGED <<evaluator, emanifest, release, dead>>
    BY <1>4 DEF RemoveSolver, Step
  <2>2. TestsAreWhole' = TestsAreWhole /\ TornUpTo(release - 1)' = TornUpTo(release - 1)
    BY <2>1 DEF TestsAreWhole, TornUpTo, Versions
  <2> QED
    BY <2>1, <2>2 DEF PInv, Untouched
<1>5. CASE WriteEvaluatorManifest
  <2>1. Released' /\ ~Untouched'
    BY <1>5 DEF WriteEvaluatorManifest, End, Released, Untouched
  <2> QED
    BY <2>1, WholeInNext DEF TaskType
<1>6. CASE (ProgramMissing \/ Kill) /\ ~Untouched
  <2>1. /\ phase' = "idle" /\ UNCHANGED <<evaluator, emanifest>> /\ phase # "idle"
    BY <1>6 DEF ProgramMissing, Kill, End, Untouched, packages
  <2>2. TestsAreWhole
    BY <1>6, <2>1, WholeInRelease DEF Untouched, PInv
  <2>3. TestsAreWhole'
    BY <2>1, <2>2 DEF TestsAreWhole, Versions
  <2> QED
    BY <2>1, <2>3 DEF Untouched
<1>7. CASE (ProgramMissing \/ Kill) /\ Untouched
  <2>1. Kill /\ PackageType
    BY <1>7 DEF ProgramMissing, Untouched, PInv
  <2>2. phase' = "idle"
    BY <2>1 DEF Kill, End
  <2>3. phase = "remove evaluator" => TornUpTo(release)'
    BY <1>7, <2>1, KillsTear
  <2>4. phase = "remove solver" => TestsAreWhole' \/ TornUpTo(release)'
    <3>1. phase = "remove solver" => UNCHANGED <<evaluator, emanifest>>
      BY <2>1 DEF Kill
    <3>2. phase = "remove solver" /\ TestsAreWhole => TestsAreWhole'
      BY <3>1 DEF TestsAreWhole, Versions
    <3> QED
      BY <3>2, <1>7, <2>1, KillsTear DEF PInv
  <2> QED
    BY <1>7, <2>2, <2>3, <2>4 DEF Untouched
<1>8. \/ phase' \notin {"idle", "remove solver", "remove evaluator"}
      \/ Construct \/ EvaluateManifest \/ EvaluateDirectory \/ UNCHANGED vars
      \/ Start \/ RemoveSolver \/ WriteEvaluatorManifest \/ ProgramMissing \/ Kill
  BY DEF Next, Release, RemoveEvaluator, CopyDocs, CopyDeclaredAssets, WriteOwnFiles, Place,
     CopyTests, EndTests, CopyReports, CopyProgram, Put, Step, WriteTask, ListEvaluator,
     RunLeakCheck, CopyVerdict, WriteManifest
<1> QED
  BY <1>1, <1>2, <1>3, <1>4, <1>5, <1>6, <1>7, <1>8
LEMMA OwnSuffix ==
  ASSUME NEW name, NEW suffix, NEW text
  PROVE  Static(name, suffix, text).file.suffix = suffix
  BY DEF Static

\* What the filters let through, and what package_cleanroom writes itself, is
\* no source.
LEMMA NothingPlacedIsSource ==
  ASSUME NEW r,
         NEW p \in CopyPublicDocs(r) \cup CopyAssets(r)
                     \cup (Instructions \cup {SolverVisibleTaskSpec(r), SolverManifest})
  PROVE  p.file.suffix # "py"
<1>1. CASE p \in CopyPublicDocs(r)
  <2>1. p.file \in {f \in r : ~ExcludedPublicDoc(f)}
    BY <1>1 DEF CopyPublicDocs
  <2> QED
    BY <2>1 DEF ExcludedPublicDoc
<1>2. CASE p \in CopyAssets(r)
  <2>1. AssetAllowed(p.file)
    BY <1>2 DEF CopyAssets
  <2> QED
    BY <2>1 DEF AssetAllowed
<1>3. CASE p \in Instructions \cup {SolverVisibleTaskSpec(r), SolverManifest}
  <2>1. CASE p = SolverVisibleTaskSpec(r)
    <3>1. PICK text : p = Static("task", "yaml", text)
      BY <2>1, Zenon DEF SolverVisibleTaskSpec
    <3> QED
      BY <3>1, OwnSuffix
  <2>2. CASE p \in Instructions \cup {SolverManifest}
    BY <2>2, OwnSuffix DEF Instructions, SolverManifest
  <2> QED
    BY <1>3, <2>1, <2>2
<1> QED
  BY <1>1, <1>2, <1>3

LEMMA SourceSteps ==
  ASSUME NoSourceIsReleased, [Next]_vars
  PROVE  NoSourceIsReleased'
<1>1. CASE CopyDocs \/ CopyDeclaredAssets \/ WriteOwnFiles
  <2>1. solver' \subseteq solver \cup (CopyPublicDocs(repo) \cup CopyAssets(repo)
                      \cup (Instructions \cup {SolverVisibleTaskSpec(repo), SolverManifest}))
    BY <1>1 DEF CopyDocs, CopyDeclaredAssets, WriteOwnFiles, Place
  <2> QED
    BY <2>1, NothingPlacedIsSource DEF NoSourceIsReleased
<1>2. CASE solver' \subseteq solver
  BY <1>2 DEF NoSourceIsReleased
<1>3. CASE RemoveSolver \/ Kill
  BY <1>2, <1>3 DEF RemoveSolver, Kill
<1>4. CASE UNCHANGED solver
  BY <1>2, <1>4
<1> QED
  BY <1>1, <1>3, <1>4, Zenon DEF Next, Construct, Start, Release, RemoveEvaluator, CopyTests,
     EndTests, CopyReports, CopyProgram, Put, ProgramMissing, WriteTask, ListEvaluator,
     RunLeakCheck, CopyVerdict, WriteManifest, WriteEvaluatorManifest,
     EvaluateManifest, EvaluateDirectory, Evaluate, packages, vars

\* What an evaluation finds.
LEMMA SeenSteps ==
  ASSUME RInv, PInv, [Next]_vars
  PROVE  EvaluatedTestsAreComplete'
<1>1. CASE UNCHANGED seen
  BY <1>1 DEF PInv, EvaluatedTestsAreComplete, Versions
<1>2. CASE EvaluateManifest
  <2>1. /\ phase = "idle" /\ manifest # None
        /\ seen'.by = "manifest" /\ seen'.tests = evaluator.tests
        /\ seen'.died = dead[release] /\ seen'.promised = manifest.tests
    BY <1>2 DEF EvaluateManifest, Evaluate
  <2>2. CASE dead[release] # None
    BY <2>1, <2>2 DEF EvaluatedTestsAreComplete
  <2>3. CASE Released
    <3>1. PICK x \in BOOLEAN : evaluator = OfInput(leak, x)
      BY <2>3 DEF RInv, EvaluatorSoFar
    <3>2. evaluator.tests = input.tests
      BY <3>1 DEF OfInput, Parts
    <3>3. manifest = [release |-> release, passed |-> leak.passed, tests |-> input.tests,
                      hash |-> [solver |-> AllOfInput, evaluator |-> OfInput(leak, FALSE)]]
      BY <2>3 DEF RInv, ManifestOfRelease
    <3>4. manifest.tests = input.tests
      BY <3>3
    <3> QED
      BY <2>1, <3>2, <3>4 DEF EvaluatedTestsAreComplete
  <2> QED
    BY <2>1, <2>2, <2>3 DEF RInv, ReleasesEnd
<1>3. CASE EvaluateDirectory
  <2>1. /\ phase = "idle" /\ (emanifest # None \/ evaluator.task # None)
        /\ seen'.tests = evaluator.tests /\ seen'.torn = Torn
        /\ seen'.promised = IF emanifest = None THEN None ELSE emanifest.tests
    BY <1>3 DEF EvaluateDirectory, Evaluate
  <2>2. TestsAreWhole \/ TornUpTo(release)
    BY <1>3 DEF EvaluateDirectory, Evaluate, PInv, Untouched
  <2>3. CASE TornUpTo(release)
    BY <2>1, <2>3 DEF TornUpTo, Torn, EvaluatedTestsAreComplete
  <2>4. CASE TestsAreWhole
    BY <2>1, <2>4 DEF TestsAreWhole, EvaluatedTestsAreComplete, Versions
  <2> QED
    BY <2>2, <2>3, <2>4
<1> QED
  BY <1>1, <1>2, <1>3 DEF Next, Construct, Start, Release, RemoveSolver, RemoveEvaluator,
     CopyDocs, CopyDeclaredAssets, WriteOwnFiles, Place, CopyTests, EndTests, CopyReports,
     CopyProgram, Put, Step, ProgramMissing, WriteTask, ListEvaluator, RunLeakCheck,
     CopyVerdict, WriteManifest, WriteEvaluatorManifest, Kill, vars

LEMMA PackagesStart == Init => PInv
<1> SUFFICES ASSUME Init PROVE PInv
  OBVIOUS
<1>1. 0 \in Versions
  BY ReleaseAssumption DEF Versions
<1>2. /\ version = 0 /\ repo \in Repos /\ tests = 0 /\ reports = 0 /\ program \in {None, 0}
      /\ input = Task /\ leak = None /\ solver = {} /\ evaluator = NoEvaluator
      /\ emanifest = None /\ phase = "idle" /\ outcome = "none" /\ seen = None
  BY DEF Init
<1>3. TaskType
  BY <1>1, <1>2 DEF TaskType, Task
<1>4. PackageType
  BY <1>2, NoEvaluatorType DEF PackageType
<1>5. TestsAreWhole /\ ~Untouched
  BY <1>2 DEF TestsAreWhole, NoEvaluator, Untouched
<1> QED
  BY <1>2, <1>3, <1>4, <1>5 DEF PInv, NoSourceIsReleased, EvaluatedTestsAreComplete

LEMMA PackagesStep == ASSUME RInv, PInv, [Next]_vars PROVE PInv'
<1>1. TaskType' /\ PackageType'
  BY TaskSteps, PackageSteps DEF PInv
<1>2. RInv'
  BY ReleaseSteps
<1>3. NoSourceIsReleased' /\ EvaluatedTestsAreComplete'
  BY SourceSteps, SeenSteps DEF PInv
<1> QED
  BY <1>1, <1>2, <1>3, TestsSteps DEF PInv

\* The tests in an evaluator package are whole, or the package is torn, and
\* the parts of both packages are what a release of some task puts there.
THEOREM PackagesInvariant == Spec => []PInv
<1>1. RInv /\ PInv /\ [Next]_vars => PInv'
  BY PackagesStep
<1> QED
  BY <1>1, PackagesStart, ReleaseInvariant, PTL DEF Spec

\* Whatever releases were killed, an evaluation finds the tests its manifest
\* counts, unless it follows the manifest file after a release that died or
\* finds a package whose removal was cut short.
THEOREM TestsAreComplete == Spec => []EvaluatedTestsAreComplete
  BY PackagesInvariant, PTL DEF PInv

\* Well-formed packages, and no source file for the solver, for any
\* repositories.
THEOREM CleanPackages == Spec => []PackagesAreClean
<1>1. RInv /\ PInv => PackagesAreClean
  <2> SUFFICES ASSUME RInv, PInv PROVE TypeOK
    BY DEF PackagesAreClean, PInv
  <2>1. evaluator \in EvaluatorType
    BY DEF PInv, PackageType
  <2>2. /\ evaluator.tests \in Versions \cup {None, Partial}
        /\ evaluator.reports \in Versions \cup {None}
        /\ evaluator.leak \in Verdicts \cup {None}
        /\ evaluator.program \in Versions \cup {None}
        /\ evaluator.task \in Repos \cup {None}
    BY <2>1 DEF EvaluatorType
  <2> QED
    BY <2>2 DEF TypeOK, PInv, TaskType, PackageType, RInv, ReleasesEnd
<1> QED
  BY <1>1, PackagesInvariant, ReleaseInvariant, PTL
=============================================================================

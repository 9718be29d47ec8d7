---------------------------- MODULE TaskRelease ----------------------------
(***************************************************************************)
(* package_cleanroom and release_task_package: the solver and evaluator    *)
(* packages are removed and written part by part, the leak check comes     *)
(* last and only reports, the release manifest is written twice.  A        *)
(* release may be killed between any two steps and fails when there is no  *)
(* gold program; the task directory changes between releases, and an       *)
(* evaluation without an output directory writes into the package.         *)
(***************************************************************************)
EXTENDS CleanRoom

CONSTANTS
  Repos,       \* repositories a task may be about, sets of files
  MaxTasks,    \* bound on the states the task directory goes through
  MaxReleases, \* bound on the calls of release_task_package
  None         \* no such file or directory

Versions == 0 .. MaxTasks
Partial  == MaxTasks + 1   \* a tree that is not completely copied

\* The phases of a release are named for the step that comes next.
Phases == {"idle", "remove solver", "remove evaluator", "docs", "assets",
           "own files", "copy tests", "end tests", "copy reports",
           "copy program", "task", "list", "check", "copy check",
           "manifest", "evaluator manifest"}

ASSUME ReleaseAssumption ==
  /\ Repos \subseteq SUBSET Files
  /\ MaxTasks \in Nat /\ MaxReleases \in Nat
  /\ None \notin Nat \cup Phases

VARIABLES
  \* the task directory
  version,    \* how often it was rebuilt
  repo,       \* files of the repository copy, which task_spec.yaml declares
  tests,      \* version of generated_tests/
  reports,    \* version of reports/, but for the leak check report
  program,    \* version of gold/executable/program, or None
  leak,       \* reports/leak_check_report.json: its release and verdict
  \* packages/
  solver,     \* placed files of solver/, {} when it is missing
  evaluator,  \* evaluator/, each part its version or None
  manifest,   \* release_manifest.json
  emanifest,  \* evaluator/release_manifest.json
  \* the process
  phase, release, outcome,
  \* history
  input,      \* the task directory when the release began
  dead,       \* per release, the phase in which it was killed or raised
  seen        \* what the last evaluation found

taskVars == <<version, repo, tests, reports, program>>
packages == <<solver, evaluator, manifest, emanifest>>
vars     == <<taskVars, leak, packages, phase, release, outcome,
              input, dead, seen>>

Task == [repo |-> repo, tests |-> tests, reports |-> reports, program |-> program]

NoEvaluator == [tests |-> None, reports |-> None, leak |-> None,
                program |-> None, task |-> None, listed |-> FALSE, runs |-> FALSE]

Verdicts == [release : 1 .. MaxReleases, passed : BOOLEAN]
Init ==
  /\ version = 0 /\ repo \in Repos
  /\ tests = 0 /\ reports = 0 /\ program \in {None, 0}
  /\ leak = None
  /\ solver = {} /\ evaluator = NoEvaluator
  /\ manifest = None /\ emanifest = None
  /\ phase = "idle" /\ release = 0 /\ outcome = "none"
  /\ input = Task /\ dead = [r \in 0 .. MaxReleases |-> None] /\ seen = None

\* The stages before the release run again, some of them perhaps failing.
Construct ==
  /\ phase = "idle" /\ version < MaxTasks
  /\ version' = version + 1
  /\ repo' \in Repos /\ reports' = version'
  /\ tests' \in {tests, version'} /\ program' \in {program, version'}
  /\ UNCHANGED <<leak, packages, phase, release, outcome, input, dead, seen>>
-----------------------------------------------------------------------------
(* package_cleanroom                                                       *)

Start ==
  /\ phase = "idle" /\ release < MaxReleases
  /\ release' = release + 1 /\ outcome' = "none"
  /\ input' = Task
  /\ phase' = "remove solver"
  /\ UNCHANGED <<taskVars, leak, packages, dead, seen>>

\* A step of the release, which leaves the task directory alone.
Step(from, to) ==
  /\ phase = from /\ phase' = to
  /\ UNCHANGED <<taskVars, release, input, dead, seen>>

\* Mutant: the solver package is written over.
KeepSolver ==
  /\ Step("remove solver", "remove evaluator")
  /\ UNCHANGED <<leak, packages, outcome>>

RemoveSolver ==
  /\ Step("remove solver", "remove evaluator")
  /\ solver' = {}
  /\ UNCHANGED <<leak, evaluator, manifest, emanifest, outcome>>

\* The copy of the release manifest goes with the evaluator package, the one
\* beside the packages stays.
RemoveEvaluator ==
  /\ Step("remove evaluator", "docs")
  /\ evaluator' = NoEvaluator /\ emanifest' = None
  /\ UNCHANGED <<leak, solver, manifest, outcome>>

Place(from, to, placed) ==
  /\ Step(from, to)
  /\ solver' = solver \cup placed
  /\ UNCHANGED <<leak, evaluator, manifest, emanifest, outcome>>

CopyDocs == Place("docs", "assets", CopyPublicDocs(repo))
CopyDeclaredAssets == Place("assets", "own files", CopyAssets(repo))
WriteOwnFiles ==
  Place("own files", "copy tests",
        Instructions \cup {SolverVisibleTaskSpec(repo), SolverManifest})

\* A part of the evaluator package.
Put(from, to, new) ==
  /\ Step(from, to)
  /\ evaluator' = new
  /\ UNCHANGED <<leak, solver, manifest, emanifest, outcome>>

\* Mutant: task.yaml is written with the directories.
EarlyTask ==
  /\ Step("copy tests", "end tests")
  /\ evaluator' = [evaluator EXCEPT !.tests = Partial, !.task = repo]
  /\ UNCHANGED <<leak, solver, manifest, emanifest, outcome>>

CopyTests == Put("copy tests", "end tests", [evaluator EXCEPT !.tests = Partial])
EndTests  == Put("end tests", "copy reports", [evaluator EXCEPT !.tests = tests])

\* reports/ holds the leak check report of the release before.
CopyReports ==
  /\ Step("copy reports", "copy program")
  /\ evaluator' = [evaluator EXCEPT !.reports = reports, !.leak = leak]
  /\ UNCHANGED <<leak, solver, manifest, emanifest, outcome>>

CopyProgram ==
  /\ program # None
  /\ Put("copy program", "task", [evaluator EXCEPT !.program = program])

End(result) == phase' = "idle" /\ outcome' = result

\* There is no gold program: FileNotFoundError.
ProgramMissing ==
  /\ phase = "copy program" /\ program = None
  /\ End("raised") /\ dead' = [dead EXCEPT ![release] = phase]
  /\ UNCHANGED <<taskVars, leak, packages, release, input, seen>>

WriteTask     == Put("task", "list", [evaluator EXCEPT !.task = repo])
ListEvaluator == Put("list", "check", [evaluator EXCEPT !.listed = TRUE])

\* A failed check ends nothing.
RunLeakCheck ==
  /\ Step("check", "copy check")
  /\ leak' = [release |-> release, passed |-> LeakCheck(solver)]
  /\ UNCHANGED <<packages, outcome>>

CopyVerdict == Put("copy check", "manifest", [evaluator EXCEPT !.leak = leak])
-----------------------------------------------------------------------------
(* release_task_package                                                    *)

\* What the package hash covers.
Content == [solver |-> solver, evaluator |-> evaluator]

\* Mutant: the hash does not cover the leak check report.
HashBeforeVerdict ==
  [release |-> release, passed |-> leak.passed, tests |-> tests,
   hash |-> [Content EXCEPT !.evaluator.leak = None]]

NewManifest ==
  [release |-> release, passed |-> leak.passed, tests |-> tests, hash |-> Content]

WriteManifest ==
  /\ Step("manifest", "evaluator manifest")
  /\ manifest' = NewManifest
  /\ UNCHANGED <<leak, solver, evaluator, emanifest, outcome>>

WriteEvaluatorManifest ==
  /\ phase = "evaluator manifest"
  /\ emanifest' = NewManifest
  /\ End("released")
  /\ UNCHANGED <<taskVars, leak, solver, evaluator, manifest, release, input,
                 dead, seen>>
-----------------------------------------------------------------------------
(* What else happens to the packages.                                      *)

\* A kill while a package is being removed may leave any part of it.
Kill ==
  /\ phase # "idle"
  /\ End("killed") /\ dead' = [dead EXCEPT ![release] = phase]
  /\ IF phase = "remove solver" THEN solver' \in SUBSET solver
                                ELSE UNCHANGED solver
  /\ IF phase = "remove evaluator"
       THEN /\ \E parts \in SUBSET DOMAIN evaluator :
                 evaluator' = [p \in DOMAIN evaluator |->
                                 IF p \in parts THEN NoEvaluator[p] ELSE evaluator[p]]
            /\ emanifest' \in {emanifest, None}
       ELSE UNCHANGED <<evaluator, emanifest>>
  /\ UNCHANGED <<taskVars, leak, manifest, release, input, seen>>

\* The last release that touched the evaluator package was killed while it
\* removed it; those after it did not come that far.
Torn ==
  \E r \in 1 .. release :
    /\ dead[r] = "remove evaluator"
    /\ \A q \in r + 1 .. release : dead[q] = "remove solver"

\* An evaluation of a submission finds the package through the manifest file
\* or through the directory, which needs a manifest or a task.yaml, and leaves
\* its run and its reports in it.
Evaluate(by, promise) ==
  /\ phase = "idle"
  /\ seen' = [by |-> by, tests |-> evaluator.tests, died |-> dead[release], torn |-> Torn,
              promised |-> IF promise = None THEN None ELSE promise.tests]
  /\ evaluator' = [evaluator EXCEPT !.runs = TRUE]
  /\ UNCHANGED <<taskVars, leak, solver, manifest, emanifest, phase, release,
                 outcome, input, dead>>

EvaluateManifest == manifest # None /\ Evaluate("manifest", manifest)
EvaluateDirectory ==
  /\ emanifest # None \/ evaluator.task # None
  /\ Evaluate("directory", emanifest)

Release ==
  \/ RemoveSolver \/ RemoveEvaluator \/ CopyDocs \/ CopyDeclaredAssets
  \/ WriteOwnFiles \/ CopyTests \/ EndTests \/ CopyReports \/ CopyProgram
  \/ ProgramMissing \/ WriteTask \/ ListEvaluator \/ RunLeakCheck
  \/ CopyVerdict \/ WriteManifest \/ WriteEvaluatorManifest

Next ==
  Construct \/ Start \/ Release \/ Kill \/ EvaluateManifest \/ EvaluateDirectory

Spec == Init /\ [][Next]_vars
-----------------------------------------------------------------------------
TypeOK ==
  /\ version \in Versions /\ repo \in Repos
  /\ tests \in Versions /\ reports \in Versions
  /\ program \in Versions \cup {None}
  /\ leak \in Verdicts \cup {None}
  /\ evaluator.tests \in Versions \cup {None, Partial}
  /\ evaluator.reports \in Versions \cup {None}
  /\ evaluator.leak \in Verdicts \cup {None}
  /\ evaluator.program \in Versions \cup {None}
  /\ evaluator.task \in Repos \cup {None}
  /\ phase \in Phases /\ release \in 0 .. MaxReleases
  /\ phase # "idle" => release \in 1 .. MaxReleases
  /\ outcome \in {"none", "released", "raised", "killed"}
  /\ dead \in [0 .. MaxReleases -> Phases \cup {None}]

\* When release_task_package has returned, both packages are of the task as it
\* was when the release began, complete, with the verdict of this release, and
\* the two manifests are equal.
ReleasedIsWhole ==
  phase = "idle" /\ outcome = "released" =>
    /\ solver = CopyPublicDocs(input.repo) \cup CopyAssets(input.repo)
                  \cup Instructions
                  \cup {SolverVisibleTaskSpec(input.repo), SolverManifest}
    /\ [evaluator EXCEPT !.runs = FALSE] =
         [tests |-> input.tests, reports |-> input.reports,
          program |-> input.program, task |-> input.repo,
          leak |-> [release |-> release, passed |-> LeakCheck(solver)],
          listed |-> TRUE, runs |-> FALSE]
    /\ manifest = emanifest /\ manifest.release = release

\* The package hash of the manifest is that of the packages on disk, unless
\* an evaluation wrote into them or a later release did not end.
HashIsCurrent ==
  phase = "idle" /\ manifest # None /\ manifest.hash # Content =>
    evaluator.runs \/ dead[release] # None

\* A manifest that says the leak check passed lies beside a solver package
\* without findings, unless a later release did not end.
VerdictIsCurrent ==
  phase = "idle" /\ manifest # None /\ manifest.passed /\ ~LeakCheck(solver) =>
    dead[release] # None

\* The manifest in the evaluator package never differs from the one beside it.
ManifestsAgree == emanifest # None => emanifest = manifest

\* An evaluation finds the tests its manifest counts, and through a directory
\* without a manifest it finds complete ones: only after a release that did not
\* end, and through a directory only if the package was left half removed, can
\* it run without tests or with some of them.
EvaluatedTestsAreComplete ==
  seen # None =>
    \/ seen.tests = seen.promised
    \/ seen.promised = None /\ seen.tests \in Versions
    \/ seen.by = "manifest" /\ seen.died # None
    \/ seen.torn

\* No file with one of SOURCE_SUFFIXES is in the solver package, whatever the
\* repository declares; a C++ source named .cxx may be.
NoSourceIsReleased == \A p \in solver : p.file.suffix # "py"

\* A manifest stays true: of the hash, of the verdict, and of its copy
\* (task_packager.py:47-183).
ManifestIsCurrent == HashIsCurrent /\ VerdictIsCurrent /\ ManifestsAgree

\* What the packages hold is well formed, and no source is among it
\* (docs_filter.py:28-80, asset_selector.py:47-90).
PackagesAreClean == TypeOK /\ NoSourceIsReleased
=============================================================================

---------------------------- MODULE TaskPipeline ----------------------------
(***************************************************************************)
(* The commands that make a task: single stages, construct-task, run-task  *)
(* and batch-run over the artifact directories of several tasks.  Every    *)
(* stage reads what earlier stages left on disk, whoever left it, and a    *)
(* new run removes only the repository copy: gold program, tests, coverage *)
(* reports and packages of an earlier one stay until their stage replaces  *)
(* them.  A stage that raises ends the command, and the batch with it.     *)
(* The stages are modelled in detail by RepositoryAnalysis, GoldBuild,     *)
(* GenerationController, SuiteEvaluation and TaskRelease; here a stage is  *)
(* one step that succeeds, or raises and leaves what it may leave.         *)
(***************************************************************************)
EXTENDS Naturals, Sequences, FiniteSets

CONSTANTS
  Tasks,         \* task ids
  Sources,       \* states of a source repository
  Agree,         \* <<s, t>>: tests recorded on the program of s pass on t's
  Profiles,      \* task profiles
  Batches,       \* sequences of profiles a manifest may list
  MaxIterations, \* of test generation
  MaxCommands,   \* bound on the commands given
  None,          \* no such file
  Partial        \* a tree that is not complete

\* A profile names its task and source; custom is its build command, if any,
\* trusted its trusted_local, and model says that its tests are written by a
\* model that may answer with bare pytest files.
ProfileType == [task : Tasks, src : Sources, model : BOOLEAN,
                custom : {"none", "allowed", "denied"}, trusted : BOOLEAN]

Commands == {"stage", "construct", "run", "batch"}

\* A tree is named for the source it was made from.
Trees     == Sources \cup {None, Partial}
Coverages == [src : Trees, measured : BOOLEAN]
Qualities == [src : Trees, tests : SUBSET Trees, some : BOOLEAN,
              coverage : Coverages \cup {None}]
Packages  == [docs : Trees, spec : Trees, suites : BOOLEAN, tests : SUBSET Trees,
              gold : Trees, by : Commands]

ASSUME PipelineAssumption ==
  /\ Agree \subseteq Sources \X Sources
  /\ Profiles \subseteq ProfileType
  /\ Batches \subseteq Seq(Profiles)
  /\ MaxIterations \in Nat \ {0} /\ MaxCommands \in Nat
  /\ None \notin Sources /\ Partial \notin Sources /\ None # Partial
  /\ None \notin Coverages \cup Qualities \cup Packages /\ Partial \notin Packages

VARIABLES
  dir,     \* artifacts/<task id>, for each task
  command, \* the command in progress
  todo,    \* its profiles that are not finished, the current one first
  plan,    \* its stages to come
  done,    \* summaries of the finished profiles
  report,  \* the batch report
  outcome, \* how the last command ended
  count,   \* commands given
  last     \* history: the profile of the last command that returned

control == <<command, todo, plan, done, report, outcome, count, last>>
vars    == <<dir, control>>

Iterations == 0 .. MaxIterations - 1

\* Sources stand for what was made from them: gold is the source of the
\* program, tests those of the programs on which the cases of the suites were
\* recorded, bare those a model wrote the bare pytest files for: what they
\* expect no program printed.
EmptyDir ==
  [repo |-> None, spec |-> None, custom |-> FALSE, gold |-> None,
   surface |-> None, suites |-> FALSE, tests |-> {}, bare |-> {},
   coverage |-> [i \in Iterations |-> None],
   quality |-> None, summary |-> None, package |-> None]

\* What is run as the tests: bare files only where there is no suite.
UnderTest(d) == IF d.suites THEN d.tests ELSE d.bare

Profile == Head(todo)
Here    == dir[Profile.task]

Init ==
  /\ dir = [t \in Tasks |-> EmptyDir]
  /\ command = "idle" /\ todo = <<>> /\ plan = <<>>
  /\ done = <<>> /\ report = None /\ outcome = "none" /\ count = 0
  /\ last = None
-----------------------------------------------------------------------------
(* Commands.                                                               *)

Construction ==
  <<"init", "override", "build", "surface", "generate", "evaluate", "summary">>

\* Mutant: nothing is released.
WithoutRelease == Construction \o <<"summary">>

\* Mutant: a run takes the gold program that is there.
WithoutBuild ==
  <<"init", "override", "surface", "generate", "evaluate", "release", "summary">>

RunStages == Construction \o <<"release", "summary">>

Stages == {"init", "build", "surface", "generate", "evaluate", "summary", "release"}

Begin(cmd, profiles, stages) ==
  /\ command = "idle" /\ count < MaxCommands
  /\ command' = cmd /\ todo' = profiles /\ plan' = stages
  /\ done' = <<>> /\ count' = count + 1 /\ outcome' = "none"
  /\ UNCHANGED <<dir, report, last>>

StartStage == \E p \in Profiles, s \in Stages : Begin("stage", <<p>>, <<s>>)
StartConstruct == \E p \in Profiles : Begin("construct", <<p>>, Construction)
StartRun   == \E p \in Profiles : Begin("run", <<p>>, RunStages)
StartBatch == \E b \in Batches : b # <<>> /\ Begin("batch", b, RunStages)

\* The command, and with it the batch, ends without a report.
Abort ==
  /\ command' = "idle" /\ outcome' = "raised" /\ todo' = <<>> /\ plan' = <<>>
  /\ UNCHANGED <<done, report, count, last>>

Successful(summary) ==
  summary.quality # None /\ summary.quality.some /\ summary.package # None

\* Mutant: a profile without success is run again.
Retry ==
  /\ command # "idle" /\ plan = <<>> /\ Len(todo) > 1
  /\ plan' = RunStages
  /\ IF Successful(Here.summary)
       THEN todo' = Tail(todo) /\ done' = Append(done, Here.summary)
       ELSE UNCHANGED <<todo, done>>
  /\ UNCHANGED <<dir, command, report, outcome, last, count>>

\* A profile is finished: the batch goes on to the next one.
Finish ==
  /\ command # "idle" /\ plan = <<>> /\ Len(todo) > 1
  /\ done' = Append(done, Here.summary)
  /\ todo' = Tail(todo) /\ plan' = RunStages
  /\ UNCHANGED <<dir, command, report, outcome, last, count>>

WriteBatchSummary(summaries) ==
  [tasks |-> summaries,
   successful |-> {i \in DOMAIN summaries : Successful(summaries[i])}]

End ==
  /\ command # "idle" /\ plan = <<>> /\ Len(todo) = 1
  /\ IF command = "batch"
       THEN report' = WriteBatchSummary(Append(done, Here.summary))
       ELSE UNCHANGED report
  /\ command' = "idle" /\ outcome' = command /\ todo' = <<>>
  /\ last' = Profile
  /\ UNCHANGED <<dir, plan, done, count>>
-----------------------------------------------------------------------------
(* Stages.                                                                 *)

At(stage) == command # "idle" /\ plan # <<>> /\ Head(plan) = stage

\* The current directory after a stage that returned, and one that raised.
Pass(d) ==
  /\ dir' = [dir EXCEPT ![Profile.task] = d] /\ plan' = Tail(plan)
  /\ UNCHANGED <<command, todo, done, report, outcome, count, last>>

Fail(d) == dir' = [dir EXCEPT ![Profile.task] = d] /\ Abort

\* The old copy is removed first: what fails leaves none, part of one, or the
\* new copy that could not be analysed, and the old spec.
InitTask ==
  /\ At("init")
  /\ \/ Pass([Here EXCEPT !.repo = Profile.src, !.spec = Profile.src,
                          !.custom = FALSE])
     \/ \E r \in {None, Partial, Profile.src} : Fail([Here EXCEPT !.repo = r])

\* A custom build command is refused unless the profile is trusted and the
\* policy allows it; the spec then lists it first.
Override ==
  /\ At("override")
  /\ IF Profile.custom = "none" THEN Pass(Here)
     ELSE IF Profile.trusted /\ Profile.custom = "allowed"
       THEN Pass([Here EXCEPT !.custom = TRUE])
       ELSE Fail(Here)

\* The program of what is in the repository copy, once the spec could be read.
\* A build that raises has perhaps installed it.
BuildGold ==
  /\ At("build")
  /\ \/ Here.spec # None /\ Here.repo # None /\ Pass([Here EXCEPT !.gold = Here.repo])
     \/ Fail(Here)
     \/ Here.repo # None /\ Fail([Here EXCEPT !.gold = Here.repo])

DiscoverSurface ==
  /\ At("surface")
  /\ \/ Here.spec # None /\ Pass([Here EXCEPT !.surface = Here.repo])
     \/ Fail(Here)

\* Tests that pass on the program: of the suites, the gates leave no others.
Passing(tests, gold) == {s \in tests : s = gold \/ <<s, gold>> \in Agree}

\* What iterations write: cases recorded on the program make a suite, and some
\* model answers are bare pytest files.
Kinds == IF Profile.model THEN SUBSET {"suite", "bare"} \ {{}} ELSE {{"suite"}}

Written(kinds) ==
  LET new == {Here.gold} \ {None}
  IN  [Here EXCEPT !.suites = @ \/ "suite" \in kinds,
                   !.tests  = @ \cup (IF "suite" \in kinds THEN new ELSE {}),
                   !.bare   = @ \cup (IF "bare" \in kinds THEN new ELSE {})]

\* n iterations, each with gates and a coverage report; iterations that are
\* not reached keep the report of an earlier run.  The gates leave bare files
\* as they are.
Generate ==
  /\ At("generate")
  /\ Here.surface # None /\ Here.spec # None
  /\ \E kinds \in Kinds :
       LET d == Written(kinds)
       IN  \/ \E n \in 1 .. MaxIterations, measured \in BOOLEAN,
                  kept \in SUBSET Passing(d.tests, d.gold) :
                Pass([d EXCEPT
                  !.tests = kept,
                  !.coverage = [i \in Iterations |->
                     IF i < n THEN [src |-> d.gold, measured |-> measured] ELSE @[i]]])
           \/ Fail(d)

\* There is no surface or spec, or nothing was written.
GenerateFails == At("generate") /\ Fail(Here)

\* The report with the highest iteration number.
LatestCoverage(d) ==
  LET there == {i \in Iterations : d.coverage[i] # None}
  IN  IF there = {} THEN None
      ELSE d.coverage[CHOOSE i \in there : \A j \in there : j <= i]

\* The gates filter the suites, and what is there then is scored: some says
\* that a test passed, without which the score is zero.
EvaluateSuite ==
  /\ At("evaluate")
  /\ LET kept == [Here EXCEPT !.tests = Passing(@, Here.gold)]
     IN  \/ \E some \in BOOLEAN :
              /\ Here.gold # None
              /\ some => UnderTest(kept) # {}
              /\ Pass([kept EXCEPT !.quality =
                   [src |-> Here.gold, tests |-> UnderTest(kept), some |-> some,
                    coverage |-> LatestCoverage(Here)]])
         \/ Fail(Here)
         \/ Fail(kept)

\* Whatever is on disk is summarised, the packages of an earlier run included.
WriteSummary ==
  /\ At("summary")
  /\ Pass([Here EXCEPT !.summary =
             [task |-> Profile.task, spec |-> Here.spec, quality |-> Here.quality,
              coverage |-> LatestCoverage(Here), package |-> Here.package]])

\* A release that raises leaves packages that are not complete.
Release ==
  /\ At("release")
  /\ \/ /\ Here.spec # None /\ Here.gold # None
        /\ Pass([Here EXCEPT !.package =
             [docs |-> Here.repo, spec |-> Here.spec, suites |-> Here.suites,
              tests |-> UnderTest(Here), gold |-> Here.gold, by |-> command]])
     \/ Fail([Here EXCEPT !.package = Partial])

Stage ==
  \/ InitTask \/ Override \/ BuildGold \/ DiscoverSurface \/ Generate
  \/ GenerateFails \/ EvaluateSuite \/ WriteSummary \/ Release

\* The process is killed between two stages.
Kill == command # "idle" /\ Abort /\ UNCHANGED dir

Start == StartStage \/ StartConstruct \/ StartRun \/ StartBatch

Next == Start \/ Stage \/ Finish \/ End \/ Kill

Spec == Init /\ [][Next]_vars
FairSpec == Spec /\ WF_vars(Stage \/ Finish \/ End)
-----------------------------------------------------------------------------
TypeOK ==
  /\ \A t \in Tasks :
       /\ dir[t].repo \in Sources \cup {None, Partial}
       /\ dir[t].spec \in Sources \cup {None}
       /\ dir[t].gold \in Sources \cup {None, Partial}
       /\ dir[t].tests \cup dir[t].bare \subseteq Sources \cup {Partial}
       /\ dir[t].suites \in BOOLEAN
       /\ \A i \in Iterations :
            dir[t].coverage[i] # None => dir[t].coverage[i].measured \in BOOLEAN
  /\ command \in {"idle", "stage", "construct", "run", "batch"}
  /\ (command = "idle") = (todo = <<>>)
  /\ Len(todo) <= 1 \/ command = "batch"

\* What run-task and batch-run release is of one source: the docs, the spec
\* and the gold program are, and where the tests are suites every hidden test
\* passes on that program, whatever an earlier run of the task left on disk.
\* Bare pytest files pass no gate (quality/hard_gates.py:130): some may fail.
ReleasedTogether ==
  \A t \in Tasks :
    LET p == dir[t].package
    IN  p \notin {None, Partial} /\ p.by \in {"run", "batch"} =>
          /\ p.docs = p.spec /\ p.gold = p.spec
          /\ p.suites => Passing(p.tests, p.gold) = p.tests

\* When construct-task returns, the score in its summary is of the tests on
\* disk, suites or bare files, run on a program of the profile's source.
ConstructedIsScored ==
  command = "idle" /\ outcome = "construct" =>
    LET d == dir[last.task]
    IN  /\ d.quality # None /\ d.summary.quality = d.quality
        /\ d.summary.spec = last.src
        /\ d.quality.src = last.src /\ d.gold = last.src
        /\ d.quality.tests = UnderTest(d)

\* "Successful tasks have a nonzero final score and complete solver/evaluator
\* packages." (reporting/run_summary.py:158): of each task that a batch counts,
\* the packages it was counted for are there, unless a later profile of the
\* batch has its task id.
SuccessfulTasksHavePackages ==
  command = "idle" /\ outcome = "batch" =>
    \A i \in report.successful :
      LET s == report.tasks[i]
      IN  (\A j \in DOMAIN report.tasks : report.tasks[j].task = s.task => j <= i) =>
          /\ dir[s.task].package = s.package /\ s.package \notin {None, Partial}
          /\ s.package.spec = s.spec

\* Every command ends: stages return or raise, and a batch is finite.
CommandsEnd == command # "idle" ~> command = "idle"

\* Commands that return leave files made of one state of the source
\* (pipeline.py:15-51, task_constructor.py:21-92).
FilesAreOfOneSource == TypeOK /\ ReleasedTogether /\ ConstructedIsScored
=============================================================================

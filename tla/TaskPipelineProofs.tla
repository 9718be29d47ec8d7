------------------------- MODULE TaskPipelineProofs -------------------------
(***************************************************************************)
(* Commands that return leave files of one source, and a batch counts only *)
(* tasks whose packages it released, for any tasks, sources and batches.   *)
(***************************************************************************)
EXTENDS TaskPipeline, SequenceTheorems, WellFoundedInduction, TLAPS

Summaries ==
  [task : Tasks, spec : Sources \cup {None}, quality : Qualities \cup {None},
   coverage : Coverages \cup {None}, package : Packages \cup {None, Partial}]

DirType ==
  [repo : Trees, spec : Sources \cup {None}, custom : BOOLEAN, gold : Trees,
   surface : Trees, suites : BOOLEAN, tests : SUBSET (Sources \cup {Partial}),
   bare : SUBSET (Sources \cup {Partial}),
   coverage : [Iterations -> Coverages \cup {None}],
   quality : Qualities \cup {None}, summary : Summaries \cup {None},
   package : Packages \cup {None, Partial}]

ControlType ==
  /\ command \in Commands \cup {"idle"}
  /\ todo \in Seq(Profiles)
  /\ (command = "idle") = (todo = <<>>)
  /\ Len(todo) <= 1 \/ command = "batch"

\* All stages of the command, which is none of a single stage.
Whole == IF command = "construct" THEN Construction ELSE RunStages

\* What the stages before the k-th have left in the directory of task t whose
\* source is src, whatever they found there.
Left(d, t, src, k) ==
  /\ k > 1 => d.repo = src /\ d.spec = src
  /\ k > 3 => d.gold = src
  /\ k > 5 => Passing(d.tests, src) = d.tests
  /\ k > 6 => d.quality # None /\ d.quality.src = src /\ d.quality.tests = UnderTest(d)
  /\ k > 7 => /\ d.summary \in Summaries /\ d.summary.quality = d.quality
               /\ d.summary.spec = src
  /\ k > 8 => d.package \in Packages /\ d.package.spec = src
  /\ k > 9 => d.summary.package = d.package /\ d.summary.task = t

InProgress ==
  command \in {"construct", "run", "batch"} =>
    \E k \in 1 .. Len(Whole) + 1 :
      /\ plan = SubSeq(Whole, k, Len(Whole))
      /\ Left(Here, Profile.task, Profile.src, k)

\* A summary is of what is on disk, unless a later one, or the profile in
\* progress, is of the same task.
Counted(s) == s.package \in Packages /\ s.package.spec = s.spec

Superseded(i, summaries) == \E j \in DOMAIN summaries : j > i /\ summaries[j].task = summaries[i].task

BatchSoFar ==
  command = "batch" =>
    /\ done \in Seq(Summaries)
    /\ \A i \in DOMAIN done :
         /\ Counted(done[i])
         /\ ~Superseded(i, done) /\ done[i].task # Profile.task =>
              dir[done[i].task].package = done[i].package

LInv ==
  /\ dir \in [Tasks -> DirType]
  /\ ControlType
  /\ InProgress
  /\ BatchSoFar
  /\ ReleasedTogether
  /\ ConstructedIsScored
  /\ SuccessfulTasksHavePackages
-----------------------------------------------------------------------------
(* The stages of a command.                                                *)

Names == Stages \cup {"override"}

LEMMA ConstructionStages ==
  /\ Construction \in Seq(Names) /\ Len(Construction) = 7
  /\ Construction[1] = "init" /\ Construction[2] = "override" /\ Construction[3] = "build"
  /\ Construction[4] = "surface" /\ Construction[5] = "generate"
  /\ Construction[6] = "evaluate" /\ Construction[7] = "summary"
<1>1. Construction \in Seq(Names)
  BY DEF Construction, Names, Stages
<1>2. Len(Construction) = 7
  BY DEF Construction
<1>3. /\ Construction[1] = "init" /\ Construction[2] = "override" /\ Construction[3] = "build"
      /\ Construction[4] = "surface" /\ Construction[5] = "generate"
      /\ Construction[6] = "evaluate" /\ Construction[7] = "summary"
  BY DEF Construction
<1> QED
  BY <1>1, <1>2, <1>3

LEMMA RunHasStages ==
  /\ RunStages \in Seq(Names) /\ Len(RunStages) = 9
  /\ \A k \in 1 .. 7 : RunStages[k] = Construction[k]
  /\ RunStages[8] = "release" /\ RunStages[9] = "summary"
<1> DEFINE Rest == <<"release", "summary">>
<1>1. Rest \in Seq(Names)
  BY DEF Names, Stages
<1>2. Len(Rest) = 2 /\ Rest[1] = "release" /\ Rest[2] = "summary"
  OBVIOUS
<1> HIDE DEF Rest
<1>3. RunStages = Construction \o Rest
  BY DEF RunStages, Rest
<1>4. /\ RunStages \in Seq(Names) /\ Len(RunStages) = 9
      /\ \A i \in 1 .. 9 : RunStages[i] = IF i <= 7 THEN Construction[i] ELSE Rest[i - 7]
  <2> DEFINE whole == Construction \o Rest
  <2>1. /\ whole \in Seq(Names) /\ Len(whole) = Len(Construction) + Len(Rest)
        /\ \A i \in 1 .. Len(Construction) + Len(Rest) :
             whole[i] = IF i <= Len(Construction) THEN Construction[i]
                                                 ELSE Rest[i - Len(Construction)]
    BY <1>1, ConstructionStages, ConcatProperties
  <2>2. Len(Construction) = 7 /\ whole = RunStages
    BY <1>3, ConstructionStages
  <2> HIDE DEF whole
  <2> QED
    BY <1>2, <2>1, <2>2
<1> QED
  BY <1>2, <1>4

\* The k-th stage of a command.
LEMMA StageAt ==
  /\ Whole \in Seq(Names) /\ Len(Whole) \in {7, 9} /\ (command = "construct" <=> Len(Whole) = 7)
  /\ \A k \in 1 .. Len(Whole) :
       /\ Whole[k] = "init" => k = 1
       /\ Whole[k] = "override" => k = 2
       /\ Whole[k] = "build" => k = 3
       /\ Whole[k] = "surface" => k = 4
       /\ Whole[k] = "generate" => k = 5
       /\ Whole[k] = "evaluate" => k = 6
       /\ Whole[k] = "summary" => k \in {7, 9}
       /\ Whole[k] = "release" => k = 8
<1>1. CASE command = "construct"
  <2>1. Whole = Construction
    BY <1>1 DEF Whole
  <2>2. \A k \in 1 .. 7 : k = 1 \/ k = 2 \/ k = 3 \/ k = 4 \/ k = 5 \/ k = 6 \/ k = 7
    OBVIOUS
  <2> QED
    BY <1>1, <2>1, <2>2, ConstructionStages
<1>2. CASE command # "construct"
  <2>1. Whole = RunStages
    BY <1>2 DEF Whole
  <2>2. \A k \in 1 .. 9 : \/ k = 1 \/ k = 2 \/ k = 3 \/ k = 4 \/ k = 5 \/ k = 6
                         \/ k = 7 \/ k = 8 \/ k = 9
    OBVIOUS
  <2>3. /\ RunStages[1] = "init" /\ RunStages[2] = "override" /\ RunStages[3] = "build"
        /\ RunStages[4] = "surface" /\ RunStages[5] = "generate"
        /\ RunStages[6] = "evaluate" /\ RunStages[7] = "summary"
    BY ConstructionStages, RunHasStages
  <2>4. /\ RunStages \in Seq(Names) /\ Len(RunStages) = 9
        /\ RunStages[8] = "release" /\ RunStages[9] = "summary"
    BY RunHasStages
  <2> QED
    BY <1>2, <2>1, <2>2, <2>3, <2>4
<1> QED
  BY <1>1, <1>2

\* A command that has stages to come is before its k-th, for some k.
LEMMA NextStage ==
  ASSUME NEW k \in 1 .. Len(Whole) + 1, plan = SubSeq(Whole, k, Len(Whole))
  PROVE  /\ plan = <<>> => k = Len(Whole) + 1
         /\ plan # <<>> => /\ k \in 1 .. Len(Whole)
                           /\ Head(plan) = Whole[k]
                           /\ Tail(plan) = SubSeq(Whole, k + 1, Len(Whole))
<1>1. Whole \in Seq(Names) /\ Len(Whole) \in Nat
  BY StageAt
<1>2. CASE k \in 1 .. Len(Whole)
  <2>1. Len(Whole) \in k .. Len(Whole)
    BY <1>1, <1>2
  <2>2. Head(plan) = Whole[k] /\ Tail(plan) = SubSeq(Whole, k + 1, Len(Whole))
    BY <1>1, <1>2, <2>1, HeadTailOfSubSeq
  <2>3. plan # <<>>
    <3>1. \A i \in k .. Len(Whole) : Whole[i] \in Names
      BY <1>1, <1>2
    <3>2. k \in Int /\ Len(Whole) \in Int /\ k <= Len(Whole)
      BY <1>1, <1>2
    <3>3. Len(plan) = Len(Whole) - k + 1
      BY <3>1, <3>2, SubSeqProperties
    <3>4. Len(plan) # 0
      BY <1>1, <1>2, <3>3
    <3> QED
      BY <3>4
  <2> QED
    BY <1>2, <2>2, <2>3
<1>3. CASE k = Len(Whole) + 1
  <2>1. k \in Int /\ Len(Whole) \in Int /\ Len(Whole) < k
    BY <1>1, <1>3
  <2>2. plan = <<>>
    BY <2>1, SubSeqEmpty
  <2> QED
    BY <1>3, <2>2
<1> QED
  BY <1>1, <1>2, <1>3
-----------------------------------------------------------------------------
(* Directories.                                                            *)

\* What a command that returned may have released.
Together(p) ==
  p \notin {None, Partial} /\ p.by \in {"run", "batch"} =>
    /\ p.docs = p.spec /\ p.gold = p.spec
    /\ p.suites => Passing(p.tests, p.gold) = p.tests

LEMMA TogetherEverywhere ==
  ReleasedTogether <=> \A t \in Tasks : Together(dir[t].package)
  BY DEF ReleasedTogether, Together

\* The tests that pass on a program all pass on it.
LEMMA PassingPass ==
  ASSUME NEW x, NEW g, NEW y \in SUBSET Passing(x, g)
  PROVE  Passing(y, g) = y /\ Passing(x, g) \subseteq x
  BY DEF Passing

LEMMA IterationsHaveLast ==
  ASSUME NEW there \in SUBSET Iterations, there # {}
  PROVE  \E i \in there : \A j \in there : j <= i
<1>1. MaxIterations \in Nat /\ there \subseteq 0 .. MaxIterations - 1
  <2>1. MaxIterations \in Nat \ {0}
    BY PipelineAssumption, Zenon
  <2> QED
    BY <2>1 DEF Iterations
<1> DEFINE before == {MaxIterations - i : i \in there}
<1>2. before \subseteq Nat /\ before # {}
  <2>1. ASSUME NEW i \in 0 .. MaxIterations - 1 PROVE MaxIterations - i \in Nat
    BY <1>1
  <2> QED
    BY <1>1, <2>1
<1>3. PICK m \in before : \A n \in before : <<n, m>> \notin OpToRel(<, Nat)
  <2> HIDE DEF before
  <2> QED
    BY <1>2, WFMin, NatLessThanWellFounded
<1>4. \A n \in before : ~ (n < m)
  BY <1>2, <1>3 DEF OpToRel
<1>5. PICK i \in there : m = MaxIterations - i
  OBVIOUS
<1>6. ASSUME NEW j \in there PROVE j <= i
  <2>1. ~ (MaxIterations - j < MaxIterations - i)
    BY <1>4, <1>5
  <2>2. i \in 0 .. MaxIterations - 1 /\ j \in 0 .. MaxIterations - 1
    BY <1>1
  <2> QED
    BY <1>1, <2>1, <2>2
<1> QED
  BY <1>6

LEMMA LatestIsCoverage ==
  ASSUME NEW d \in DirType
  PROVE  LatestCoverage(d) \in Coverages \cup {None}
<1> DEFINE there == {i \in Iterations : d.coverage[i] # None}
<1>1. d.coverage \in [Iterations -> Coverages \cup {None}]
  BY DEF DirType
<1>2. CASE there = {}
  BY <1>2 DEF LatestCoverage
<1>3. CASE there # {}
  <2> DEFINE latest == CHOOSE i \in there : \A j \in there : j <= i
  <2>1. \E i \in there : \A j \in there : j <= i
    BY <1>3, IterationsHaveLast
  <2>2. latest \in Iterations
    BY <2>1
  <2>3. LatestCoverage(d) = d.coverage[latest]
    BY <1>3 DEF LatestCoverage
  <2> QED
    BY <1>1, <2>2, <2>3
<1> QED
  BY <1>2, <1>3

LEMMA HereIsADir ==
  ASSUME LInv, command # "idle"
  PROVE  /\ Profile \in Profiles /\ Profile.task \in Tasks /\ Profile.src \in Sources
         /\ Here \in DirType /\ todo # <<>>
<1>1. todo # <<>> /\ todo \in Seq(Profiles)
  BY DEF LInv, ControlType
<1>2. Profile \in Profiles
  BY <1>1, HeadTailProperties DEF Profile
<1>3. Profile.task \in Tasks /\ Profile.src \in Sources
  BY <1>2, PipelineAssumption DEF ProfileType
<1> QED
  BY <1>1, <1>2, <1>3 DEF LInv, Here
-----------------------------------------------------------------------------
(* Steps.                                                                  *)

Staged == command \in {"construct", "run", "batch"}

\* A stage that returned has left more of the command's work done.
LEMMA PassKeeps ==
  ASSUME LInv, command # "idle", plan # <<>>, NEW d \in DirType, Pass(d), Together(d.package),
         Staged =>
           \A k \in 1 .. Len(Whole) :
             Whole[k] = Head(plan) /\ Left(Here, Profile.task, Profile.src, k)
               => Left(d, Profile.task, Profile.src, k + 1)
  PROVE  LInv'
<1>1. /\ dir' = [dir EXCEPT ![Profile.task] = d] /\ plan' = Tail(plan)
      /\ UNCHANGED <<command, todo, done, report, outcome, count, last>>
  BY DEF Pass
<1>2. Profile' = Profile /\ Whole' = Whole
  BY <1>1 DEF Profile, Whole
<1>3. dir \in [Tasks -> DirType] /\ Profile.task \in Tasks
  BY HereIsADir DEF LInv
<1>4. /\ dir' \in [Tasks -> DirType] /\ dir'[Profile.task] = d
      /\ \A t \in Tasks : t # Profile.task => dir'[t] = dir[t]
  BY <1>1, <1>3
<1>5. ControlType'
  BY <1>1 DEF LInv, ControlType
<1>6. InProgress'
  <2> SUFFICES ASSUME Staged
               PROVE  \E k \in 1 .. Len(Whole) + 1 :
                        /\ plan' = SubSeq(Whole, k, Len(Whole))
                        /\ Left(d, Profile.task, Profile.src, k)
    <3>1. Here' = d
      BY <1>2, <1>4 DEF Here
    <3> QED
      BY <1>1, <1>2, <3>1 DEF InProgress, Staged
  <2>1. PICK k \in 1 .. Len(Whole) + 1 :
          plan = SubSeq(Whole, k, Len(Whole)) /\ Left(Here, Profile.task, Profile.src, k)
    BY DEF LInv, InProgress, Staged
  <2>2. /\ k \in 1 .. Len(Whole) /\ Whole[k] = Head(plan)
        /\ Tail(plan) = SubSeq(Whole, k + 1, Len(Whole))
    BY <2>1, NextStage
  <2>3. Left(d, Profile.task, Profile.src, k + 1)
    BY <2>1, <2>2
  <2>4. k + 1 \in 1 .. Len(Whole) + 1
    <3>1. Len(Whole) \in Nat
      BY StageAt
    <3> QED
      BY <2>2, <3>1
  <2> QED
    BY <1>1, <2>2, <2>3, <2>4
<1>7. BatchSoFar'
  <2> SUFFICES ASSUME command = "batch",
                      NEW i \in DOMAIN done, ~Superseded(i, done), done[i].task # Profile.task
               PROVE  dir'[done[i].task] = dir[done[i].task]
    BY <1>1, <1>2 DEF LInv, BatchSoFar, Superseded, Counted
  <2>1. done[i] \in Summaries
    BY DEF LInv, BatchSoFar
  <2>2. done[i].task \in Tasks
    BY <2>1 DEF Summaries
  <2> QED
    BY <1>4, <2>2
<1>8. ReleasedTogether'
  <2>1. \A t \in Tasks : Together(dir'[t].package)
    BY <1>3, <1>4, TogetherEverywhere DEF LInv
  <2> QED
    BY <2>1 DEF ReleasedTogether, Together
<1>9. ConstructedIsScored' /\ SuccessfulTasksHavePackages'
  BY <1>1 DEF ConstructedIsScored, SuccessfulTasksHavePackages
<1> QED
  BY <1>4, <1>5, <1>6, <1>7, <1>8, <1>9 DEF LInv

\* A stage that raised has left something, and the command is over.
LEMMA FailKeeps ==
  ASSUME LInv, command # "idle", NEW d \in DirType, Fail(d), Together(d.package)
  PROVE  LInv'
<1>1. /\ dir' = [dir EXCEPT ![Profile.task] = d]
      /\ command' = "idle" /\ outcome' = "raised" /\ todo' = <<>> /\ plan' = <<>>
  BY DEF Fail, Abort
<1>2. dir \in [Tasks -> DirType] /\ Profile.task \in Tasks
  BY HereIsADir DEF LInv
<1>3. /\ dir' \in [Tasks -> DirType] /\ dir'[Profile.task] = d
      /\ \A t \in Tasks : t # Profile.task => dir'[t] = dir[t]
  BY <1>1, <1>2
<1>4. ReleasedTogether'
  <2>1. \A t \in Tasks : Together(dir'[t].package)
    BY <1>2, <1>3, TogetherEverywhere DEF LInv
  <2> QED
    BY <2>1 DEF ReleasedTogether, Together
<1>5. ControlType'
  BY <1>1 DEF ControlType
<1> QED
  BY <1>1, <1>3, <1>4, <1>5 DEF LInv, InProgress, BatchSoFar, ConstructedIsScored,
     SuccessfulTasksHavePackages
LEMMA DirUpdated ==
  ASSUME NEW h \in DirType
  PROVE  /\ \A r \in Trees : [h EXCEPT !.repo = r] \in DirType
         /\ \A s \in Sources, b \in BOOLEAN :
              [h EXCEPT !.repo = s, !.spec = s, !.custom = b] \in DirType
         /\ \A b \in BOOLEAN : [h EXCEPT !.custom = b] \in DirType
         /\ \A g \in Trees : [h EXCEPT !.gold = g] \in DirType
         /\ \A r \in Trees : [h EXCEPT !.surface = r] \in DirType
         /\ \A x \in SUBSET (Sources \cup {Partial}) : [h EXCEPT !.tests = x] \in DirType
         /\ \A x \in Summaries : [h EXCEPT !.summary = x] \in DirType
         /\ \A x \in Packages \cup {Partial} : [h EXCEPT !.package = x] \in DirType
<1>1. \A r \in Trees : [h EXCEPT !.repo = r] \in DirType
  BY DEF DirType
<1>2. \A s \in Sources, b \in BOOLEAN :
        [h EXCEPT !.repo = s, !.spec = s, !.custom = b] \in DirType
  BY DEF DirType, Trees
<1>3. \A b \in BOOLEAN : [h EXCEPT !.custom = b] \in DirType
  BY DEF DirType
<1>4. \A g \in Trees : [h EXCEPT !.gold = g] \in DirType
  BY DEF DirType
<1>5. \A r \in Trees : [h EXCEPT !.surface = r] \in DirType
  BY DEF DirType
<1>6. \A x \in SUBSET (Sources \cup {Partial}) : [h EXCEPT !.tests = x] \in DirType
  BY DEF DirType
<1>7. \A x \in Summaries : [h EXCEPT !.summary = x] \in DirType
  BY DEF DirType
<1>8. \A x \in Packages \cup {Partial} : [h EXCEPT !.package = x] \in DirType
  BY DEF DirType
<1> QED
  BY <1>1, <1>2, <1>3, <1>4, <1>5, <1>6, <1>7, <1>8

LEMMA TestsAndReportsUpdated ==
  ASSUME NEW h \in DirType, NEW x \in SUBSET (Sources \cup {Partial})
  PROVE  /\ \A c \in [Iterations -> Coverages \cup {None}] :
              [h EXCEPT !.tests = x, !.coverage = c] \in DirType
         /\ \A q \in Qualities : [h EXCEPT !.quality = q] \in DirType
  BY DEF DirType

LEMMA UnderTestType ==
  ASSUME NEW h \in DirType
  PROVE  UnderTest(h) \in SUBSET (Sources \cup {Partial}) /\ UnderTest(h) \in SUBSET Trees
<1>1. h.tests \in SUBSET (Sources \cup {Partial}) /\ h.bare \in SUBSET (Sources \cup {Partial})
  BY DEF DirType
<1> QED
  BY <1>1 DEF UnderTest, Trees

\* What iterations write leaves everything but the tests as it was.
LEMMA WrittenType ==
  ASSUME Here \in DirType, NEW kinds
  PROVE  /\ Written(kinds) \in DirType
         /\ Written(kinds).package = Here.package /\ Written(kinds).gold = Here.gold
         /\ Written(kinds).repo = Here.repo /\ Written(kinds).spec = Here.spec
         /\ Written(kinds).coverage = Here.coverage
<1> DEFINE new == {Here.gold} \ {None}
           x == Here.tests \cup (IF "suite" \in kinds THEN new ELSE {})
           y == Here.bare \cup (IF "bare" \in kinds THEN new ELSE {})
           b == Here.suites \/ "suite" \in kinds
<1>1. Here.tests \subseteq Sources \cup {Partial} /\ Here.bare \subseteq Sources \cup {Partial}
      /\ Here.gold \in Trees /\ Here.suites \in BOOLEAN
  BY DEF DirType
<1>2. new \subseteq Sources \cup {Partial}
  BY <1>1 DEF Trees
<1>3. x \in SUBSET (Sources \cup {Partial}) /\ y \in SUBSET (Sources \cup {Partial})
  <2> HIDE DEF new
  <2> QED
    BY <1>1, <1>2
<1>4. b \in BOOLEAN
  BY <1>1
<1>5. Written(kinds) = [Here EXCEPT !.suites = b, !.tests = x, !.bare = y]
  BY DEF Written
<1> HIDE DEF x, y, b
<1> QED
  BY <1>3, <1>4, <1>5 DEF DirType

\* The packages of the current task are as LInv says.
LEMMA HereTogether == ASSUME LInv, command # "idle" PROVE Together(Here.package)
  BY HereIsADir, TogetherEverywhere DEF LInv, Here

LEMMA InitTaskKeeps == ASSUME LInv, InitTask PROVE LInv'
<1>1. /\ command # "idle" /\ plan # <<>> /\ Head(plan) = "init"
      /\ Here \in DirType /\ Profile.src \in Sources /\ Together(Here.package)
  BY HereIsADir, HereTogether DEF InitTask, At
<1>2. CASE Pass([Here EXCEPT !.repo = Profile.src, !.spec = Profile.src, !.custom = FALSE])
  <2> DEFINE d == [Here EXCEPT !.repo = Profile.src, !.spec = Profile.src, !.custom = FALSE]
  <2>1. d \in DirType
    BY <1>1, DirUpdated
  <2>2. d.package = Here.package /\ d.repo = Profile.src /\ d.spec = Profile.src
    BY <1>1 DEF DirType
  <2> HIDE DEF d
  <2>3. ASSUME NEW k \in 1 .. Len(Whole), Whole[k] = Head(plan)
        PROVE  Left(d, Profile.task, Profile.src, k + 1)
    <3>1. k = 1
      BY <1>1, <2>3, StageAt
    <3> QED
      BY <2>2, <3>1 DEF Left
  <2>4. Pass(d)
    BY <1>2 DEF d
  <2> QED
    BY <1>1, <2>1, <2>2, <2>3, <2>4, PassKeeps
<1>3. ASSUME NEW r \in {None, Partial, Profile.src}, Fail([Here EXCEPT !.repo = r]) PROVE LInv'
  <2> DEFINE d == [Here EXCEPT !.repo = r]
  <2>1. d \in DirType
    BY <1>1, DirUpdated DEF Trees
  <2>2. d.package = Here.package
    BY <1>1 DEF DirType
  <2>3. Fail(d)
    BY <1>3
  <2> HIDE DEF d
  <2> QED
    BY <1>1, <2>1, <2>2, <2>3, FailKeeps
<1> QED
  BY <1>2, <1>3 DEF InitTask

LEMMA OverrideKeeps == ASSUME LInv, Override PROVE LInv'
<1>1. /\ command # "idle" /\ plan # <<>> /\ Head(plan) = "override"
      /\ Here \in DirType /\ Together(Here.package)
  BY HereIsADir, HereTogether DEF Override, At
<1>2. ASSUME NEW d \in DirType, Pass(d), d.package = Here.package,
             d.repo = Here.repo, d.spec = Here.spec
      PROVE  LInv'
  <2>1. ASSUME NEW k \in 1 .. Len(Whole), Whole[k] = Head(plan),
               Left(Here, Profile.task, Profile.src, k)
        PROVE  Left(d, Profile.task, Profile.src, k + 1)
    <3>1. k = 2
      BY <1>1, <2>1, StageAt
    <3> QED
      BY <1>2, <2>1, <3>1 DEF Left
  <2> QED
    BY <1>1, <1>2, <2>1, PassKeeps
<1>3. [Here EXCEPT !.custom = TRUE] \in DirType
  BY <1>1, DirUpdated
<1>4. /\ [Here EXCEPT !.custom = TRUE].package = Here.package
      /\ [Here EXCEPT !.custom = TRUE].repo = Here.repo
      /\ [Here EXCEPT !.custom = TRUE].spec = Here.spec
  BY <1>1 DEF DirType
<1>5. Fail(Here) => LInv'
  BY <1>1, FailKeeps
<1> QED
  BY <1>1, <1>2, <1>3, <1>4, <1>5 DEF Override

LEMMA BuildGoldKeeps == ASSUME LInv, BuildGold PROVE LInv'
<1>1. /\ command # "idle" /\ plan # <<>> /\ Head(plan) = "build"
      /\ Here \in DirType /\ Together(Here.package)
  BY HereIsADir, HereTogether DEF BuildGold, At
<1> DEFINE d == [Here EXCEPT !.gold = Here.repo]
<1>2. d \in DirType
  <2>1. Here.repo \in Trees
    BY <1>1 DEF DirType
  <2> QED
    BY <1>1, <2>1, DirUpdated
<1>3. /\ d.package = Here.package /\ d.gold = Here.repo
      /\ d.repo = Here.repo /\ d.spec = Here.spec
  BY <1>1 DEF DirType
<1>4. Pass(d) \/ Fail(Here) \/ Fail(d)
  BY DEF BuildGold
<1> HIDE DEF d
<1>5. ASSUME NEW k \in 1 .. Len(Whole), Whole[k] = Head(plan),
             Left(Here, Profile.task, Profile.src, k)
      PROVE  Left(d, Profile.task, Profile.src, k + 1)
  <2>1. k = 3
    BY <1>1, <1>5, StageAt
  <2> QED
    BY <1>3, <1>5, <2>1 DEF Left
<1> QED
  BY <1>1, <1>2, <1>3, <1>4, <1>5, PassKeeps, FailKeeps

LEMMA DiscoverSurfaceKeeps == ASSUME LInv, DiscoverSurface PROVE LInv'
<1>1. /\ command # "idle" /\ plan # <<>> /\ Head(plan) = "surface"
      /\ Here \in DirType /\ Together(Here.package)
  BY HereIsADir, HereTogether DEF DiscoverSurface, At
<1> DEFINE d == [Here EXCEPT !.surface = Here.repo]
<1>2. d \in DirType
  <2>1. Here.repo \in Trees
    BY <1>1 DEF DirType
  <2> QED
    BY <1>1, <2>1, DirUpdated
<1>3. /\ d.package = Here.package /\ d.gold = Here.gold
      /\ d.repo = Here.repo /\ d.spec = Here.spec
  BY <1>1 DEF DirType
<1>4. Pass(d) \/ Fail(Here)
  BY DEF DiscoverSurface
<1> HIDE DEF d
<1>5. ASSUME NEW k \in 1 .. Len(Whole), Whole[k] = Head(plan),
             Left(Here, Profile.task, Profile.src, k)
      PROVE  Left(d, Profile.task, Profile.src, k + 1)
  <2>1. k = 4
    BY <1>1, <1>5, StageAt
  <2> QED
    BY <1>3, <1>5, <2>1 DEF Left
<1> QED
  BY <1>1, <1>2, <1>3, <1>4, <1>5, PassKeeps, FailKeeps

LEMMA GenerateKeeps == ASSUME LInv, Generate \/ GenerateFails PROVE LInv'
<1>1. /\ command # "idle" /\ plan # <<>> /\ Head(plan) = "generate"
      /\ Here \in DirType /\ Together(Here.package)
  BY HereIsADir, HereTogether DEF Generate, GenerateFails, At
<1>2. ASSUME NEW kinds, NEW e, e = Written(kinds),
             \/ \E n \in 1 .. MaxIterations, measured \in BOOLEAN,
                   kept \in SUBSET Passing(e.tests, e.gold) :
                  Pass([e EXCEPT
                    !.tests = kept,
                    !.coverage = [i \in Iterations |->
                       IF i < n THEN [src |-> e.gold, measured |-> measured] ELSE @[i]]])
             \/ Fail(e)
      PROVE  LInv'
  <2>1. /\ e \in DirType /\ e.package = Here.package /\ e.gold = Here.gold
        /\ e.repo = Here.repo /\ e.spec = Here.spec
    BY <1>1, <1>2, WrittenType
  <2>2. /\ e.tests \subseteq Sources \cup {Partial} /\ e.gold \in Trees
        /\ e.coverage \in [Iterations -> Coverages \cup {None}]
    BY <2>1 DEF DirType
  <2>3. ASSUME NEW n \in 1 .. MaxIterations, NEW measured \in BOOLEAN,
               NEW kept \in SUBSET Passing(e.tests, e.gold), NEW c,
               c = [i \in Iterations |-> IF i < n THEN [src |-> e.gold, measured |-> measured]
                                                  ELSE e.coverage[i]],
               Pass([e EXCEPT !.tests = kept, !.coverage = c])
        PROVE  LInv'
    <3> DEFINE d == [e EXCEPT !.tests = kept, !.coverage = c]
    <3>1. kept \subseteq e.tests
      BY <2>3, PassingPass
    <3>2. [src |-> e.gold, measured |-> measured] \in Coverages
      BY <2>2 DEF Coverages
    <3>3. c \in [Iterations -> Coverages \cup {None}]
      BY <2>2, <2>3, <3>2
    <3>4. d \in DirType
      BY <2>1, <2>2, <3>1, <3>3, TestsAndReportsUpdated
    <3>5. /\ d.package = Here.package /\ d.tests = kept /\ d.gold = Here.gold
          /\ d.repo = Here.repo /\ d.spec = Here.spec
      BY <2>1 DEF DirType
    <3>6. Pass(d)
      BY <2>3
    <3> HIDE DEF d
    <3>7. ASSUME NEW k \in 1 .. Len(Whole), Whole[k] = Head(plan),
                 Left(Here, Profile.task, Profile.src, k)
          PROVE  Left(d, Profile.task, Profile.src, k + 1)
      <4>1. k = 5
        BY <1>1, <3>7, StageAt
      <4>2. Here.gold = Profile.src /\ Here.repo = Profile.src /\ Here.spec = Profile.src
        BY <3>7, <4>1 DEF Left
      <4>3. Passing(kept, Profile.src) = kept
        BY <2>1, <4>2, PassingPass
      <4> QED
        BY <3>5, <4>1, <4>2, <4>3 DEF Left
    <3> QED
      BY <1>1, <3>4, <3>5, <3>6, <3>7, PassKeeps
  <2>4. CASE Fail(e)
    BY <1>1, <2>1, <2>4, FailKeeps
  <2> QED
    BY <1>2, <2>3, <2>4
<1>3. CASE Fail(Here)
  BY <1>1, <1>3, FailKeeps
<1> QED
  BY <1>2, <1>3 DEF Generate, GenerateFails

LEMMA EvaluateSuiteKeeps == ASSUME LInv, EvaluateSuite PROVE LInv'
<1>1. /\ command # "idle" /\ plan # <<>> /\ Head(plan) = "evaluate"
      /\ Here \in DirType /\ Together(Here.package)
  BY HereIsADir, HereTogether DEF EvaluateSuite, At
<1> DEFINE passing == Passing(Here.tests, Here.gold)
           kept    == [Here EXCEPT !.tests = passing]
<1>2. Here.tests \subseteq Sources \cup {Partial} /\ Here.gold \in Trees
  BY <1>1 DEF DirType, Trees
<1>3. passing \in SUBSET (Sources \cup {Partial}) /\ Passing(passing, Here.gold) = passing
  <2>1. passing \in SUBSET Passing(Here.tests, Here.gold)
    OBVIOUS
  <2> HIDE DEF passing
  <2> QED
    BY <1>2, <2>1, PassingPass
<1>4. kept \in DirType
  <2> HIDE DEF passing
  <2> QED
    BY <1>1, <1>3, DirUpdated
<1>5. /\ kept.package = Here.package /\ kept.tests = passing /\ kept.gold = Here.gold
      /\ kept.repo = Here.repo /\ kept.spec = Here.spec
  BY <1>1 DEF DirType
<1>6. Fail(Here) \/ Fail(kept) => LInv'
  <2> HIDE DEF kept
  <2> QED
    BY <1>1, <1>4, <1>5, FailKeeps
<1>7. ASSUME NEW some \in BOOLEAN, NEW q,
             q = [src |-> Here.gold, tests |-> UnderTest(kept), some |-> some,
                  coverage |-> LatestCoverage(Here)],
             Pass([kept EXCEPT !.quality = q])
      PROVE  LInv'
  <2> DEFINE d == [kept EXCEPT !.quality = q]
  <2>1. q \in Qualities
    <3>1. UnderTest(kept) \in SUBSET Trees
      BY <1>4, UnderTestType
    <3>2. LatestCoverage(Here) \in Coverages \cup {None}
      BY <1>1, LatestIsCoverage
    <3> HIDE DEF kept
    <3> QED
      BY <1>2, <1>7, <3>1, <3>2 DEF Qualities
  <2>2. q # None
    BY <2>1, PipelineAssumption
  <2>3. q.src = Here.gold /\ q.tests = UnderTest(kept)
    BY <1>7
  <2> HIDE DEF kept
  <2>4. d \in DirType
    BY <1>4, <2>1, TestsAndReportsUpdated
  <2>5. /\ d.package = Here.package /\ d.tests = passing /\ d.gold = Here.gold
        /\ d.repo = Here.repo /\ d.spec = Here.spec /\ d.quality = q
        /\ d.suites = kept.suites /\ d.bare = kept.bare /\ d.tests = kept.tests
    BY <1>4, <1>5 DEF DirType
  <2>6. q.tests = UnderTest(d)
    BY <2>3, <2>5 DEF UnderTest
  <2>7. Pass(d)
    BY <1>7
  <2> HIDE DEF d
  <2>8. ASSUME NEW k \in 1 .. Len(Whole), Whole[k] = Head(plan),
               Left(Here, Profile.task, Profile.src, k)
        PROVE  Left(d, Profile.task, Profile.src, k + 1)
    <3>1. k = 6
      BY <1>1, <2>8, StageAt
    <3>2. Here.gold = Profile.src /\ Here.repo = Profile.src /\ Here.spec = Profile.src
      BY <2>8, <3>1 DEF Left
    <3> QED
      BY <1>3, <2>2, <2>3, <2>5, <2>6, <3>1, <3>2 DEF Left
  <2> QED
    BY <1>1, <2>4, <2>5, <2>7, <2>8, PassKeeps
<1> QED
  BY <1>6, <1>7 DEF EvaluateSuite

LEMMA WriteSummaryKeeps == ASSUME LInv, WriteSummary PROVE LInv'
<1>1. /\ command # "idle" /\ plan # <<>> /\ Head(plan) = "summary"
      /\ Here \in DirType /\ Together(Here.package) /\ Profile.task \in Tasks
  BY HereIsADir, HereTogether DEF WriteSummary, At
<1> DEFINE s == [task |-> Profile.task, spec |-> Here.spec, quality |-> Here.quality,
                 coverage |-> LatestCoverage(Here), package |-> Here.package]
           d == [Here EXCEPT !.summary = s]
<1>2. s \in Summaries
  <2>1. /\ Here.spec \in Sources \cup {None} /\ Here.quality \in Qualities \cup {None}
        /\ Here.package \in Packages \cup {None, Partial}
    BY <1>1 DEF DirType
  <2>2. LatestCoverage(Here) \in Coverages \cup {None}
    BY <1>1, LatestIsCoverage
  <2> QED
    BY <1>1, <2>1, <2>2 DEF Summaries
<1>3. /\ s.task = Profile.task /\ s.spec = Here.spec /\ s.quality = Here.quality
      /\ s.package = Here.package
  OBVIOUS
<1>4. Pass(d)
  BY DEF WriteSummary
<1> HIDE DEF s
<1>5. d \in DirType
  BY <1>1, <1>2, DirUpdated
<1>6. /\ d.package = Here.package /\ d.tests = Here.tests /\ d.gold = Here.gold
      /\ d.repo = Here.repo /\ d.spec = Here.spec /\ d.quality = Here.quality /\ d.summary = s
      /\ UnderTest(d) = UnderTest(Here)
  BY <1>1 DEF DirType, UnderTest
<1> HIDE DEF d
<1>7. ASSUME NEW k \in 1 .. Len(Whole), Whole[k] = Head(plan),
             Left(Here, Profile.task, Profile.src, k)
      PROVE  Left(d, Profile.task, Profile.src, k + 1)
  <2>1. k = 7 \/ k = 9
    BY <1>1, <1>7, StageAt
  <2> QED
    BY <1>2, <1>3, <1>6, <1>7, <2>1 DEF Left
<1> QED
  BY <1>1, <1>4, <1>5, <1>6, <1>7, PassKeeps

LEMMA ReleaseKeeps == ASSUME LInv, Release PROVE LInv'
<1>1. /\ command # "idle" /\ plan # <<>> /\ Head(plan) = "release"
      /\ Here \in DirType /\ Together(Here.package) /\ command \in Commands
  BY HereIsADir, HereTogether DEF Release, At, LInv, ControlType
<1> DEFINE p == [docs |-> Here.repo, spec |-> Here.spec, suites |-> Here.suites,
                 tests |-> UnderTest(Here), gold |-> Here.gold, by |-> command]
           d == [Here EXCEPT !.package = p]
<1>2. p \in Packages
  <2>1. /\ Here.repo \in Trees /\ Here.spec \in Trees /\ Here.gold \in Trees
        /\ Here.suites \in BOOLEAN
    BY <1>1 DEF DirType, Trees
  <2>2. UnderTest(Here) \in SUBSET Trees
    BY <1>1, UnderTestType
  <2> QED
    BY <1>1, <2>1, <2>2 DEF Packages
<1>3. /\ p.docs = Here.repo /\ p.spec = Here.spec /\ p.tests = UnderTest(Here)
      /\ p.suites = Here.suites
      /\ (p.suites => p.tests = Here.tests)
      /\ p.gold = Here.gold /\ p.by = command
  BY DEF UnderTest
<1>4. Pass(d) \/ Fail([Here EXCEPT !.package = Partial])
  BY DEF Release
<1> HIDE DEF p
<1>5. d \in DirType
  BY <1>1, <1>2, DirUpdated
<1>6. /\ d.package = p /\ d.tests = Here.tests /\ d.gold = Here.gold /\ d.repo = Here.repo
      /\ d.spec = Here.spec /\ d.quality = Here.quality /\ d.summary = Here.summary
      /\ UnderTest(d) = UnderTest(Here)
  BY <1>1 DEF DirType, UnderTest
<1> HIDE DEF d
<1>7. ASSUME NEW k \in 1 .. Len(Whole), Whole[k] = Head(plan),
             Left(Here, Profile.task, Profile.src, k)
      PROVE  /\ Left(d, Profile.task, Profile.src, k + 1)
             /\ Here.repo = Profile.src /\ Here.spec = Profile.src /\ Here.gold = Profile.src
             /\ Passing(Here.tests, Profile.src) = Here.tests
  <2>1. k = 8
    BY <1>1, <1>7, StageAt
  <2> QED
    BY <1>2, <1>3, <1>6, <1>7, <2>1 DEF Left
<1>8. Together(p)
  <2>1. CASE command \in {"run", "batch"}
    <3>1. PICK k \in 1 .. Len(Whole) + 1 :
            plan = SubSeq(Whole, k, Len(Whole)) /\ Left(Here, Profile.task, Profile.src, k)
      BY <2>1 DEF LInv, InProgress
    <3>2. k \in 1 .. Len(Whole) /\ Whole[k] = Head(plan)
      BY <1>1, <3>1, NextStage
    <3>3. /\ Here.repo = Profile.src /\ Here.spec = Profile.src /\ Here.gold = Profile.src
          /\ Passing(Here.tests, Profile.src) = Here.tests
      BY <1>7, <3>1, <3>2
    <3>4. p.suites => Passing(p.tests, p.gold) = p.tests
      BY <1>3, <3>3
    <3> QED
      BY <1>3, <3>3, <3>4 DEF Together
  <2>2. CASE command \notin {"run", "batch"}
    BY <1>3, <2>2 DEF Together
  <2> QED
    BY <2>1, <2>2
<1>9. CASE Pass(d)
  BY <1>1, <1>5, <1>6, <1>7, <1>8, <1>9, PassKeeps
<1>10. CASE Fail([Here EXCEPT !.package = Partial])
  <2> DEFINE e == [Here EXCEPT !.package = Partial]
  <2>1. e \in DirType
    BY <1>1, DirUpdated
  <2>2. e.package = Partial /\ Fail(e)
    BY <1>1, <1>10 DEF DirType
  <2>3. Together(e.package)
    BY <2>2 DEF Together
  <2> HIDE DEF e
  <2> QED
    BY <1>1, <2>1, <2>2, <2>3, FailKeeps
<1> QED
  BY <1>4, <1>9, <1>10
-----------------------------------------------------------------------------
(* Commands.                                                               *)

LEMMA StartKeeps == ASSUME LInv, Start PROVE LInv'
<1>1. PICK cmd \in Commands, profiles \in Seq(Profiles) :
        /\ Begin(cmd, profiles, plan') /\ profiles # <<>>
        /\ Len(profiles) <= 1 \/ cmd = "batch"
        /\ cmd = "construct" => plan' = Construction
        /\ cmd \in {"run", "batch"} => plan' = RunStages
  <2>1. ASSUME NEW p \in Profiles
        PROVE  <<p>> \in Seq(Profiles) /\ <<p>> # <<>> /\ Len(<<p>>) <= 1
    OBVIOUS
  <2>2. CASE StartStage
    <3>1. PICK p \in Profiles, s \in Stages : Begin("stage", <<p>>, <<s>>)
      BY <2>2 DEF StartStage
    <3> QED
      BY <2>1, <3>1 DEF Commands, Begin
  <2>3. CASE StartConstruct
    <3>1. PICK p \in Profiles : Begin("construct", <<p>>, Construction)
      BY <2>3 DEF StartConstruct
    <3> QED
      BY <2>1, <3>1 DEF Commands, Begin
  <2>4. CASE StartRun
    <3>1. PICK p \in Profiles : Begin("run", <<p>>, RunStages)
      BY <2>4 DEF StartRun
    <3> QED
      BY <2>1, <3>1 DEF Commands, Begin
  <2>5. CASE StartBatch
    <3>1. PICK b \in Batches : b # <<>> /\ Begin("batch", b, RunStages)
      BY <2>5 DEF StartBatch
    <3>2. b \in Seq(Profiles)
      BY PipelineAssumption
    <3> QED
      BY <3>1, <3>2 DEF Commands, Begin
  <2> QED
    BY <2>2, <2>3, <2>4, <2>5 DEF Start
<1>2. /\ command' = cmd /\ todo' = profiles /\ done' = <<>>
      /\ outcome' = "none" /\ UNCHANGED <<dir, report, last>>
  BY <1>1 DEF Begin
<1>3. ControlType'
  BY <1>1, <1>2 DEF ControlType, Commands
<1>4. InProgress'
  <2> SUFFICES ASSUME cmd \in {"construct", "run", "batch"}
               PROVE  \E k \in 1 .. Len(Whole') + 1 :
                        /\ plan' = SubSeq(Whole', k, Len(Whole'))
                        /\ Left(Here, Profile.task, Profile.src, k)'
    BY <1>2 DEF InProgress
  <2>1. plan' = Whole'
    BY <1>1, <1>2 DEF Whole
  <2>2. Whole' \in Seq(Names)
    BY ConstructionStages, RunHasStages DEF Whole
  <2>3. SubSeq(Whole', 1, Len(Whole')) = Whole'
    BY <2>2, SubSeqFull
  <2>4. 1 \in 1 .. Len(Whole') + 1
    <3>1. Len(Whole') \in Nat
      BY <2>2
    <3> QED
      BY <3>1
  <2>5. Left(Here, Profile.task, Profile.src, 1)'
    BY DEF Left
  <2> QED
    BY <2>1, <2>3, <2>4, <2>5
<1>5. BatchSoFar'
  BY <1>2 DEF BatchSoFar
<1>6. dir' \in [Tasks -> DirType] /\ ReleasedTogether'
  BY <1>2 DEF LInv, ReleasedTogether, Passing
<1>7. ConstructedIsScored' /\ SuccessfulTasksHavePackages'
  BY <1>2 DEF ConstructedIsScored, SuccessfulTasksHavePackages
<1> QED
  BY <1>3, <1>4, <1>5, <1>6, <1>7 DEF LInv

\* A command that has no stage to come has left all it was to leave.
LEMMA AllIsLeft ==
  ASSUME LInv, Staged, plan = <<>>
  PROVE  Left(Here, Profile.task, Profile.src, Len(Whole) + 1)
<1>1. PICK k \in 1 .. Len(Whole) + 1 :
        plan = SubSeq(Whole, k, Len(Whole)) /\ Left(Here, Profile.task, Profile.src, k)
  BY DEF LInv, InProgress, Staged
<1> QED
  BY <1>1, NextStage

\* The summaries of a batch are of what is on disk, the last one included.
LEMMA SummariesHold ==
  ASSUME LInv, command = "batch", plan = <<>>,
         NEW all, all = Append(done, Here.summary)
  PROVE  /\ all \in Seq(Summaries)
         /\ \A i \in DOMAIN all :
              /\ Counted(all[i])
              /\ ~Superseded(i, all) => dir[all[i].task].package = all[i].package
<1>1. /\ Here.package \in Packages /\ Here.package.spec = Profile.src
      /\ Here.summary \in Summaries /\ Here.summary.spec = Profile.src
      /\ Here.summary.package = Here.package /\ Here.summary.task = Profile.task
  <2>1. Left(Here, Profile.task, Profile.src, Len(Whole) + 1)
    BY AllIsLeft DEF Staged
  <2>2. Len(Whole) + 1 = 10
    <3>1. Whole = RunStages
      BY DEF Whole
    <3>2. Len(Whole) = 9
      BY <3>1, RunHasStages
    <3> QED
      BY <3>2
  <2> QED
    BY <2>1, <2>2 DEF Left
<1>2. /\ done \in Seq(Summaries)
      /\ \A i \in DOMAIN done :
           /\ Counted(done[i])
           /\ ~Superseded(i, done) /\ done[i].task # Profile.task =>
                dir[done[i].task].package = done[i].package
  BY DEF LInv, BatchSoFar
<1>3. /\ all \in Seq(Summaries) /\ Len(all) = Len(done) + 1
      /\ \A i \in 1 .. Len(done) : all[i] = done[i]
      /\ all[Len(done) + 1] = Here.summary
  BY <1>1, <1>2, AppendProperties
<1>4. Len(done) \in Nat /\ DOMAIN done = 1 .. Len(done) /\ DOMAIN all = 1 .. Len(done) + 1
  BY <1>2, <1>3
<1>5. ASSUME NEW i \in DOMAIN all
      PROVE  /\ Counted(all[i])
             /\ ~Superseded(i, all) => dir[all[i].task].package = all[i].package
  <2>1. CASE i = Len(done) + 1
    BY <1>1, <1>3, <2>1 DEF Counted, Here
  <2>2. CASE i \in 1 .. Len(done)
    <3>1. all[i] = done[i] /\ i \in DOMAIN done /\ Counted(done[i])
      BY <1>2, <1>3, <1>4, <2>2
    <3>2. ASSUME ~Superseded(i, all) PROVE ~Superseded(i, done) /\ done[i].task # Profile.task
      <4>1. done[i].task # Profile.task
        <5>1. Len(done) + 1 \in DOMAIN all /\ Len(done) + 1 > i
          BY <1>4, <2>2
        <5> QED
          BY <1>1, <1>3, <3>1, <3>2, <5>1 DEF Superseded
      <4>2. ASSUME NEW j \in DOMAIN done, j > i, done[j].task = done[i].task PROVE FALSE
        <5>1. j \in DOMAIN all /\ all[j] = done[j]
          BY <1>3, <1>4, <4>2
        <5> QED
          BY <3>1, <3>2, <4>2, <5>1 DEF Superseded
      <4> QED
        BY <4>1, <4>2 DEF Superseded
    <3> QED
      BY <1>2, <3>1, <3>2
  <2> QED
    BY <1>4, <2>1, <2>2
<1> QED
  BY <1>3, <1>5

LEMMA FinishKeeps == ASSUME LInv, Finish PROVE LInv'
<1>1. /\ command = "batch" /\ plan = <<>> /\ Len(todo) > 1 /\ todo \in Seq(Profiles)
  BY DEF LInv, ControlType, Finish
<1>2. /\ done' = Append(done, Here.summary) /\ todo' = Tail(todo) /\ plan' = RunStages
      /\ UNCHANGED <<dir, command, report, outcome, last>>
  BY DEF Finish
<1>3. ControlType'
  <2>1. todo # <<>>
    BY <1>1
  <2>2. Tail(todo) \in Seq(Profiles) /\ Len(Tail(todo)) = Len(todo) - 1
    BY <1>1, <2>1, HeadTailProperties
  <2>3. Len(todo) \in Nat
    BY <1>1
  <2>4. Len(Tail(todo)) # 0
    BY <1>1, <2>2, <2>3
  <2>5. Tail(todo) # <<>>
    BY <2>4
  <2> QED
    BY <1>1, <1>2, <2>2, <2>5 DEF ControlType, Commands
<1>4. InProgress'
  <2>1. Whole' = RunStages
    BY <1>1, <1>2 DEF Whole
  <2>2. SubSeq(RunStages, 1, Len(RunStages)) = RunStages /\ 1 \in 1 .. Len(RunStages) + 1
    BY RunHasStages, SubSeqFull
  <2>3. Left(Here, Profile.task, Profile.src, 1)'
    BY DEF Left
  <2> QED
    BY <1>2, <2>1, <2>2, <2>3 DEF InProgress
<1>5. BatchSoFar'
  <2> DEFINE all == Append(done, Here.summary)
  <2>1. /\ all \in Seq(Summaries)
        /\ \A i \in DOMAIN all :
             /\ Counted(all[i])
             /\ ~Superseded(i, all) => dir[all[i].task].package = all[i].package
    BY <1>1, SummariesHold
  <2>2. done' = all /\ dir' = dir
    BY <1>2
  <2> HIDE DEF all
  <2> QED
    BY <2>1, <2>2 DEF BatchSoFar, Superseded, Counted
<1>6. dir' \in [Tasks -> DirType] /\ ReleasedTogether'
  BY <1>2 DEF LInv, ReleasedTogether, Passing
<1>7. ConstructedIsScored' /\ SuccessfulTasksHavePackages'
  BY <1>1, <1>2 DEF ConstructedIsScored, SuccessfulTasksHavePackages
<1> QED
  BY <1>3, <1>4, <1>5, <1>6, <1>7 DEF LInv

LEMMA EndKeeps == ASSUME LInv, End PROVE LInv'
<1>1. /\ command # "idle" /\ plan = <<>> /\ Len(todo) = 1
      /\ command' = "idle" /\ outcome' = command /\ todo' = <<>> /\ last' = Profile
      /\ UNCHANGED <<dir, done>>
      /\ command = "batch" => report' = WriteBatchSummary(Append(done, Here.summary))
  BY DEF End
<1>2. ControlType'
  BY <1>1 DEF ControlType
<1>3. InProgress' /\ BatchSoFar'
  BY <1>1 DEF InProgress, BatchSoFar
<1>4. dir' \in [Tasks -> DirType] /\ ReleasedTogether'
  BY <1>1 DEF LInv, ReleasedTogether, Passing
<1>5. ConstructedIsScored'
  <2> SUFFICES ASSUME command = "construct"
               PROVE  /\ Here.quality # None /\ Here.summary.quality = Here.quality
                      /\ Here.summary.spec = Profile.src
                      /\ Here.quality.src = Profile.src /\ Here.gold = Profile.src
                      /\ Here.quality.tests = UnderTest(Here)
    BY <1>1 DEF ConstructedIsScored, Here
  <2>1. Left(Here, Profile.task, Profile.src, Len(Whole) + 1)
    BY <1>1, AllIsLeft DEF Staged
  <2>2. Len(Whole) + 1 = 8
    <3>1. Whole = Construction
      BY DEF Whole
    <3>2. Len(Whole) = 7
      BY <3>1, ConstructionStages
    <3> QED
      BY <3>2
  <2> QED
    BY <2>1, <2>2 DEF Left
<1>6. SuccessfulTasksHavePackages'
  <2> DEFINE all == Append(done, Here.summary)
  <2> SUFFICES ASSUME command = "batch"
               PROVE  SuccessfulTasksHavePackages'
    BY <1>1 DEF SuccessfulTasksHavePackages
  <2>1. /\ all \in Seq(Summaries)
        /\ \A i \in DOMAIN all :
             /\ Counted(all[i])
             /\ ~Superseded(i, all) => dir[all[i].task].package = all[i].package
    BY <1>1, SummariesHold
  <2>2. report' = WriteBatchSummary(all) /\ dir' = dir
    BY <1>1
  <2> HIDE DEF all
  <2>3. report'.tasks = all /\ report'.successful \subseteq DOMAIN all
    BY <2>2 DEF WriteBatchSummary
  <2>4. ASSUME NEW i \in DOMAIN all, \A j \in DOMAIN all : all[j].task = all[i].task => j <= i
        PROVE  ~Superseded(i, all)
    <3>1. \A j \in DOMAIN all : j \in Nat
      BY <2>1
    <3>2. ASSUME NEW j \in DOMAIN all, j > i, all[j].task = all[i].task PROVE FALSE
      <4>1. j <= i /\ i \in Nat /\ j \in Nat
        BY <2>4, <3>1, <3>2
      <4> QED
        BY <3>2, <4>1
    <3> QED
      BY <3>2 DEF Superseded
  <2>5. ASSUME NEW s, Counted(s) PROVE s.package \notin {None, Partial} /\ s.package.spec = s.spec
    BY <2>5, PipelineAssumption DEF Counted
  <2> QED
    BY <2>1, <2>2, <2>3, <2>4, <2>5 DEF SuccessfulTasksHavePackages
<1> QED
  BY <1>2, <1>3, <1>4, <1>5, <1>6 DEF LInv

LEMMA KillKeeps == ASSUME LInv, Kill PROVE LInv'
<1>1. command' = "idle" /\ outcome' = "raised" /\ todo' = <<>> /\ UNCHANGED dir
  BY DEF Kill, Abort
<1>2. ControlType'
  BY <1>1 DEF ControlType
<1>3. dir' \in [Tasks -> DirType] /\ ReleasedTogether'
  BY <1>1 DEF LInv, ReleasedTogether, Passing
<1> QED
  BY <1>1, <1>2, <1>3 DEF LInv, InProgress, BatchSoFar, ConstructedIsScored,
     SuccessfulTasksHavePackages

LEMMA StutterKeeps == ASSUME LInv, UNCHANGED vars PROVE LInv'
<1>1. UNCHANGED <<dir, command, todo, plan, done, report, outcome, last>>
  BY DEF vars, control
<1>2. Profile' = Profile /\ Here' = Here /\ Whole' = Whole
  BY <1>1 DEF Profile, Here, Whole
<1>3. ControlType' /\ InProgress' /\ BatchSoFar'
  BY <1>1, <1>2 DEF LInv, ControlType, InProgress, BatchSoFar, Counted, Superseded
<1>4. ReleasedTogether' /\ ConstructedIsScored' /\ SuccessfulTasksHavePackages'
  BY <1>1 DEF LInv, ReleasedTogether, ConstructedIsScored, SuccessfulTasksHavePackages, Passing
<1> QED
  BY <1>1, <1>3, <1>4 DEF LInv

LEMMA NothingYet == Init => LInv
<1> SUFFICES ASSUME Init PROVE LInv
  OBVIOUS
<1>1. dir = [t \in Tasks |-> EmptyDir] /\ command = "idle" /\ todo = <<>> /\ outcome = "none"
  BY DEF Init
<1>2. EmptyDir \in DirType
  <2>1. [i \in Iterations |-> None] \in [Iterations -> Coverages \cup {None}]
    OBVIOUS
  <2> QED
    BY <2>1 DEF EmptyDir, DirType, Trees
<1>3. dir \in [Tasks -> DirType] /\ \A t \in Tasks : dir[t].package = None
  BY <1>1, <1>2 DEF EmptyDir
<1>4. ControlType
  BY <1>1 DEF ControlType
<1> QED
  BY <1>1, <1>3, <1>4 DEF LInv, InProgress, BatchSoFar, ReleasedTogether, ConstructedIsScored,
     SuccessfulTasksHavePackages

LEMMA CommandSteps == ASSUME LInv, [Next]_vars PROVE LInv'
  BY StartKeeps, InitTaskKeeps, OverrideKeeps, BuildGoldKeeps, DiscoverSurfaceKeeps,
     GenerateKeeps, EvaluateSuiteKeeps, WriteSummaryKeeps, ReleaseKeeps, FinishKeeps, EndKeeps,
     KillKeeps, StutterKeeps, Zenon DEF Next, Stage

\* Before its k-th stage a command has left the work of the stages before it,
\* whatever an earlier run of the task left on disk.
THEOREM StagesInvariant == Spec => []LInv
  BY NothingYet, CommandSteps, PTL DEF Spec

\* Commands that return leave files made of one state of the source
\* (pipeline.py:15-51, task_constructor.py:21-92).
THEOREM OneSource == Spec => []FilesAreOfOneSource
<1>1. LInv => TypeOK
  <2> SUFFICES ASSUME LInv PROVE TypeOK
    OBVIOUS
  <2>1. ControlType /\ \A t \in Tasks : dir[t] \in DirType
    BY DEF LInv
  <2>2. ASSUME NEW t \in Tasks
        PROVE  /\ dir[t].repo \in Sources \cup {None, Partial}
               /\ dir[t].spec \in Sources \cup {None}
               /\ dir[t].gold \in Sources \cup {None, Partial}
               /\ dir[t].tests \subseteq Sources \cup {Partial}
               /\ dir[t].bare \subseteq Sources \cup {Partial}
               /\ dir[t].suites \in BOOLEAN
               /\ dir[t].coverage \in [Iterations -> Coverages \cup {None}]
    BY <2>1 DEF DirType, Trees
  <2>3. \A c \in Coverages : c.measured \in BOOLEAN
    BY DEF Coverages
  <2>4. ASSUME NEW t \in Tasks, NEW i \in Iterations, dir[t].coverage[i] # None
        PROVE  dir[t].coverage[i].measured \in BOOLEAN
    <3>1. dir[t].coverage[i] \in Coverages
      BY <2>2, <2>4
    <3> QED
      BY <2>3, <3>1
  <2> QED
    BY <2>1, <2>2, <2>4 DEF TypeOK, ControlType, Commands
<1> QED
  BY <1>1, StagesInvariant, PTL DEF LInv, FilesAreOfOneSource

\* Each task a batch counts has the packages it was counted for, unless a later
\* profile of the batch has its task id (reporting/run_summary.py:158).
THEOREM SuccessHasPackages == Spec => []SuccessfulTasksHavePackages
  BY StagesInvariant, PTL DEF LInv
=============================================================================

---------------------------- MODULE GoldProofs ----------------------------
(***************************************************************************)
(* What the files in gold/ say of each other, for any names, task specs    *)
(* and number of builds; and, from "Sorting by keys" on, what the task     *)
(* spec says that a build begins with, for any repository.                 *)
(***************************************************************************)
EXTENDS MCGoldBuild, FiniteSetTheorems, SequenceTheorems, WellFoundedInduction, TLAPS

\* What the loop has produced is on disk, written by this call.
ProducedIsWritten ==
  phase \in {"install", "app", "probe", "log", "record"} =>
    \A n \in built : outs[n] = call

\* From the installation on the program is that of this call.
InstalledIsCurrent ==
  phase \in {"app", "probe", "log", "record"} => program.call = call

\* Up to the installation gold/ is as the call found it.
UntouchedBeforeInstall ==
  phase \in {"adapter", "try", "install"} => gold = gold0

\* A recorded program was installed, and installed programs stay.
RecordedIsInstalled == artifact # None => program # None

NothingOfLaterCalls ==
  /\ died \subseteq 1 .. call
  /\ program # None => program.call <= call
  /\ program # None /\ phase \in {"adapter", "try", "install"} =>
       program.call < call

GInv ==
  /\ TypeOK
  /\ ProducedIsWritten
  /\ InstalledIsCurrent
  /\ UntouchedBeforeInstall
  /\ RecordedIsInstalled
  /\ NothingOfLaterCalls
  /\ MismatchMeansDied
  /\ FailureKeepsGold

\* A candidate has worked and its executables are being installed.
Working == {"install", "app", "probe", "log", "record"}

\* The executables of the candidate that worked were written with the
\* application directory, if it was the package builder that worked.
LastAttempt == attempts[Len(attempts)]

AppOfThisCall ==
  /\ phase \in Working /\ LastAttempt.system = "python-package" =>
       outsApp = call
  /\ phase \in {"probe", "log", "record"} /\ LastAttempt.system = "python-package" =>
       programApp = call

ProgramIsBuilt ==
  /\ phase \in Working \ {"install"} => program.name \in built
  /\ phase = "record" => log = [call |-> call, failed |-> FALSE]

\* The candidates of the spec are those on record and those still to be tried.
OnRecord ==
  /\ Len(attempts) + Len(queue) = Len(Candidates)
  /\ \A i \in 1 .. Len(attempts) :
       attempts[i].system = Recorded(Candidates[i]) /\ attempts[i].entries # <<>>
  /\ \A i \in 1 .. Len(queue) : queue[i] = Candidates[Len(attempts) + i]

\* The last entry of a candidate.
FinalEntry(attempt) == attempt.entries[Len(attempt.entries)]

\* None of the first k candidates claims to have worked, unless it is CMake's.
NoneWorked(k) ==
  \A i \in 1 .. k : FinalEntry(attempts[i]) = "succeeded" => Candidates[i] = "cmake"

Remaining ==
  /\ phase = "adapter" => attempts = <<>>
  /\ phase = "try" => OnRecord /\ NoneWorked(Len(attempts))

CInv ==
  /\ AppOfThisCall
  /\ ProgramIsBuilt
  /\ Remaining
  /\ BuiltIsOfOneCall
  /\ FirstWorkingCandidate
  /\ RefusalIsReported
-----------------------------------------------------------------------------
\* None is no program and no call.
LEMMA NoneIsApart == None \notin Calls
  BY GoldAssumption DEF Calls

\* Sequences of one element, and of one element repeated.
LEMMA Repeated ==
  ASSUME NEW S, NEW x \in S, NEW n \in Nat
  PROVE  <<x>> \in Seq(S) /\ [i \in 1 .. n |-> x] \in Seq(S)
  OBVIOUS

\* The candidates are a sequence of build systems.
LEMMA CandidatesType ==
  ASSUME TypeOK
  PROVE  Candidates \in Seq(Systems)
<1> DEFINE all == IF spec.candidates # <<>> THEN spec.candidates
                  ELSE <<IF spec.system = NoSystem THEN "script" ELSE spec.system>>
           asked == {i \in DOMAIN all : all[i] = override}
<1>1. spec \in SpecType /\ override \in Systems
  BY GoldAssumption DEF TypeOK
<1>2. all \in Seq(Systems)
  <2> DEFINE only == IF spec.system = NoSystem THEN "script" ELSE spec.system
  <2>1. spec.candidates \in Seq(Systems)
    BY <1>1, Zenon DEF SpecType
  <2>2. only \in Systems
    BY <1>1, GoldAssumption DEF SpecType
  <2> HIDE DEF only
  <2>3. <<only>> \in Seq(Systems)
    BY <2>2, Repeated
  <2> QED
    BY <2>1, <2>3, Zenon DEF only
<1>3. Cardinality(asked) \in Nat
  <2> HIDE DEF all
  <2>1. DOMAIN all = 1 .. Len(all) /\ Len(all) \in Nat
    BY <1>2, LenProperties
  <2>2. IsFiniteSet(DOMAIN all)
    BY <2>1, FS_Interval
  <2> QED
    BY <2>2, FS_Subset, FS_CardinalityType
<1>4. [i \in 1 .. Cardinality(asked) |-> override] \in Seq(Systems)
  <2> HIDE DEF asked
  <2> QED
    BY <1>1, <1>3, Repeated
<1> QED
  BY <1>2, <1>4 DEF Candidates

\* The primary executable is one of those that were built.
LEMMA PrimaryIsBuilt ==
  ASSUME NEW N, N # {}
  PROVE  ChoosePrimary(N) \in N
  BY DEF ChoosePrimary

\* What builders leave in build_attempts.
LEMMA ReturnsEntries ==
  ASSUME NEW c, NEW N, NEW entries \in Returns(c, N)
  PROVE  /\ entries \in Seq(Statuses) /\ entries # <<>>
         /\ entries[Len(entries)] = Verdict(c, N)
<1>1. Verdict(c, N) \in Statuses
  BY DEF Verdict, Statuses
<1>2. "succeeded" \in Statuses /\ "skipped" \in Statuses
  BY DEF Statuses
<1> DEFINE v == Verdict(c, N)
<1>3. ASSUME NEW clean \in Statuses, entries = <<clean, v>>
      PROVE  /\ entries \in Seq(Statuses) /\ entries # <<>>
             /\ entries[Len(entries)] = v
  <2> HIDE DEF v
  <2> QED
    BY <1>1, <1>3 DEF v
<1>4. ASSUME entries = <<v>>
      PROVE  /\ entries \in Seq(Statuses) /\ entries # <<>>
             /\ entries[Len(entries)] = v
  <2> HIDE DEF v
  <2> QED
    BY <1>1, <1>4 DEF v
<1> QED
  BY <1>2, <1>3, <1>4 DEF Returns, Cleaned

LEMMA RaisesEntries ==
  ASSUME NEW c, NEW own \in OwnEntries(c)
  PROVE  LET entries == Append(own, "failed")
         IN  /\ entries \in Seq(Statuses) /\ entries # <<>>
             /\ entries[Len(entries)] = "failed"
<1>1. own \in Seq(Statuses)
  <2>1. <<>> \in Seq(Statuses)
    OBVIOUS
  <2>2. \A s \in {"succeeded", "skipped", "failed", "blocked", "tool_unavailable"} :
          <<s>> \in Seq(Statuses) /\ <<s, "failed">> \in Seq(Statuses)
    BY DEF Statuses
  <2>3. \/ own = <<>>
        \/ \E s \in {"succeeded", "skipped", "failed", "blocked", "tool_unavailable"} :
             own = <<s>> \/ own = <<s, "failed">>
    <3>1. CASE c = "make"
      BY <3>1 DEF OwnEntries, Cleaned
    <3>2. CASE c # "make"
      <4>1. OwnEntries(c) \subseteq {<<>>, <<"blocked">>, <<"failed">>, <<"tool_unavailable">>}
        BY <3>2 DEF OwnEntries
      <4> QED
        BY <4>1
    <3> QED
      BY <3>1, <3>2
  <2> QED
    BY <2>1, <2>2, <2>3
<1>2. "failed" \in Statuses
  BY DEF Statuses
<1> QED
  BY <1>1, <1>2, AppendProperties

LEMMA SkippedEntry ==
  /\ <<"skipped">> \in Seq(Statuses) /\ <<"skipped">> # <<>>
  /\ <<"skipped">>[Len(<<"skipped">>)] = "skipped"
  BY DEF Statuses

\* A builder that returns executables ends in "succeeded", and of those that
\* return none only CMake's does.
LEMMA VerdictTells ==
  ASSUME NEW c, NEW N
  PROVE  /\ N # {} => Verdict(c, N) = "succeeded"
         /\ N = {} /\ Verdict(c, N) = "succeeded" => c = "cmake"
  BY DEF Verdict

LEMMA InitGInv == Init => GInv
<1> SUFFICES ASSUME Init PROVE GInv
  OBVIOUS
<1>1. TypeOK
  BY GoldAssumption DEF Init, TypeOK, gold, Phases, Outcomes
<1> QED
  BY <1>1 DEF Init, GInv, ProducedIsWritten, InstalledIsCurrent,
     UntouchedBeforeInstall, RecordedIsInstalled, NothingOfLaterCalls,
     MismatchMeansDied, FailureKeepsGold

\* What every action needs to know of the state before it.
LEMMA NextGInv == GInv /\ [Next]_vars => GInv'
<1> SUFFICES ASSUME GInv, [Next]_vars PROVE GInv'
  OBVIOUS
<1> USE GoldAssumption, NoneIsApart
    DEF GInv, TypeOK, ProducedIsWritten, InstalledIsCurrent,
        UntouchedBeforeInstall, RecordedIsInstalled, NothingOfLaterCalls,
        MismatchMeansDied, FailureKeepsGold, gold, Calls
<1>1. CASE Intake
  BY <1>1 DEF Intake, files, process
<1>2. CASE Start
  <2>1. TypeOK'
    BY <1>2 DEF Start, files, Phases, Outcomes
  <2>2. program # None => program.call < call'
    BY <1>2 DEF Start, Programs
  <2>3. UNCHANGED <<artifact, program, programApp, died>> /\ gold0' = gold'
    BY <1>2 DEF Start, files
  <2>4. phase' = "adapter" /\ outcome' = "none" /\ phase = "idle" /\ call' = call + 1
    BY <1>2 DEF Start
  <2>5. NothingOfLaterCalls'
    BY <2>2, <2>3, <2>4 DEF Programs
  <2> HIDE DEF TypeOK
  <2>6. MismatchMeansDied'
    BY <2>3, <2>4
  <2> QED
    BY <2>1, <2>3, <2>4, <2>5, <2>6
<1>3. CASE SelectAdapter
  <2>1. queue' \in Seq(Systems)
    BY <1>3, CandidatesType DEF SelectAdapter
  <2>2. capability' \in [call : Calls, supported : BOOLEAN]
    BY <1>3 DEF SelectAdapter, Supports
  <2> QED
    <3>1. \/ phase' = "try" /\ outcome' = outcome
          \/ phase' = "idle" /\ outcome' = "refused"
      BY <1>3 DEF SelectAdapter, End
    <3>2. UNCHANGED <<spec, outs, outsApp, program, programApp, log, artifact,
                      call, override, attempts, built, gold0, died>>
      BY <1>3 DEF SelectAdapter
    <3>3. phase = "adapter"
      BY <1>3 DEF SelectAdapter
    <3>4. TypeOK'
      BY <2>1, <2>2, <3>1, <3>2, <3>3 DEF Phases, Outcomes
    <3> HIDE DEF TypeOK
    <3>5. gold = gold0
      BY <3>3
    <3>6. FailureKeepsGold' /\ UntouchedBeforeInstall'
      BY <3>2, <3>5
    <3>7. RecordedIsInstalled' /\ NothingOfLaterCalls'
      BY <3>2, <3>3
    <3>8. program # None => program.call # call
      BY <3>3 DEF TypeOK, Programs
    <3>9. MismatchMeansDied'
      BY <3>2, <3>8
    <3> HIDE DEF FailureKeepsGold, MismatchMeansDied, UntouchedBeforeInstall
    <3> QED
      BY <3>1, <3>4, <3>6, <3>7, <3>9
<1>4. ASSUME phase = "try", queue # <<>>, NEW entries \in Seq(Statuses), Tried(entries)
      PROVE  /\ attempts' \in Seq(Attempts) /\ attempts' # <<>>
             /\ queue' \in Seq(Systems)
  <2>1. Head(queue) \in Systems /\ Tail(queue) \in Seq(Systems)
    BY <1>4, HeadTailProperties
  <2>2. [system |-> Recorded(Head(queue)), entries |-> entries] \in Attempts
    BY <1>4, <2>1 DEF Attempts, Recorded
  <2> HIDE DEF TypeOK
  <2>3. attempts \in Seq(Attempts)
    BY DEF TypeOK
  <2> QED
    BY <1>4, <2>1, <2>2, <2>3, AppendProperties DEF Tried
<1>5. ASSUME phase = "try", queue # <<>>, NEW N \in SUBSET Names, Produce(N),
             UNCHANGED unbuilt, outsApp' \in Calls \cup {None}
      PROVE  GInv'
  <2>1. /\ attempts' \in Seq(Attempts) /\ attempts' # <<>>
        /\ queue' \in Seq(Systems)
    <3>1. PICK entries \in Returns(Head(queue), N) : Tried(entries)
      BY <1>5 DEF Produce
    <3>2. entries \in Seq(Statuses)
      BY ReturnsEntries
    <3> QED
      BY <1>4, <1>5, <3>1, <3>2
  <2>2. /\ outs' \in [Names -> Calls \cup {None}]
        /\ \A n \in N : outs'[n] = call
    BY <1>5 DEF Produce
  <2> QED
    BY <1>5, <2>1, <2>2 DEF Produce, unbuilt, Phases
<1>6. CASE TryCandidate
  <2>1. CASE BuildScripts
    <3>1. spec.scripts \in SUBSET Names
      BY DEF SpecType
    <3> QED
      BY <2>1, <3>1, <1>5 DEF BuildScripts
  <2>2. CASE BuildPackage
    <3>1. spec.modules \in SUBSET Names
      BY DEF SpecType
    <3> QED
      BY <2>2, <3>1, <1>5 DEF BuildPackage
  <2>3. CASE SkipCandidate
    <3>1. attempts' \in Seq(Attempts) /\ queue' \in Seq(Systems)
      BY <2>3, <1>4, SkippedEntry DEF SkipCandidate
    <3> QED
      BY <2>3, <3>1 DEF SkipCandidate, unbuilt, Phases
  <2>4. CASE CommandTimesOut
    BY <2>4 DEF CommandTimesOut, End, files, Phases, Outcomes
  <2>5. ASSUME NEW N \in SUBSET Names, BuildCompiled(N) PROVE GInv'
    BY <2>5, <1>5 DEF BuildCompiled
  <2>6. ASSUME NEW N \in SUBSET Names, CandidateFails(N) PROVE GInv'
    <3>0. PICK own \in OwnEntries(Head(queue)) : Tried(Append(own, "failed"))
      BY <2>6 DEF CandidateFails
    <3>1. attempts' \in Seq(Attempts) /\ queue' \in Seq(Systems)
      BY <2>6, <3>0, <1>4, RaisesEntries DEF CandidateFails
    <3> QED
      BY <2>6, <3>1 DEF CandidateFails, unbuilt, Phases
  <2> QED
    BY <1>6, <2>1, <2>2, <2>3, <2>4, <2>5, <2>6 DEF TryCandidate
<1>7. CASE NothingBuilt
  <2>1. TypeOK'
    BY <1>7 DEF NothingBuilt, End, Phases, Outcomes
  <2>2. UNCHANGED <<built, outs, call, artifact, program, programApp, gold0, died>>
    BY <1>7 DEF NothingBuilt
  <2>3. phase = "try" /\ phase' = "idle"
    BY <1>7 DEF NothingBuilt, End
  <2> HIDE DEF TypeOK
  <2>4. gold = gold0
    BY <2>3
  <2>5. FailureKeepsGold'
    BY <2>2, <2>4
  <2>6. RecordedIsInstalled' /\ NothingOfLaterCalls'
    BY <2>2, <2>3
  <2>7. program # None => program.call # call
    BY <2>3 DEF TypeOK, Programs
  <2>8. MismatchMeansDied'
    BY <2>2, <2>7
  <2> HIDE DEF FailureKeepsGold, MismatchMeansDied
  <2> QED
    BY <2>1, <2>3, <2>5, <2>6, <2>8
<1>8. CASE Install
  <2>1. ChoosePrimary(built) \in built
    BY <1>8, PrimaryIsBuilt DEF Install
  <2>2. program' \in Programs /\ program'.call = call
    BY <1>8, <2>1 DEF Install, Programs
  <2> QED
    <3>1. TypeOK'
      BY <1>8, <2>2 DEF Install, Phases
    <3>2. program' # None
      BY <2>2, GoldAssumption
    <3>3. call \in Nat /\ call' = call /\ died' = died /\ phase' = "app"
      BY <1>8 DEF Install
    <3>4. program'.call <= call
      BY <2>2, <3>3
    <3>5. MismatchMeansDied' /\ InstalledIsCurrent' /\ RecordedIsInstalled'
      BY <2>2, <3>2, <3>3
    <3>6. NothingOfLaterCalls'
      BY <3>3, <3>4
    <3> HIDE DEF TypeOK, MismatchMeansDied, InstalledIsCurrent,
                 RecordedIsInstalled, NothingOfLaterCalls
    <3> QED
      BY <1>8, <3>1, <3>5, <3>6 DEF Install
<1>9. CASE InstallApp
  BY <1>9 DEF InstallApp, FreshApp, Phases
<1>10. CASE Probe
  BY <1>10 DEF Probe, files, Phases
<1>11. CASE ProbeRaises
  BY <1>11 DEF ProbeRaises, End, files, Phases, Outcomes
<1>12. CASE WriteLog
  BY <1>12 DEF WriteLog, Phases
<1>13. CASE Record
  <2>1. attempts[Len(attempts)] \in Attempts
    BY <1>13, LenProperties, EmptySeq DEF Record
  <2>2. program \in Programs /\ call \in Calls /\ built \in SUBSET Names
    BY <1>13 DEF Record
  <2>3. attempts[Len(attempts)].system \in Systems
    BY <2>1 DEF Attempts
  <2>4. artifact' \in Artifacts /\ artifact'.hash = program
    BY <1>13, <2>2, <2>3 DEF Record, Artifacts
  <2>5. TypeOK'
    BY <1>13, <2>4 DEF Record, End, Phases, Outcomes
  <2>6. program # None
    BY <2>2, GoldAssumption
  <2> HIDE DEF TypeOK
  <2> QED
    BY <1>13, <2>4, <2>5, <2>6 DEF Record, End
<1>14. CASE Kill
  BY <1>14 DEF Kill, End, files, Phases, Outcomes
<1>15. CASE UNCHANGED vars
  BY <1>15 DEF vars, files, process
<1> QED
  BY <1>1, <1>2, <1>3, <1>6, <1>7, <1>8, <1>9, <1>10, <1>11, <1>12, <1>13,
     <1>14, <1>15 DEF Next, Step

\* The files of gold/ and the process always have their types.
THEOREM GoldTypes == Spec => []TypeOK
<1>1. GInv => TypeOK
  BY DEF GInv
<1> QED
  BY <1>1, InitGInv, NextGInv, PTL DEF Spec

\* The record describes the installed program, unless the call that installed
\* it died before it wrote its own.
THEOREM RecordMatchesProgram == Spec => []MismatchMeansDied
<1>1. GInv => MismatchMeansDied
  BY DEF GInv
<1> QED
  BY <1>1, InitGInv, NextGInv, PTL DEF Spec

\* A build that fails with BuildError leaves the last successful one intact.
THEOREM FailedBuildsKeepGold == Spec => []FailureKeepsGold
<1>1. GInv => FailureKeepsGold
  BY DEF GInv
<1> QED
  BY <1>1, InitGInv, NextGInv, PTL DEF Spec

\* Putting the first candidate of the queue on record.
LEMMA OneMoreTried ==
  ASSUME TypeOK, OnRecord, NoneWorked(Len(attempts)), queue # <<>>,
         UNCHANGED <<spec, override>>,
         NEW entries \in Seq(Statuses), entries # <<>>, Tried(entries)
  PROVE  /\ LastAttempt' = [system |-> Recorded(Head(queue)), entries |-> entries]
         /\ OnRecord'
         /\ Len(attempts') = Len(attempts) + 1 /\ Len(attempts) \in Nat
         /\ \A i \in 1 .. Len(attempts) :
              FinalEntry(attempts'[i]) = "succeeded" => Candidates'[i] = "cmake"
         /\ (entries[Len(entries)] = "succeeded" => Head(queue) = "cmake") =>
              NoneWorked(Len(attempts))'
<1> DEFINE new == [system |-> Recorded(Head(queue)), entries |-> entries]
<1>1. /\ attempts \in Seq(Attempts) /\ queue \in Seq(Systems)
      /\ Len(attempts) \in Nat /\ Len(queue) \in Nat \ {0}
  BY LenProperties, EmptySeq DEF TypeOK
<1>2. new \in Attempts
  <2>1. Head(queue) \in Systems
    BY <1>1, HeadTailProperties
  <2> QED
    BY <2>1, GoldAssumption DEF Attempts, Recorded
<1>3. attempts' = Append(attempts, new) /\ queue' = Tail(queue)
  BY DEF Tried
<1>4. Candidates' = Candidates /\ Len(Candidates) \in Nat
  BY CandidatesType, LenProperties DEF Candidates
<1>5. Head(queue) = Candidates[Len(attempts) + 1]
  BY <1>1 DEF OnRecord
<1>6. new.system = Recorded(Candidates[Len(attempts) + 1]) /\ new.entries = entries
  BY <1>5
<1> HIDE DEF new
<1>7. /\ Len(attempts') = Len(attempts) + 1
      /\ \A i \in 1 .. Len(attempts) : attempts'[i] = attempts[i]
      /\ attempts'[Len(attempts) + 1] = new
  BY <1>1, <1>2, <1>3, AppendProperties
<1>8. /\ Len(queue') = Len(queue) - 1
      /\ \A i \in 1 .. Len(queue) - 1 : queue'[i] = queue[i + 1]
  BY <1>1, <1>3, HeadTailProperties
<1>9. LastAttempt' = new
  BY <1>7 DEF LastAttempt
<1>10. OnRecord'
  <2>1. Len(attempts') + Len(queue') = Len(Candidates')
    <3>1. Len(attempts) + Len(queue) = Len(Candidates)
      BY DEF OnRecord
    <3>2. Len(Candidates') = Len(Candidates)
      BY <1>4
    <3>3. Len(attempts') = Len(attempts) + 1 /\ Len(queue') = Len(queue) - 1
      BY <1>7, <1>8
    <3>4. Len(attempts) \in Nat /\ Len(queue) \in Nat
      BY <1>1
    <3> QED
      BY <3>1, <3>2, <3>3, <3>4
  <2>2. ASSUME NEW i \in 1 .. Len(attempts')
        PROVE  /\ attempts'[i].system = Recorded(Candidates'[i])
               /\ attempts'[i].entries # <<>>
    <3>1. Candidates'[i] = Candidates[i]
      BY <1>4
    <3>2. CASE i = Len(attempts) + 1
      BY <1>6, <1>7, <3>1, <3>2
    <3>3. CASE i \in 1 .. Len(attempts)
      BY <1>7, <3>1, <3>3 DEF OnRecord
    <3> QED
      BY <1>1, <1>7, <3>2, <3>3
  <2>3. ASSUME NEW i \in 1 .. Len(queue')
        PROVE  queue'[i] = Candidates'[Len(attempts') + i]
    BY <1>1, <1>4, <1>7, <1>8 DEF OnRecord
  <2> QED
    BY <2>1, <2>2, <2>3 DEF OnRecord
<1>11. ASSUME NEW i \in 1 .. Len(attempts), FinalEntry(attempts'[i]) = "succeeded"
       PROVE  Candidates'[i] = "cmake"
  BY <1>4, <1>7, <1>11 DEF NoneWorked
<1>12. ASSUME entries[Len(entries)] = "succeeded" => Head(queue) = "cmake"
       PROVE  NoneWorked(Len(attempts))'
  <2>1. FinalEntry(new) = entries[Len(entries)]
    BY <1>6 DEF FinalEntry
  <2>2. ASSUME NEW i \in 1 .. Len(attempts'), FinalEntry(attempts'[i]) = "succeeded"
        PROVE  Candidates'[i] = "cmake"
    <3>1. CASE i = Len(attempts) + 1
      BY <1>4, <1>5, <1>7, <1>12, <2>1, <2>2, <3>1
    <3>2. CASE i \in 1 .. Len(attempts)
      BY <1>11, <2>2, <3>2
    <3> QED
      BY <1>1, <1>7, <3>1, <3>2
  <2> QED
    BY <2>2 DEF NoneWorked
<1> QED
  BY <1>1, <1>7, <1>9, <1>10, <1>11, <1>12 DEF new

\* A report that a build system is not supported says what was refused.
LEMMA RefusedIsUnsupported ==
  ASSUME ~BackendGranted(spec.language, spec.system, override)
  PROVE  Supports(Select(spec.language, System), System) = FALSE
  BY DEF BackendGranted, System, Supports

LEMMA InitCInv == Init => CInv
  BY DEF Init, CInv, AppOfThisCall, ProgramIsBuilt, Remaining, Working,
     BuiltIsOfOneCall, FirstWorkingCandidate, RefusalIsReported

\* A step that looks for no candidate, or ends the call without a record.
LEMMA EndsCall ==
  ASSUME phase' = "idle", outcome' \notin {"built", "refused"}
  PROVE  CInv'
  BY DEF CInv, AppOfThisCall, ProgramIsBuilt, Remaining, Working,
     BuiltIsOfOneCall, FirstWorkingCandidate, RefusalIsReported

LEMMA NextCInv == GInv /\ CInv /\ [Next]_vars => CInv'
<1> SUFFICES ASSUME GInv, CInv, [Next]_vars PROVE CInv'
  OBVIOUS
<1>0. TypeOK
  BY DEF GInv
<1> USE DEF CInv, Working
<1>1. ASSUME phase = "try", queue # <<>>, NEW entries \in Seq(Statuses), entries # <<>>,
             entries[Len(entries)] = "succeeded" => Head(queue) = "cmake",
             Tried(entries), phase' = "try", UNCHANGED <<spec, override>>
      PROVE  CInv'
  <2>1. OnRecord' /\ NoneWorked(Len(attempts))'
    BY <1>0, <1>1, OneMoreTried DEF Remaining
  <2>2. FirstWorkingCandidate'
    BY <1>1, <2>1 DEF FirstWorkingCandidate, OnRecord, NoneWorked, FinalEntry
  <2> QED
    BY <1>1, <2>1, <2>2 DEF AppOfThisCall, ProgramIsBuilt, Remaining,
       BuiltIsOfOneCall, RefusalIsReported
<1>2. ASSUME phase = "try", queue # <<>>, NEW N \in SUBSET Names, Produce(N),
             UNCHANGED unbuilt,
             Head(queue) = "python-package" => outsApp' = call
      PROVE  CInv'
  <2>0. PICK entries \in Returns(Head(queue), N) : Tried(entries)
    BY <1>2 DEF Produce
  <2>1. /\ entries \in Seq(Statuses) /\ entries # <<>>
        /\ entries[Len(entries)] = Verdict(Head(queue), N)
    BY ReturnsEntries
  <2>2. CASE N = {}
    <3>1. entries[Len(entries)] = "succeeded" => Head(queue) = "cmake"
      BY <2>1, <2>2, VerdictTells
    <3>2. phase' = "try" /\ UNCHANGED <<spec, override>>
      BY <1>2, <2>2 DEF Produce, unbuilt
    <3> QED
      BY <1>1, <1>2, <2>0, <2>1, <3>1, <3>2
  <2>3. CASE N # {}
    <3>1. phase' = "install" /\ UNCHANGED <<spec, override, call>>
      BY <1>2, <2>3 DEF Produce, unbuilt
    <3>2. OnRecord /\ NoneWorked(Len(attempts))
      BY <1>2 DEF Remaining
    <3>3. /\ LastAttempt' = [system |-> Recorded(Head(queue)), entries |-> entries]
          /\ OnRecord'
          /\ Len(attempts') = Len(attempts) + 1 /\ Len(attempts) \in Nat
          /\ \A i \in 1 .. Len(attempts) :
               FinalEntry(attempts'[i]) = "succeeded" => Candidates'[i] = "cmake"
      BY <1>0, <1>2, <2>0, <2>1, <3>1, <3>2, OneMoreTried
    <3>4. FinalEntry(LastAttempt') = "succeeded"
      BY <2>1, <2>3, <3>3, VerdictTells DEF FinalEntry
    <3>5. ASSUME NEW i \in 1 .. Len(attempts'), FinalEntry(attempts'[i]) = "succeeded"
          PROVE  Candidates'[i] = "cmake" \/ i = Len(attempts')
      BY <3>3, <3>5
    <3>6. FirstWorkingCandidate'
      BY <3>1, <3>3, <3>4, <3>5 DEF FirstWorkingCandidate, OnRecord, LastAttempt, FinalEntry
    <3>7. LastAttempt'.system = Recorded(Head(queue))
      BY <3>3
    <3> QED
      BY <1>2, <3>1, <3>6, <3>7 DEF AppOfThisCall, ProgramIsBuilt, Remaining, Recorded,
         BuiltIsOfOneCall, RefusalIsReported
  <2> QED
    BY <2>2, <2>3
<1>3. CASE Intake
  BY <1>3 DEF Intake, files, process, AppOfThisCall, ProgramIsBuilt, Remaining,
     BuiltIsOfOneCall, FirstWorkingCandidate, RefusalIsReported
<1>4. CASE Start
  BY <1>4 DEF Start, AppOfThisCall, ProgramIsBuilt, Remaining,
     BuiltIsOfOneCall, FirstWorkingCandidate, RefusalIsReported
<1>5. CASE SelectAdapter
  <2>1. UNCHANGED <<spec, override, call, attempts>> /\ phase = "adapter"
    BY <1>5 DEF SelectAdapter
  <2>2. CASE BackendGranted(spec.language, spec.system, override)
    <3>1. phase' = "try" /\ queue' = Candidates /\ attempts' = <<>>
      BY <1>5, <2>1, <2>2 DEF SelectAdapter, Remaining
    <3>2. Candidates' = Candidates /\ Len(Candidates) \in Nat
      BY <1>0, <2>1, CandidatesType, LenProperties DEF Candidates
    <3>3. OnRecord' /\ NoneWorked(Len(attempts))'
      BY <3>1, <3>2 DEF OnRecord, NoneWorked
    <3>4. FirstWorkingCandidate'
      BY <3>1, <3>3 DEF FirstWorkingCandidate, OnRecord, NoneWorked
    <3> QED
      BY <3>1, <3>3, <3>4 DEF AppOfThisCall, ProgramIsBuilt, Remaining,
         BuiltIsOfOneCall, FirstWorkingCandidate, RefusalIsReported
  <2>3. CASE ~BackendGranted(spec.language, spec.system, override)
    <3>1. phase' = "idle" /\ outcome' = "refused"
      BY <1>5, <2>3 DEF SelectAdapter, End
    <3>2. capability' = [call |-> call', supported |-> FALSE]
      BY <1>5, <2>1, <2>3, RefusedIsUnsupported DEF SelectAdapter
    <3> QED
      BY <3>1, <3>2 DEF AppOfThisCall, ProgramIsBuilt, Remaining,
         BuiltIsOfOneCall, FirstWorkingCandidate, RefusalIsReported
  <2> QED
    BY <2>2, <2>3
<1>6. CASE TryCandidate
  <2>1. CASE BuildScripts
    <3>1. spec.scripts \in SUBSET Names
      BY <1>0, GoldAssumption DEF TypeOK, SpecType
    <3> QED
      BY <2>1, <3>1, <1>2 DEF BuildScripts, Scripts
  <2>2. CASE BuildPackage
    <3>1. spec.modules \in SUBSET Names
      BY <1>0, GoldAssumption DEF TypeOK, SpecType
    <3> QED
      BY <2>2, <3>1, <1>2 DEF BuildPackage
  <2>3. CASE SkipCandidate
    BY <2>3, <1>1, SkippedEntry DEF SkipCandidate, unbuilt
  <2>4. CASE CommandTimesOut
    BY <2>4, EndsCall DEF CommandTimesOut, End
  <2>5. ASSUME NEW N \in SUBSET Names, BuildCompiled(N) PROVE CInv'
    BY <2>5, <1>2 DEF BuildCompiled, Compiled
  <2>6. ASSUME NEW N \in SUBSET Names, CandidateFails(N) PROVE CInv'
    <3>1. PICK own \in OwnEntries(Head(queue)) : Tried(Append(own, "failed"))
      BY <2>6 DEF CandidateFails
    <3> DEFINE entries == Append(own, "failed")
    <3>2. /\ entries \in Seq(Statuses) /\ entries # <<>>
          /\ entries[Len(entries)] = "failed" /\ Tried(entries)
      BY <3>1, RaisesEntries
    <3>3. phase = "try" /\ phase' = "try" /\ queue # <<>> /\ UNCHANGED <<spec, override>>
      BY <2>6 DEF CandidateFails, unbuilt
    <3> HIDE DEF entries
    <3> QED
      BY <1>1, <3>2, <3>3
  <2> QED
    BY <1>6, <2>1, <2>2, <2>3, <2>4, <2>5, <2>6 DEF TryCandidate
<1>7. CASE NothingBuilt
  BY <1>7, EndsCall DEF NothingBuilt, End
<1>8. ASSUME phase \in Working, phase' \in Working,
             UNCHANGED <<spec, override, queue, attempts, call>>,
             AppOfThisCall', ProgramIsBuilt'
      PROVE  CInv'
  <2>1. Candidates' = Candidates
    BY <1>8 DEF Candidates
  <2>2. FirstWorkingCandidate'
    BY <1>8, <2>1 DEF FirstWorkingCandidate
  <2> QED
    BY <1>8, <2>2 DEF Remaining, BuiltIsOfOneCall, RefusalIsReported
<1>9. CASE Install
  <2>1. program'.name \in built
    BY <1>0, <1>9, PrimaryIsBuilt DEF Install, TypeOK
  <2> QED
    BY <1>8, <1>9, <2>1 DEF Install, AppOfThisCall, ProgramIsBuilt, LastAttempt
<1>10. CASE InstallApp
  <2>1. call # None
    BY <1>0, <1>10, NoneIsApart DEF InstallApp, TypeOK
  <2> QED
    BY <1>8, <1>10, <2>1 DEF InstallApp, AppOfThisCall, ProgramIsBuilt,
       LastAttempt, FreshApp
<1>11. CASE Probe
  BY <1>8, <1>11 DEF Probe, files, AppOfThisCall, ProgramIsBuilt, LastAttempt
<1>12. CASE ProbeRaises
  BY <1>12, EndsCall DEF ProbeRaises, End
<1>13. CASE WriteLog
  BY <1>8, <1>13 DEF WriteLog, AppOfThisCall, ProgramIsBuilt, LastAttempt
<1>14. CASE Record
  <2>1. /\ phase = "record" /\ phase' = "idle" /\ outcome' = "built"
        /\ artifact' = [call |-> call, hash |-> program, paths |-> built,
                        system |-> LastAttempt.system]
        /\ UNCHANGED <<call, program, log, outs, programApp>>
    BY <1>14 DEF Record, End, LastAttempt
  <2>2. \A n \in built : outs[n] = call
    BY <2>1 DEF GInv, ProducedIsWritten
  <2>3. program.call = call
    BY <2>1 DEF GInv, InstalledIsCurrent
  <2>4. BuiltIsOfOneCall'
    BY <2>1, <2>2, <2>3 DEF BuiltIsOfOneCall, AppOfThisCall, ProgramIsBuilt
  <2> QED
    BY <2>1, <2>4 DEF AppOfThisCall, ProgramIsBuilt, Remaining,
       FirstWorkingCandidate, RefusalIsReported
<1>15. CASE Kill
  BY <1>15, EndsCall DEF Kill, End
<1>16. CASE UNCHANGED vars
  <2>1. Candidates' = Candidates
    BY <1>16 DEF vars, process, Candidates
  <2> QED
    BY <1>16, <2>1 DEF vars, files, process, AppOfThisCall, ProgramIsBuilt,
       Remaining, OnRecord, NoneWorked, LastAttempt, BuiltIsOfOneCall,
       FirstWorkingCandidate, RefusalIsReported
<1> QED
  BY <1>3, <1>4, <1>5, <1>6, <1>7, <1>9, <1>10, <1>11, <1>12, <1>13, <1>14,
     <1>15, <1>16 DEF Next, Step

\* Both invariants together, of which the next two theorems are parts.
THEOREM GoldInvariant == Spec => [](GInv /\ CInv)
  BY InitGInv, InitCInv, NextGInv, NextCInv, PTL DEF Spec

\* When build_gold has returned, the record, the program, its application
\* directory, its executables and the log are all of that call.
THEOREM OneCallBuilt == Spec => []BuiltIsOfOneCall
<1>1. CInv => BuiltIsOfOneCall
  BY DEF CInv
<1> QED
  BY <1>1, GoldInvariant, PTL

\* The candidates are tried in the order of the spec until the first that
\* works, each is on record, and a refusal has its capability report.
THEOREM TriedInOrder == Spec => []CandidatesAreTriedInOrder
<1>1. GInv /\ CInv => CandidatesAreTriedInOrder
  BY DEF GInv, CInv, CandidatesAreTriedInOrder
<1> QED
  BY <1>1, GoldInvariant, PTL

-----------------------------------------------------------------------------
(* Sorting by keys.                                                        *)

Keys(n) == [1 .. n -> Int]

LEMMA LeastMember ==
  ASSUME NEW S \in SUBSET Nat, S # {}
  PROVE  \E n \in S : \A m \in S : n <= m
<1>1. PICK n \in S : \A m \in S : <<m, n>> \notin OpToRel(<, Nat)
  BY WFMin, NatLessThanWellFounded
<1>2. \A m \in S : ~ (m < n)
  BY <1>1 DEF OpToRel
<1> QED
  BY <1>2

\* No key comes before itself.
LEMMA BeforeIrreflexive ==
  ASSUME NEW n \in Nat, NEW k \in Keys(n)
  PROVE  ~Before(k, k)
  BY DEF Before, Keys

\* A key that comes before a second comes before what the second comes before.
LEMMA BeforeTransitive ==
  ASSUME NEW n \in Nat, NEW k \in Keys(n), NEW l \in Keys(n), NEW m \in Keys(n),
         Before(k, l), Before(l, m)
  PROVE  Before(k, m)
<1>1. PICK i \in 1 .. n : k[i] < l[i] /\ \A h \in 1 .. i - 1 : k[h] = l[h]
  BY DEF Before, Keys
<1>2. PICK j \in 1 .. n : l[j] < m[j] /\ \A h \in 1 .. j - 1 : l[h] = m[h]
  BY DEF Before, Keys
<1>3. \A h \in 1 .. n : k[h] \in Int /\ l[h] \in Int /\ m[h] \in Int
  BY DEF Keys
<1>4. CASE i <= j
  <2>1. k[i] < m[i]
    <3>1. CASE i = j
      BY <1>1, <1>2, <1>3, <3>1
    <3>2. CASE i < j
      <4>1. l[i] = m[i]
        BY <1>2, <3>2
      <4> QED
        BY <1>1, <4>1
    <3> QED
      BY <1>4, <3>1, <3>2
  <2>2. \A h \in 1 .. i - 1 : k[h] = m[h]
    BY <1>1, <1>2, <1>4
  <2> QED
    BY <2>1, <2>2 DEF Before, Keys
<1>5. CASE j < i
  <2>1. k[j] < m[j]
    BY <1>1, <1>2, <1>3, <1>5
  <2>2. \A h \in 1 .. j - 1 : k[h] = m[h]
    BY <1>1, <1>2, <1>5
  <2> QED
    BY <2>1, <2>2 DEF Before, Keys
<1> QED
  BY <1>4, <1>5

\* Of two keys one comes first.
LEMMA BeforeTotal ==
  ASSUME NEW n \in Nat, NEW k \in Keys(n), NEW l \in Keys(n), k # l
  PROVE  Before(k, l) \/ Before(l, k)
<1> DEFINE D == {i \in 1 .. n : k[i] # l[i]}
<1>1. D \in SUBSET Nat /\ D # {}
  <2>1. \E i \in 1 .. n : k[i] # l[i]
    BY DEF Keys
  <2>2. D \subseteq 1 .. n /\ D # {}
    BY <2>1
  <2> QED
    BY <2>2
<1>2. PICK i \in D : \A j \in D : i <= j
  <2> HIDE DEF D
  <2> QED
    BY <1>1, LeastMember
<1>3. i \in 1 .. n /\ k[i] # l[i]
  BY <1>2
<1>4. \A j \in 1 .. i - 1 : k[j] = l[j]
  BY <1>2, <1>3
<1>5. k[i] \in Int /\ l[i] \in Int
  BY <1>3 DEF Keys
<1>6. k[i] < l[i] \/ l[i] < k[i]
  BY <1>3, <1>5
<1>7. DOMAIN k = 1 .. n /\ DOMAIN l = 1 .. n
  BY DEF Keys
<1>8. \A j \in 1 .. i - 1 : l[j] = k[j]
  BY <1>4
<1>9. CASE k[i] < l[i]
  BY <1>3, <1>4, <1>7, <1>9 DEF Before
<1>10. CASE l[i] < k[i]
  BY <1>3, <1>8, <1>7, <1>10 DEF Before
<1> QED
  BY <1>6, <1>9, <1>10

\* The members of S whose keys come before that of x.
Lesser(S, key, x) == {y \in S : Before(key[y], key[x])}

\* Different members of S have different keys, all of one length.
Keyed(S, key, n) ==
  /\ \A x \in S : key[x] \in Keys(n)
  /\ \A x, y \in S : key[x] = key[y] => x = y

LEMMA LesserIsPart ==
  ASSUME NEW S, NEW n \in Nat, NEW key, IsFiniteSet(S), Keyed(S, key, n), NEW x \in S
  PROVE  /\ IsFiniteSet(Lesser(S, key, x))
         /\ Cardinality(Lesser(S, key, x)) \in 0 .. Cardinality(S) - 1
<1>1. x \notin Lesser(S, key, x)
  BY BeforeIrreflexive DEF Lesser, Keyed
<1>2. Lesser(S, key, x) \in SUBSET S
  BY DEF Lesser
<1>3. Lesser(S, key, x) # S
  BY <1>1
<1>4. /\ IsFiniteSet(Lesser(S, key, x))
      /\ Cardinality(Lesser(S, key, x)) <= Cardinality(S)
      /\ Cardinality(S) # Cardinality(Lesser(S, key, x))
  BY <1>2, <1>3, FS_Subset
<1>5. Cardinality(Lesser(S, key, x)) \in Nat /\ Cardinality(S) \in Nat
  BY <1>4, FS_CardinalityType
<1> QED
  BY <1>4, <1>5

LEMMA LesserGrows ==
  ASSUME NEW S, NEW n \in Nat, NEW key, IsFiniteSet(S), Keyed(S, key, n),
         NEW x \in S, NEW y \in S, Before(key[x], key[y])
  PROVE  Cardinality(Lesser(S, key, x)) < Cardinality(Lesser(S, key, y))
<1>1. Lesser(S, key, x) \in SUBSET Lesser(S, key, y)
  <2>1. SUFFICES ASSUME NEW z \in S, Before(key[z], key[x])
                 PROVE  Before(key[z], key[y])
    BY DEF Lesser
  <2> QED
    BY <2>1, BeforeTransitive DEF Keyed
<1>2. x \in Lesser(S, key, y) /\ x \notin Lesser(S, key, x)
  BY BeforeIrreflexive DEF Lesser, Keyed
<1>3. /\ IsFiniteSet(Lesser(S, key, x)) /\ IsFiniteSet(Lesser(S, key, y))
      /\ Cardinality(Lesser(S, key, x)) \in Nat /\ Cardinality(Lesser(S, key, y)) \in Nat
  BY LesserIsPart, FS_CardinalityType
<1>4. /\ Cardinality(Lesser(S, key, x)) <= Cardinality(Lesser(S, key, y))
      /\ Cardinality(Lesser(S, key, x)) # Cardinality(Lesser(S, key, y))
  BY <1>1, <1>2, <1>3, FS_Subset
<1> QED
  BY <1>3, <1>4

\* As many members as there are have as many ranks: each rank is taken once.
LEMMA RanksAreTaken ==
  ASSUME NEW S, NEW n \in Nat, NEW key, IsFiniteSet(S), Keyed(S, key, n)
  PROVE  /\ \A x, y \in S :
              Cardinality(Lesser(S, key, x)) = Cardinality(Lesser(S, key, y)) => x = y
         /\ \A i \in 1 .. Cardinality(S) :
              \E x \in S : Cardinality(Lesser(S, key, x)) = i - 1
<1> DEFINE R == 0 .. Cardinality(S) - 1
           rank == [x \in S |-> Cardinality(Lesser(S, key, x))]
<1>1. Cardinality(S) \in Nat
  BY FS_CardinalityType
<1>2. \A x, y \in S :
        Cardinality(Lesser(S, key, x)) = Cardinality(Lesser(S, key, y)) => x = y
  <2>1. SUFFICES ASSUME NEW x \in S, NEW y \in S, x # y
                 PROVE  Cardinality(Lesser(S, key, x)) # Cardinality(Lesser(S, key, y))
    OBVIOUS
  <2>2. Before(key[x], key[y]) \/ Before(key[y], key[x])
    BY <2>1, BeforeTotal DEF Keyed
  <2>3. /\ Cardinality(Lesser(S, key, x)) \in Int
        /\ Cardinality(Lesser(S, key, y)) \in Int
    BY <1>1, LesserIsPart
  <2>4. \/ Cardinality(Lesser(S, key, x)) < Cardinality(Lesser(S, key, y))
        \/ Cardinality(Lesser(S, key, y)) < Cardinality(Lesser(S, key, x))
    BY <2>2, LesserGrows
  <2> QED
    BY <2>3, <2>4
<1>3. IsFiniteSet(R) /\ Cardinality(R) = Cardinality(S)
  <2> DEFINE m == Cardinality(S) - 1
  <2>1. m \in Int /\ (IF 0 > m THEN 0 ELSE m - 0 + 1) = Cardinality(S)
    BY <1>1
  <2>2. R = 0 .. m
    OBVIOUS
  <2> HIDE DEF m, R
  <2>3. IsFiniteSet(0 .. m) /\ Cardinality(0 .. m) = IF 0 > m THEN 0 ELSE m - 0 + 1
    BY <2>1, FS_Interval
  <2> QED
    BY <2>1, <2>2, <2>3
<1>4. rank \in [S -> R]
  BY LesserIsPart
<1>5. rank \in Injection(S, R)
  <2>1. \A x, y \in S : rank[x] = rank[y] => x = y
    BY <1>2
  <2> HIDE DEF rank, R
  <2> QED
    BY <1>4, <2>1 DEF Injection, IsInjective
<1>6. rank \in Surjection(S, R)
  <2> HIDE DEF rank, R
  <2> QED
    BY <1>3, <1>5, FS_Injection
<1>7. \A i \in R : \E x \in S : rank[x] = i
  <2> HIDE DEF rank, R
  <2> QED
    BY <1>6 DEF Surjection
<1>8. \A i \in 1 .. Cardinality(S) : i - 1 \in R
  BY <1>1
<1>9. \A i \in 1 .. Cardinality(S) : \E x \in S : rank[x] = i - 1
  BY <1>7, <1>8
<1> QED
  BY <1>2, <1>9

\* Sorted lists each member once, in the order of the keys.
LEMMA SortedInOrder ==
  ASSUME NEW S, NEW n \in Nat, NEW key, IsFiniteSet(S), Keyed(S, key, n)
  PROVE  /\ Cardinality(S) \in Nat
         /\ Sorted(S, key) \in [1 .. Cardinality(S) -> S]
         /\ \A i, j \in 1 .. Cardinality(S) :
              i < j => Before(key[Sorted(S, key)[i]], key[Sorted(S, key)[j]])
         /\ \A x \in S : \E i \in 1 .. Cardinality(S) : Sorted(S, key)[i] = x
<1>1. Cardinality(S) \in Nat
  BY FS_CardinalityType
<1>2. Sorted(S, key) = [i \in 1 .. Cardinality(S) |->
        CHOOSE x \in S : Cardinality(Lesser(S, key, x)) = i - 1]
  BY DEF Sorted, Lesser
<1>3. \A i \in 1 .. Cardinality(S) :
        /\ Sorted(S, key)[i] \in S
        /\ Cardinality(Lesser(S, key, Sorted(S, key)[i])) = i - 1
  <2>1. SUFFICES ASSUME NEW i \in 1 .. Cardinality(S)
                 PROVE  /\ Sorted(S, key)[i] \in S
                        /\ Cardinality(Lesser(S, key, Sorted(S, key)[i])) = i - 1
    OBVIOUS
  <2>2. Sorted(S, key)[i] = CHOOSE x \in S : Cardinality(Lesser(S, key, x)) = i - 1
    BY <1>2
  <2>3. \E x \in S : Cardinality(Lesser(S, key, x)) = i - 1
    BY RanksAreTaken
  <2> QED
    BY <2>2, <2>3
<1>4. Sorted(S, key) \in [1 .. Cardinality(S) -> S]
  BY <1>2, <1>3
<1>5. \A i, j \in 1 .. Cardinality(S) :
        i < j => Before(key[Sorted(S, key)[i]], key[Sorted(S, key)[j]])
  <2>1. SUFFICES ASSUME NEW i \in 1 .. Cardinality(S), NEW j \in 1 .. Cardinality(S),
                        i < j
                 PROVE  Before(key[Sorted(S, key)[i]], key[Sorted(S, key)[j]])
    OBVIOUS
  <2> DEFINE x == Sorted(S, key)[i]
             y == Sorted(S, key)[j]
  <2>2. /\ x \in S /\ Cardinality(Lesser(S, key, x)) = i - 1
        /\ y \in S /\ Cardinality(Lesser(S, key, y)) = j - 1
    BY <1>3
  <2> HIDE DEF x, y
  <2>3. x # y
    BY <1>1, <2>1, <2>2
  <2>4. Before(key[x], key[y]) \/ Before(key[y], key[x])
    BY <2>2, <2>3, BeforeTotal DEF Keyed
  <2>5. ~Before(key[y], key[x])
    <3>1. SUFFICES ASSUME Before(key[y], key[x])  PROVE FALSE
      OBVIOUS
    <3>2. Cardinality(Lesser(S, key, y)) < Cardinality(Lesser(S, key, x))
      BY <2>2, <3>1, LesserGrows
    <3> QED
      BY <1>1, <2>1, <2>2, <3>2
  <2> QED
    BY <2>4, <2>5 DEF x, y
<1>6. \A x \in S : \E i \in 1 .. Cardinality(S) : Sorted(S, key)[i] = x
  <2>1. SUFFICES ASSUME NEW x \in S
                 PROVE  \E i \in 1 .. Cardinality(S) : Sorted(S, key)[i] = x
    OBVIOUS
  <2> DEFINE i == Cardinality(Lesser(S, key, x)) + 1
  <2>2. i \in 1 .. Cardinality(S) /\ Cardinality(Lesser(S, key, x)) = i - 1
    BY <1>1, LesserIsPart
  <2> HIDE DEF i
  <2>3. Sorted(S, key)[i] = x
    BY <1>3, <2>2, RanksAreTaken
  <2> QED
    BY <2>2, <2>3
<1> QED
  BY <1>1, <1>4, <1>5, <1>6

\* The members of a list that Sorted gives differ from each other.
LEMMA SortedOnce ==
  ASSUME NEW S, NEW n \in Nat, NEW key, IsFiniteSet(S), Keyed(S, key, n)
  PROVE  \A i, j \in 1 .. Cardinality(S) :
           i < j => Sorted(S, key)[i] # Sorted(S, key)[j]
<1>1. SUFFICES ASSUME NEW i \in 1 .. Cardinality(S), NEW j \in 1 .. Cardinality(S),
                      i < j, Sorted(S, key)[i] = Sorted(S, key)[j]
               PROVE  FALSE
  OBVIOUS
<1>2. Before(key[Sorted(S, key)[i]], key[Sorted(S, key)[i]])
  BY <1>1, SortedInOrder
<1>3. Sorted(S, key)[i] \in S
  BY SortedInOrder
<1> QED
  BY <1>2, <1>3, BeforeIrreflexive DEF Keyed

LEMMA ImageIsFinite ==
  ASSUME NEW f, IsFiniteSet(DOMAIN f)
  PROVE  IsFiniteSet({f[x] : x \in DOMAIN f})
<1> DEFINE T == {f[x] : x \in DOMAIN f}
           g == [x \in DOMAIN f |-> f[x]]
<1>1. g \in [DOMAIN f -> T] /\ \A t \in T : \E x \in DOMAIN f : g[x] = t
  OBVIOUS
<1>2. g \in Surjection(DOMAIN f, T)
  <2> HIDE DEF g, T
  <2> QED
    BY <1>1 DEF Surjection
<1> QED
  BY <1>2, FS_Surjection
-----------------------------------------------------------------------------
(* The entrypoints of a repository.                                        *)

\* The shape of an entrypoint, and the numbers in it.
IsEntry(e) ==
  /\ e = [name |-> e.name, path |-> e.path, base |-> e.base, order |-> e.order,
          rank |-> e.rank, kind |-> e.kind, confidence |-> e.confidence,
          language |-> e.language]
  /\ e.order \in Nat /\ e.rank \in Nat /\ e.confidence \in 0 .. 99
  /\ e.kind \in DOMAIN KindOrder

Found(F) ==
  UNION {ProjectEntrypoints(F), ModuleEntrypoints(F),
         ExecutableEntrypoints(F), ScriptEntrypoints(F)}

LEMMA RankedEntrypoints ==
  ASSUME NEW F, NEW p
  PROVE  RankEntrypoints(F, p)
           = Sorted(Found(F), [e \in Found(F) |-> EntryKey(e, p)])
  BY DEF RankEntrypoints, Found

\* An entrypoint is of one file and of one kind, and these give the rest.
EntryOf(f) ==
  [kind \in DOMAIN KindOrder |->
     CASE kind = "executable-file" ->
            Entry(f, f.base, kind, ExecutableConfidence(f),
                  IF f.shebang = "none" THEN "script" ELSE f.shebang)
       [] kind = "python-entrypoint" -> Entry(f, f.script, kind, 99, "python")
       [] kind = "python-module" -> Entry(f, f.package, kind, 88, "python")
       [] kind = "python-script" ->
            Entry(f, f.stem, kind, ScriptConfidence(f), "python")]

LEMMA FoundByFileAndKind ==
  ASSUME NEW F, NEW e \in Found(F)
  PROVE  \E f \in F, kind \in DOMAIN KindOrder : e = EntryOf(f)[kind]
<1>1. CASE e \in ProjectEntrypoints(F)
  BY <1>1 DEF ProjectEntrypoints, EntryOf, KindOrder
<1>2. CASE e \in ModuleEntrypoints(F)
  BY <1>2 DEF ModuleEntrypoints, EntryOf, KindOrder
<1>3. CASE e \in ExecutableEntrypoints(F)
  BY <1>3 DEF ExecutableEntrypoints, EntryOf, KindOrder
<1>4. CASE e \in ScriptEntrypoints(F)
  BY <1>4 DEF ScriptEntrypoints, EntryOf, KindOrder
<1> QED
  BY <1>1, <1>2, <1>3, <1>4 DEF Found

LEMMA ConfidencesAreBounded ==
  ASSUME NEW f \in FileType
  PROVE  ScriptConfidence(f) \in 0 .. 99 /\ ExecutableConfidence(f) \in 0 .. 99
  BY DEF FileType, ScriptConfidence, ExecutableConfidence, AtMost, If

\* An entrypoint of that file and kind.
IsEntryOf(e, f, kind) == IsEntry(e) /\ e.order = f.order /\ e.kind = kind

LEMMA EntryIsEntryOf ==
  ASSUME NEW f \in FileType, NEW kind \in DOMAIN KindOrder,
         NEW name, NEW confidence \in 0 .. 99, NEW language
  PROVE  IsEntryOf(Entry(f, name, kind, confidence, language), f, kind)
<1>1. f.order \in Nat /\ f.rank \in 0 .. 2
  BY DEF FileType
<1> QED
  BY <1>1 DEF Entry, IsEntry, IsEntryOf

LEMMA EntriesAreTyped ==
  ASSUME NEW f \in FileType, NEW kind \in DOMAIN KindOrder
  PROVE  IsEntryOf(EntryOf(f)[kind], f, kind)
<1>1. kind \in {"executable-file", "python-entrypoint", "python-module", "python-script"}
  BY DEF KindOrder
<1>2. /\ ScriptConfidence(f) \in 0 .. 99 /\ ExecutableConfidence(f) \in 0 .. 99
      /\ 99 \in 0 .. 99 /\ 88 \in 0 .. 99
  BY ConfidencesAreBounded
<1>3. CASE kind = "executable-file"
  <2> DEFINE language == IF f.shebang = "none" THEN "script" ELSE f.shebang
             e == Entry(f, f.base, kind, ExecutableConfidence(f), language)
  <2>1. EntryOf(f)[kind] = e
    BY <1>3 DEF EntryOf
  <2>2. IsEntryOf(e, f, kind)
    BY <1>2, EntryIsEntryOf
  <2> QED
    BY <2>1, <2>2
<1>4. CASE kind = "python-entrypoint"
  <2> DEFINE language == "python"
             e == Entry(f, f.script, kind, 99, language)
  <2>1. EntryOf(f)[kind] = e
    BY <1>4 DEF EntryOf
  <2>2. IsEntryOf(e, f, kind)
    BY <1>2, EntryIsEntryOf
  <2> QED
    BY <2>1, <2>2
<1>5. CASE kind = "python-module"
  <2> DEFINE language == "python"
             e == Entry(f, f.package, kind, 88, language)
  <2>1. EntryOf(f)[kind] = e
    BY <1>5 DEF EntryOf
  <2>2. IsEntryOf(e, f, kind)
    BY <1>2, EntryIsEntryOf
  <2> QED
    BY <2>1, <2>2
<1>6. CASE kind = "python-script"
  <2> DEFINE language == "python"
             e == Entry(f, f.stem, kind, ScriptConfidence(f), language)
  <2>1. EntryOf(f)[kind] = e
    BY <1>6 DEF EntryOf
  <2>2. IsEntryOf(e, f, kind)
    BY <1>2, EntryIsEntryOf
  <2> QED
    BY <2>1, <2>2
<1> QED
  BY <1>1, <1>3, <1>4, <1>5, <1>6

LEMMA KindsAreOrdered ==
  /\ \A kind \in DOMAIN KindOrder : KindOrder[kind] \in Int
  /\ \A k, l \in DOMAIN KindOrder : KindOrder[k] = KindOrder[l] => k = l
  BY DEF KindOrder

LEMMA FoundAreEntries ==
  ASSUME NEW F \in SUBSET FileType, NEW e \in Found(F)
  PROVE  \E f \in F, kind \in DOMAIN KindOrder :
           e = EntryOf(f)[kind] /\ IsEntryOf(e, f, kind)
<1>1. PICK f \in F, kind \in DOMAIN KindOrder : e = EntryOf(f)[kind]
  BY FoundByFileAndKind
<1>2. IsEntryOf(e, f, kind)
  BY <1>1, EntriesAreTyped
<1> QED
  BY <1>1, <1>2

LEMMA FiniteUnion ==
  ASSUME NEW S, NEW T, IsFiniteSet(S), IsFiniteSet(T)
  PROVE  IsFiniteSet(S \cup T)
  BY FS_Union

LEMMA KindsAreFinite == IsFiniteSet(DOMAIN KindOrder)
<1> DEFINE first  == {"executable-file"} \cup {"python-entrypoint"}
           second == {"python-module"} \cup {"python-script"}
<1>1. DOMAIN KindOrder = first \cup second
  BY DEF KindOrder
<1>2. IsFiniteSet(first) /\ IsFiniteSet(second)
  <2>1. \A x : IsFiniteSet({x})
    BY FS_Singleton
  <2> QED
    BY <2>1, FiniteUnion
<1>3. IsFiniteSet(first \cup second)
  <2> HIDE DEF first, second
  <2> QED
    BY <1>2, FiniteUnion
<1> QED
  BY <1>1, <1>3

LEMMA FoundIsFinite ==
  ASSUME NEW F \in SUBSET FileType, IsFiniteSet(F)
  PROVE  IsFiniteSet(Found(F))
<1> DEFINE made == [x \in F \X DOMAIN KindOrder |-> EntryOf(x[1])[x[2]]]
<1>1. IsFiniteSet(F \X DOMAIN KindOrder)
  <2> DEFINE kinds == DOMAIN KindOrder
  <2>1. IsFiniteSet(kinds)
    BY KindsAreFinite
  <2> HIDE DEF kinds
  <2>2. IsFiniteSet(F \X kinds)
    BY <2>1, FS_Product
  <2> QED
    BY <2>2 DEF kinds
<1>2. IsFiniteSet({made[x] : x \in DOMAIN made})
  <2>1. DOMAIN made = F \X DOMAIN KindOrder
    OBVIOUS
  <2> HIDE DEF made
  <2> QED
    BY <1>1, <2>1, ImageIsFinite
<1>3. Found(F) \in SUBSET {made[x] : x \in DOMAIN made}
  <2>1. SUFFICES ASSUME NEW e \in Found(F)
                 PROVE  \E x \in F \X DOMAIN KindOrder : e = made[x]
    OBVIOUS
  <2>2. PICK f \in F, kind \in DOMAIN KindOrder : e = EntryOf(f)[kind]
    BY FoundByFileAndKind
  <2>3. <<f, kind>> \in F \X DOMAIN KindOrder /\ made[<<f, kind>>] = e
    BY <2>2
  <2> QED
    BY <2>3
<1> QED
  BY <1>2, <1>3, FS_Subset

\* Two entrypoints of one place in the paths and one kind are the same.
LEMMA EntriesAreTold ==
  ASSUME NEW r \in Repositories, NEW d \in Found(r.files), NEW e \in Found(r.files),
         d.order = e.order, d.kind = e.kind
  PROVE  d = e
<1>1. r.files \in SUBSET FileType /\ \A f, g \in r.files : f.order = g.order => f = g
  BY AnalysisAssumption
<1>2. PICK f \in r.files, k \in DOMAIN KindOrder :
        d = EntryOf(f)[k] /\ IsEntryOf(d, f, k)
  BY <1>1, FoundAreEntries
<1>3. PICK g \in r.files, l \in DOMAIN KindOrder :
        e = EntryOf(g)[l] /\ IsEntryOf(e, g, l)
  BY <1>1, FoundAreEntries
<1>4. f = g /\ k = l
  BY <1>1, <1>2, <1>3 DEF IsEntryOf
<1> QED
  BY <1>2, <1>3, <1>4

LEMMA EntriesAreKeyed ==
  ASSUME NEW r \in Repositories, NEW p
  PROVE  Keyed(Found(r.files), [e \in Found(r.files) |-> EntryKey(e, p)], 5)
<1>1. r.files \in SUBSET FileType
  BY AnalysisAssumption
<1>2. \A e \in Found(r.files) : IsEntry(e)
  BY <1>1, FoundAreEntries DEF IsEntryOf
<1>3. ASSUME NEW e \in Found(r.files)  PROVE EntryKey(e, p) \in Keys(5)
  <2>1. /\ e.confidence \in Int /\ e.rank \in Int /\ e.order \in Int
        /\ KindOrder[e.kind] \in Int
    BY <1>2, KindsAreOrdered DEF IsEntry
  <2>2. If(~MatchesNormal(e, p), 1) \in Int /\ -e.confidence \in Int
    BY <2>1 DEF If
  <2> QED
    BY <2>1, <2>2 DEF EntryKey, Keys
<1>4. ASSUME NEW d \in Found(r.files), NEW e \in Found(r.files),
             EntryKey(d, p) = EntryKey(e, p)
      PROVE  d = e
  <2>1. d.order = e.order /\ KindOrder[d.kind] = KindOrder[e.kind]
    BY <1>4 DEF EntryKey
  <2>2. d.kind = e.kind
    BY <1>2, <2>1, KindsAreOrdered DEF IsEntry
  <2> QED
    BY <2>1, <2>2, EntriesAreTold
<1> QED
  BY <1>3, <1>4 DEF Keyed

\* analyze_repository lists entrypoints.
LEMMA RankedAreEntries ==
  ASSUME NEW r \in Repositories, NEW p
  PROVE  \E n \in Nat : /\ RankEntrypoints(r.files, p) \in [1 .. n -> Found(r.files)]
                        /\ \A i \in 1 .. n : IsEntry(RankEntrypoints(r.files, p)[i])
<1> DEFINE key == [e \in Found(r.files) |-> EntryKey(e, p)]
           n == Cardinality(Found(r.files))
<1>1. r.files \in SUBSET FileType /\ IsFiniteSet(r.files)
  BY AnalysisAssumption
<1>2. IsFiniteSet(Found(r.files)) /\ Keyed(Found(r.files), key, 5)
  BY <1>1, FoundIsFinite, EntriesAreKeyed
<1>3. n \in Nat /\ RankEntrypoints(r.files, p) \in [1 .. n -> Found(r.files)]
  <2> HIDE DEF key
  <2>1. n \in Nat /\ Sorted(Found(r.files), key) \in [1 .. n -> Found(r.files)]
    BY <1>2, SortedInOrder
  <2> QED
    BY <2>1, RankedEntrypoints DEF key
<1>4. \A e \in Found(r.files) : IsEntry(e)
  BY <1>1, FoundAreEntries DEF IsEntryOf
<1> HIDE DEF n
<1>5. \A i \in 1 .. n : IsEntry(RankEntrypoints(r.files, p)[i])
  BY <1>3, <1>4
<1> QED
  BY <1>3, <1>5

-----------------------------------------------------------------------------
(* The second ranking, by init_task.                                       *)

\* What init_task ranks, and the keys it ranks by.
Schema(entries, p, i) == [EntrypointSchema(entries[i], p) EXCEPT !.rank = i]
ToRank(entries, p) == {Schema(entries, p, i) : i \in DOMAIN entries}
SpecKeys(entries, p) == [e \in ToRank(entries, p) |-> SpecKey(e)]

LEMMA RerankSorts ==
  ASSUME NEW entries, NEW p
  PROVE  Rerank(entries, p) = Sorted(ToRank(entries, p), SpecKeys(entries, p))
  BY DEF Rerank, ToRank, Schema, SpecKeys

\* An entrypoint named exactly has confidence 100, and no other has.
IsRanked(s, p) ==
  /\ s.rank \in Nat /\ s.confidence \in 0 .. 100 /\ s.order \in Nat
  /\ s.confidence = 100 <=> MatchesExactly(s, p)

LEMMA ExactHasMost ==
  ASSUME NEW p, NEW e, IsEntry(e), NEW i \in Nat
  PROVE  LET s == [EntrypointSchema(e, p) EXCEPT !.rank = i]
         IN  s.rank = i /\ IsRanked(s, p)
<1> DEFINE s == [EntrypointSchema(e, p) EXCEPT !.rank = i]
           t == EntrypointSchema(e, p)
           fields == {"name", "path", "base", "order", "rank", "kind",
                      "confidence", "language"}
<1>1. DOMAIN e = fields
  BY DEF IsEntry
<1>2. e.order \in Nat /\ e.confidence \in 0 .. 99
  BY DEF IsEntry
<1>3. /\ DOMAIN t = fields /\ t.order = e.order /\ t.name = e.name /\ t.path = e.path
      /\ t.confidence = IF MatchesExactly(e, p) THEN 100 ELSE e.confidence
  BY <1>1 DEF EntrypointSchema
<1>4. /\ s.rank = i /\ s.order = e.order /\ s.name = e.name /\ s.path = e.path
      /\ s.confidence = IF MatchesExactly(e, p) THEN 100 ELSE e.confidence
  <2> HIDE DEF t
  <2>1. s = [t EXCEPT !.rank = i]
    BY DEF t
  <2> HIDE DEF s
  <2> QED
    BY <1>3, <2>1
<1> HIDE DEF s
<1>5. MatchesExactly(s, p) <=> MatchesExactly(e, p)
  BY <1>4 DEF MatchesExactly
<1>6. s.confidence \in 0 .. 100 /\ (s.confidence = 100 <=> MatchesExactly(s, p))
  BY <1>2, <1>4, <1>5
<1> QED
  BY <1>2, <1>4, <1>6 DEF s, IsRanked

LEMMA SpecKeysOrder ==
  ASSUME NEW p, NEW n \in Nat, NEW entries, DOMAIN entries = 1 .. n,
         \A i \in 1 .. n : IsEntry(entries[i])
  PROVE  /\ IsFiniteSet(ToRank(entries, p))
         /\ Keyed(ToRank(entries, p), SpecKeys(entries, p), 3)
<1> DEFINE made == [i \in 1 .. n |-> Schema(entries, p, i)]
<1>1. IsFiniteSet(ToRank(entries, p))
  <2>1. ToRank(entries, p) = {made[i] : i \in DOMAIN made}
    BY DEF ToRank
  <2>2. DOMAIN made = 1 .. n
    OBVIOUS
  <2>3. IsFiniteSet(1 .. n)
    BY FS_Interval
  <2> HIDE DEF made
  <2> QED
    BY <2>1, <2>2, <2>3, ImageIsFinite
<1>2. \A i \in 1 .. n :
        Schema(entries, p, i).rank = i /\ IsRanked(Schema(entries, p, i), p)
  <2>1. SUFFICES ASSUME NEW i \in 1 .. n
                 PROVE  /\ Schema(entries, p, i).rank = i
                        /\ IsRanked(Schema(entries, p, i), p)
    OBVIOUS
  <2>2. IsEntry(entries[i]) /\ i \in Nat
    OBVIOUS
  <2> QED
    BY <2>2, ExactHasMost DEF Schema
<1>3. ASSUME NEW d \in ToRank(entries, p)
      PROVE  SpecKeys(entries, p)[d] = SpecKey(d) /\ SpecKey(d) \in Keys(3)
  <2>1. PICK i \in 1 .. n : d = Schema(entries, p, i)
    BY DEF ToRank
  <2>2. IsRanked(Schema(entries, p, i), p)
    BY <1>2
  <2>3. d.rank \in Nat /\ d.confidence \in 0 .. 100 /\ d.order \in Nat
    BY <2>1, <2>2, Zenon DEF IsRanked
  <2>4. -d.confidence \in Int
    <3>1. \A m \in 0 .. 100 : -m \in Int
      OBVIOUS
    <3> QED
      BY <2>3, <3>1
  <2>5. SpecKey(d) \in Keys(3)
    BY <2>3, <2>4 DEF SpecKey, Keys
  <2> QED
    BY <2>5 DEF SpecKeys
<1>4. ASSUME NEW d \in ToRank(entries, p), NEW e \in ToRank(entries, p),
             SpecKey(d) = SpecKey(e)
      PROVE  d = e
  <2>1. PICK i \in 1 .. n : d = Schema(entries, p, i)
    BY DEF ToRank
  <2>2. PICK j \in 1 .. n : e = Schema(entries, p, j)
    BY DEF ToRank
  <2>3. d.rank = e.rank
    BY <1>4 DEF SpecKey
  <2>4. i = j
    BY <1>2, <2>1, <2>2, <2>3
  <2> QED
    BY <2>1, <2>2, <2>4
<1> QED
  BY <1>1, <1>3, <1>4 DEF Keyed

\* A key that comes before one with confidence 100 has that confidence.
LEMMA NoMoreThanExact ==
  ASSUME NEW d, NEW e, d.confidence \in 0 .. 100, e.confidence = 100,
         Before(SpecKey(d), SpecKey(e))
  PROVE  d.confidence = 100
<1>1. PICK i \in 1 .. 3 : /\ SpecKey(d)[i] < SpecKey(e)[i]
                          /\ \A j \in 1 .. i - 1 : SpecKey(d)[j] = SpecKey(e)[j]
  BY DEF Before, SpecKey
<1>2. SpecKey(d)[1] = -d.confidence /\ SpecKey(e)[1] = -100
  BY DEF SpecKey
<1>3. CASE i = 1
  BY <1>1, <1>2, <1>3
<1>4. CASE i # 1
  <2>1. 1 \in 1 .. i - 1
    BY <1>4
  <2> QED
    BY <1>1, <1>2, <2>1
<1> QED
  BY <1>3, <1>4

LEMMA ExactComesFirst ==
  ASSUME NEW p, NEW n \in Nat, NEW entries, DOMAIN entries = 1 .. n,
         \A i \in 1 .. n : IsEntry(entries[i]),
         NEW i \in DOMAIN Rerank(entries, p),
         MatchesExactly(Rerank(entries, p)[i], p)
  PROVE  MatchesExactly(Rerank(entries, p)[1], p)
<1> DEFINE S == ToRank(entries, p)
           key == SpecKeys(entries, p)
           s == Rerank(entries, p)
           m == Cardinality(S)
<1>1. IsFiniteSet(S) /\ Keyed(S, key, 3) /\ s = Sorted(S, key)
  BY SpecKeysOrder, RerankSorts
<1>2. \A x \in S : key[x] = SpecKey(x)
  BY DEF SpecKeys
<1>3. \A x \in S : IsRanked(x, p)
  <2>1. SUFFICES ASSUME NEW x \in S  PROVE IsRanked(x, p)
    OBVIOUS
  <2>2. PICK j \in 1 .. n : x = Schema(entries, p, j)
    BY <2>1 DEF ToRank
  <2>3. IsEntry(entries[j]) /\ j \in Nat
    OBVIOUS
  <2> QED
    BY <2>2, <2>3, ExactHasMost DEF Schema
<1> HIDE DEF S, key, s, m
<1>4. /\ m \in Nat /\ s \in [1 .. m -> S]
      /\ \A j, k \in 1 .. m : j < k => Before(key[s[j]], key[s[k]])
  BY <1>1, SortedInOrder DEF m
<1>5. i \in 1 .. m /\ MatchesExactly(s[i], p)
  BY <1>4 DEF s
<1>6. 1 \in 1 .. m /\ s[1] \in S /\ s[i] \in S
  BY <1>4, <1>5
<1>7. CASE i = 1
  BY <1>5, <1>7 DEF s
<1>8. CASE 1 < i
  <2>1. Before(SpecKey(s[1]), SpecKey(s[i]))
    BY <1>2, <1>4, <1>5, <1>6, <1>8
  <2>2. s[1].confidence = 100
    BY <1>3, <1>5, <1>6, <2>1, NoMoreThanExact DEF IsRanked
  <2> QED
    BY <1>3, <1>6, <2>2 DEF s, IsRanked
<1>9. i = 1 \/ 1 < i
  BY <1>5
<1> QED
  BY <1>7, <1>8, <1>9

-----------------------------------------------------------------------------
(* The adapter a build system falls to.                                    *)

LEMMA RegistryHasFive == DOMAIN Registry = 1 .. 5
  BY DEF Registry

LEMMA FirstMatchIsSelected ==
  ASSUME NEW l, NEW s, NEW n \in 1 .. 5, Matches(Registry[n], l, s),
         \A m \in 1 .. 5 : m < n => ~Matches(Registry[m], l, s)
  PROVE  Select(l, s) = Registry[n]
<1> DEFINE matching == {i \in DOMAIN Registry : Matches(Registry[i], l, s)}
<1>1. n \in matching /\ \A m \in matching : n <= m
  BY RegistryHasFive
<1>2. \A i \in matching : (\A j \in matching : i <= j) => i = n
  BY <1>1, RegistryHasFive
<1>3. Select(l, s) = Registry[CHOOSE i \in matching : \A j \in matching : i <= j]
  BY <1>1, Zenon DEF Select
<1> HIDE DEF matching
<1>4. (CHOOSE i \in matching : \A j \in matching : i <= j) = n
  BY <1>1, <1>2
<1> QED
  BY <1>3, <1>4

LEMMA SystemAsIs ==
  ASSUME NEW s, s # "auto"
  PROVE  Normalize(s) = s /\ SelectSystem(s, "auto") = s
  BY DEF Normalize, SelectSystem

\* The first adapter that matches decides.
LEMMA FirstMatchDecides ==
  ASSUME NEW l, NEW s, s # "auto", s # NoSystem,
         NEW n \in 1 .. 5, Matches(Registry[n], l, s),
         \A m \in 1 .. 5 : m < n => ~Matches(Registry[m], l, s)
  PROVE  BackendGranted(l, s, "auto") <=> s \in Registry[n].systems
<1>1. Select(l, s) = Registry[n]
  BY FirstMatchIsSelected
<1>2. Normalize(s) = s /\ SelectSystem(s, "auto") = s
  BY SystemAsIs
<1>3. s \in Registry[n].systems => Registry[n] # Unsupported
  BY DEF Unsupported
<1>4. Supports(Registry[n], s) <=> s \in Registry[n].systems
  BY <1>2, <1>3, Zenon DEF Supports
<1> QED
  BY <1>1, <1>2, <1>4, Zenon DEF BackendGranted

\* What decides for each adapter: its own languages and systems, and those of
\* the adapters before it.
LEMMA RegistryContents ==
  /\ Registry[1].languages = {"python"}
  /\ Registry[1].systems = {"script", "python-script", "python-package", "project",
                            "requirements", "setuptools", "dependency-lock",
                            "custom-command"}
  /\ Registry[2].languages = {"c", "cpp", "c++", "c/c++", "make"}
  /\ Registry[2].systems = {"make", "cmake", "c-single", "custom-command"}
  /\ Registry[3].languages = {"go"} /\ Registry[3].systems = {"go"}
  /\ Registry[4].languages = {"rust"} /\ Registry[4].systems = {"cargo"}
  /\ Registry[5].languages = {"java"} /\ Registry[5].systems = {"maven", "gradle"}
  BY DEF Registry, CFamily

\* Language l and system s are those of adapter n and of none before it.
FallsTo(n, l, s) ==
  /\ l \in Registry[n].languages \/ s \in Registry[n].systems
  /\ \A m \in 1 .. 5 : m < n => l \notin Registry[m].languages /\ s \notin Registry[m].systems

LEMMA FallingDecides ==
  ASSUME NEW l, NEW s, s # "auto", s # NoSystem, NEW n \in 1 .. 5, FallsTo(n, l, s)
  PROVE  BackendGranted(l, s, "auto") <=> s \in Registry[n].systems
<1>1. Normalize(s) = s
  BY SystemAsIs
<1>2. \A m \in 1 .. 5 : Matches(Registry[m], l, s)
        <=> l \in Registry[m].languages \/ s \in Registry[m].systems
  BY <1>1, Zenon DEF Matches
<1>3. Matches(Registry[n], l, s) /\ \A m \in 1 .. 5 : m < n => ~Matches(Registry[m], l, s)
  BY <1>2 DEF FallsTo
<1> QED
  BY <1>3, FirstMatchDecides

\* A makefile is built unless the language is Python.
LEMMA MakeIsGranted ==
  ASSUME NEW l
  PROVE  BackendGranted(l, "make", "auto") <=> l # "python"
<1>1. CASE l = "python"
  <2>1. FallsTo(1, l, "make")
    BY <1>1, RegistryContents DEF FallsTo
  <2>2. "make" \notin Registry[1].systems /\ "make" # NoSystem
    BY RegistryContents DEF NoSystem
  <2> QED
    BY <1>1, <2>1, <2>2, FallingDecides
<1>2. CASE l # "python"
  <2>1. FallsTo(2, l, "make")
    <3>1. \A m \in 1 .. 5 : m < 2 => m = 1
      OBVIOUS
    <3> QED
      BY <1>2, <3>1, RegistryContents DEF FallsTo
  <2>2. "make" \in Registry[2].systems /\ "make" # NoSystem
    BY RegistryContents DEF NoSystem
  <2> QED
    BY <1>2, <2>1, <2>2, FallingDecides
<1> QED
  BY <1>1, <1>2

-----------------------------------------------------------------------------
(* The build candidates of a repository.                                   *)

BuildKeys(r, entries) == [c \in AllBuilds(r, entries) |-> BuildKey(c)]

LEMMA RankedBuilds ==
  ASSUME NEW r, NEW entries
  PROVE  RankBuildCandidates(r, entries)
           = Sorted(Dedupe(AllBuilds(r, entries)), BuildKeys(r, entries))
  BY DEF RankBuildCandidates, BuildKeys

\* Every candidate there is except that of a makefile.
Others == <<
  Candidate("python-package", "python", 90), Candidate("python-package", "python", 82),
  Candidate("script", "python", 84), Candidate("script", "script", 72),
  Candidate("c-single", "c", 76), Candidate("c-single", "c++", 76),
  Candidate("cargo", "rust", 72), Candidate("go", "go", 72),
  Candidate("maven", "java", 68), Candidate("gradle", "java", 68),
  Candidate("cmake", "c/c++", 68) >>

MakeCandidate(r) == Candidate("make", InferMakeLanguage(r), 95)

\* The language is known from the system, except for a script, where the
\* confidence tells it.
LanguageOf(r, system, confidence) ==
  CASE system = "make" -> InferMakeLanguage(r)
    [] system = "python-package" -> "python"
    [] system = "script" -> IF confidence = 84 THEN "python" ELSE "script"
    [] system = "c-single" -> CHOOSE l \in {"c", "c++"} : r.csources = {l}
    [] system = "cargo" -> "rust"
    [] system = "go" -> "go"
    [] system \in {"maven", "gradle"} -> "java"
    [] system = "cmake" -> "c/c++"

IsOther(c) == \E i \in 1 .. 11 : c = Others[i]

LEMMA PackagesAreOthers ==
  ASSUME NEW r, NEW entries, NEW c \in PackageCandidates(r, entries)
  PROVE  IsOther(c) /\ c.language = LanguageOf(r, c.system, c.confidence)
<1>1. c = Others[1] \/ c = Others[2]
  BY DEF PackageCandidates, Others
<1>2. c.system = "python-package" /\ c.language = "python"
  BY <1>1 DEF Others, Candidate
<1>3. IsOther(c)
  BY <1>1 DEF IsOther
<1> QED
  BY <1>2, <1>3 DEF LanguageOf

LEMMA ScriptsAreOthers ==
  ASSUME NEW r, NEW entries, NEW c \in ScriptCandidates(entries)
  PROVE  IsOther(c) /\ c.language = LanguageOf(r, c.system, c.confidence)
<1>1. c = Others[3] \/ c = Others[4]
  BY DEF ScriptCandidates, Others
<1>2. /\ c.system = "script"
      /\ c.language = IF c.confidence = 84 THEN "python" ELSE "script"
  BY <1>1 DEF Others, Candidate
<1>3. IsOther(c)
  BY <1>1 DEF IsOther
<1> QED
  BY <1>2, <1>3 DEF LanguageOf

LEMMA SingleSourcesAreOthers ==
  ASSUME NEW r \in Repositories, NEW c \in SingleSourceCandidates(r)
  PROVE  IsOther(c) /\ c.language = LanguageOf(r, c.system, c.confidence)
<1>1. r.csources \in SUBSET {"c", "c++"}
  BY AnalysisAssumption
<1>2. Cardinality(r.csources) = 1 /\ c \in {Candidate("c-single", l, 76) : l \in r.csources}
  BY DEF SingleSourceCandidates
<1>3. IsFiniteSet(r.csources)
  <2>1. IsFiniteSet({"c"} \cup {"c++"})
    BY FS_Singleton, FiniteUnion
  <2>2. r.csources \in SUBSET ({"c"} \cup {"c++"})
    BY <1>1
  <2> QED
    BY <2>1, <2>2, FS_Subset
<1>4. PICK l : r.csources = {l}
  BY <1>2, <1>3, FS_Singleton
<1>5. l \in {"c", "c++"} /\ c = Candidate("c-single", l, 76)
  BY <1>1, <1>2, <1>4
<1>6. (CHOOSE m \in {"c", "c++"} : r.csources = {m}) = l
  BY <1>4, <1>5
<1>7. c.system = "c-single" /\ c.language = l
  BY <1>5 DEF Candidate
<1>8. c = Others[5] \/ c = Others[6]
  BY <1>5 DEF Others
<1>9. IsOther(c)
  BY <1>8 DEF IsOther
<1> QED
  BY <1>6, <1>7, <1>9 DEF LanguageOf

LEMMA ManifestsGiveOthers ==
  ASSUME NEW r, NEW c \in ManifestOnlyCandidates(r)
  PROVE  IsOther(c) /\ c.language = LanguageOf(r, c.system, c.confidence)
<1>1. \E i \in {7, 8, 9, 10, 11} : c = Others[i]
  BY DEF ManifestOnlyCandidates, ManifestOnly, Others
<1>2. \/ c.system = "cargo" /\ c.language = "rust"
      \/ c.system = "go" /\ c.language = "go"
      \/ c.system = "maven" /\ c.language = "java"
      \/ c.system = "gradle" /\ c.language = "java"
      \/ c.system = "cmake" /\ c.language = "c/c++"
  BY <1>1 DEF Others, Candidate
<1>3. IsOther(c)
  BY <1>1 DEF IsOther
<1> QED
  BY <1>2, <1>3 DEF LanguageOf

\* A candidate is that of a makefile or one of the others, and its language
\* follows from its system and its confidence.
LEMMA BuildsAreKnown ==
  ASSUME NEW r \in Repositories, NEW entries, NEW c \in AllBuilds(r, entries)
  PROVE  /\ \/ c = MakeCandidate(r) /\ "Makefile" \in r.manifests
            \/ IsOther(c)
         /\ c.language = LanguageOf(r, c.system, c.confidence)
<1>1. CASE c \in MakeCandidates(r)
  <2>1. c = MakeCandidate(r) /\ "Makefile" \in r.manifests
    BY <1>1 DEF MakeCandidates, MakeCandidate
  <2>2. c.system = "make" /\ c.language = InferMakeLanguage(r)
    BY <2>1 DEF MakeCandidate, Candidate
  <2> QED
    BY <2>1, <2>2 DEF LanguageOf
<1>2. CASE c \in PackageCandidates(r, entries)
  BY <1>2, PackagesAreOthers
<1>3. CASE c \in ScriptCandidates(entries)
  BY <1>3, ScriptsAreOthers
<1>4. CASE c \in SingleSourceCandidates(r)
  BY <1>4, SingleSourcesAreOthers
<1>5. CASE c \in ManifestOnlyCandidates(r)
  BY <1>5, ManifestsGiveOthers
<1> QED
  BY <1>1, <1>2, <1>3, <1>4, <1>5 DEF AllBuilds

\* What is true of every other candidate: it yields to a makefile, it names a
\* language, and there is a backend for it.
Yields(c) ==
  /\ c = Candidate(c.system, c.language, c.confidence)
  /\ c.confidence \in 0 .. 94
  /\ c.system \in {SystemOrder[i] : i \in 1 .. 9} \ {"make"}

Granted(c) ==
  /\ c.language # NoLanguage
  /\ BackendGranted(c.language, c.system, "auto")

LEMMA OthersYield ==
  ASSUME NEW c, IsOther(c)
  PROVE  Yields(c)
<1>1. PICK i \in 1 .. 11 : c = Others[i]
  BY DEF IsOther
<1>2. c.system \in {"c-single", "cargo", "cmake", "go", "gradle", "maven",
                   "python-package", "script"}
  BY <1>1 DEF Others, Candidate
<1>3. c.confidence \in {68, 72, 76, 82, 84, 90}
  BY <1>1 DEF Others, Candidate
<1>4. c = Candidate(c.system, c.language, c.confidence)
  BY <1>1 DEF Others, Candidate
<1>5. c.system \in {SystemOrder[j] : j \in 1 .. 9} \ {"make"}
  BY <1>2 DEF SystemOrder
<1>6. c.confidence \in 0 .. 94
  BY <1>3
<1> QED
  BY <1>4, <1>5, <1>6 DEF Yields

LEMMA OthersAreGranted ==
  ASSUME NEW c, IsOther(c)
  PROVE  Granted(c)
<1>1. PICK i \in 1 .. 11 : c = Others[i]
  BY DEF IsOther
<1>2. \/ c.system \in {"python-package", "script"} /\ c.language \in {"python", "script"}
      \/ c.system \in {"c-single", "cmake"} /\ c.language \in {"c", "c++", "c/c++"}
      \/ c.system = "go" /\ c.language = "go"
      \/ c.system = "cargo" /\ c.language = "rust"
      \/ c.system \in {"maven", "gradle"} /\ c.language = "java"
  BY <1>1 DEF Others, Candidate
<1>3. /\ c.language # NoLanguage
      /\ c.system # "auto" /\ c.system # NoSystem
  BY <1>2 DEF NoLanguage, NoSystem
<1>4. \E n \in 1 .. 5 : FallsTo(n, c.language, c.system) /\ c.system \in Registry[n].systems
  <2>1. CASE c.system \in {"python-package", "script"} /\ c.language \in {"python", "script"}
    <3>1. \A m \in 1 .. 5 : ~(m < 1)
      OBVIOUS
    <3>2. FallsTo(1, c.language, c.system) /\ c.system \in Registry[1].systems
      BY <2>1, <3>1, RegistryContents DEF FallsTo
    <3> QED
      BY <3>2
  <2>2. CASE c.system \in {"c-single", "cmake"} /\ c.language \in {"c", "c++", "c/c++"}
    <3>1. \A m \in 1 .. 5 : m < 2 => m = 1
      OBVIOUS
    <3>2. FallsTo(2, c.language, c.system) /\ c.system \in Registry[2].systems
      BY <2>2, <3>1, RegistryContents DEF FallsTo
    <3> QED
      BY <3>2
  <2>3. CASE c.system = "go" /\ c.language = "go"
    <3>1. \A m \in 1 .. 5 : m < 3 => m \in {1, 2}
      OBVIOUS
    <3>2. FallsTo(3, c.language, c.system) /\ c.system \in Registry[3].systems
      BY <2>3, <3>1, RegistryContents DEF FallsTo
    <3> QED
      BY <3>2
  <2>4. CASE c.system = "cargo" /\ c.language = "rust"
    <3>1. \A m \in 1 .. 5 : m < 4 => m \in {1, 2, 3}
      OBVIOUS
    <3>2. FallsTo(4, c.language, c.system) /\ c.system \in Registry[4].systems
      BY <2>4, <3>1, RegistryContents DEF FallsTo
    <3> QED
      BY <3>2
  <2>5. CASE c.system \in {"maven", "gradle"} /\ c.language = "java"
    <3>1. \A m \in 1 .. 5 : m < 5 => m \in {1, 2, 3, 4}
      OBVIOUS
    <3>2. FallsTo(5, c.language, c.system) /\ c.system \in Registry[5].systems
      BY <2>5, <3>1, RegistryContents DEF FallsTo
    <3> QED
      BY <3>2
  <2> QED
    BY <1>2, <2>1, <2>2, <2>3, <2>4, <2>5
<1> QED
  BY <1>3, <1>4, FallingDecides DEF Granted

LEMMA BuildsAreFinite ==
  ASSUME NEW r \in Repositories, NEW entries
  PROVE  IsFiniteSet(AllBuilds(r, entries))
<1> DEFINE others == {Others[i] : i \in DOMAIN Others}
<1>1. DOMAIN Others = 1 .. 11
  BY DEF Others
<1>2. IsFiniteSet(others)
  <2>1. \A m \in Nat : IsFiniteSet(1 .. m)
    BY FS_Interval
  <2>2. IsFiniteSet(DOMAIN Others)
    BY <1>1, <2>1
  <2> QED
    BY <2>2, ImageIsFinite
<1>3. IsFiniteSet({MakeCandidate(r)} \cup others)
  <2> HIDE DEF others
  <2> QED
    BY <1>2, FS_Singleton, FiniteUnion
<1>4. AllBuilds(r, entries) \in SUBSET ({MakeCandidate(r)} \cup others)
  <2>1. SUFFICES ASSUME NEW c \in AllBuilds(r, entries)
                 PROVE  c \in {MakeCandidate(r)} \cup others
    <3> HIDE DEF others
    <3> QED
      OBVIOUS
  <2>2. c = MakeCandidate(r) \/ \E i \in 1 .. 11 : c = Others[i]
    BY BuildsAreKnown DEF IsOther
  <2> QED
    BY <1>1, <2>2
<1> QED
  BY <1>3, <1>4, FS_Subset

\* The place of a system among the nine in the order of their names.
Place(s) == CHOOSE i \in DOMAIN SystemOrder : SystemOrder[i] = s

LEMMA PlacesAreTold ==
  /\ \A s \in {SystemOrder[i] : i \in 1 .. 9} : Place(s) \in 1 .. 9 /\ SystemOrder[Place(s)] = s
  /\ "make" \in {SystemOrder[i] : i \in 1 .. 9}
<1>1. DOMAIN SystemOrder = 1 .. 9 /\ SystemOrder[6] = "make"
  BY DEF SystemOrder
<1> QED
  BY <1>1 DEF Place

LEMMA MakeIsAhead ==
  ASSUME NEW r
  PROVE  /\ MakeCandidate(r).system = "make" /\ MakeCandidate(r).confidence = 95
         /\ MakeCandidate(r).language = InferMakeLanguage(r)
         /\ MakeCandidate(r) = Candidate("make", InferMakeLanguage(r), 95)
  BY DEF MakeCandidate, Candidate

\* The candidates that compete, their keys and what the keys tell.
IsBuild(c) == c.confidence \in 0 .. 95 /\ c.system \in {SystemOrder[i] : i \in 1 .. 9}

LEMMA BuildsHaveShape ==
  ASSUME NEW r \in Repositories, NEW entries, NEW c \in AllBuilds(r, entries)
  PROVE  IsBuild(c) /\ c = Candidate(c.system, c.language, c.confidence)
<1>1. CASE c = MakeCandidate(r)
  <2>1. c.system = "make" /\ c.confidence = 95
    BY <1>1, MakeIsAhead
  <2>2. c = Candidate(c.system, c.language, c.confidence)
    BY <1>1, MakeIsAhead
  <2>3. IsBuild(c)
    BY <2>1, PlacesAreTold DEF IsBuild
  <2> QED
    BY <2>2, <2>3
<1>2. CASE IsOther(c)
  <2>1. /\ c = Candidate(c.system, c.language, c.confidence)
        /\ c.confidence \in 0 .. 94
        /\ c.system \in {SystemOrder[i] : i \in 1 .. 9}
    BY <1>2, OthersYield DEF Yields
  <2>2. c.confidence \in 0 .. 95
    BY <2>1
  <2> QED
    BY <2>1, <2>2 DEF IsBuild
<1> QED
  BY <1>1, <1>2, BuildsAreKnown

LEMMA BuildKeyIs ==
  ASSUME NEW c, IsBuild(c)
  PROVE  BuildKey(c) = <<-c.confidence, Place(c.system)>> /\ BuildKey(c) \in Keys(2)
<1>1. BuildKey(c) = <<-c.confidence, Place(c.system)>>
  BY DEF BuildKey, Place
<1>2. Place(c.system) \in Int
  BY PlacesAreTold DEF IsBuild
<1>3. -c.confidence \in Int
  <2>1. \A m \in 0 .. 95 : -m \in Int
    OBVIOUS
  <2> QED
    BY <2>1 DEF IsBuild
<1> QED
  BY <1>1, <1>2, <1>3 DEF Keys

LEMMA SameKeySameBuild ==
  ASSUME NEW r \in Repositories, NEW entries,
         NEW c \in AllBuilds(r, entries), NEW d \in AllBuilds(r, entries),
         BuildKey(c) = BuildKey(d)
  PROVE  c = d
<1>1. IsBuild(c) /\ IsBuild(d)
  BY BuildsHaveShape
<1>2. -c.confidence = -d.confidence /\ Place(c.system) = Place(d.system)
  BY <1>1, BuildKeyIs
<1>3. c.confidence = d.confidence
  <2>1. \A m, n \in 0 .. 95 : -m = -n => m = n
    OBVIOUS
  <2> QED
    BY <1>1, <1>2, <2>1 DEF IsBuild
<1>4. c.system = d.system
  BY <1>1, <1>2, PlacesAreTold DEF IsBuild
<1>5. c.language = d.language
  <2>1. /\ c.language = LanguageOf(r, c.system, c.confidence)
        /\ d.language = LanguageOf(r, d.system, d.confidence)
    BY BuildsAreKnown
  <2> QED
    BY <1>3, <1>4, <2>1
<1>6. /\ c = Candidate(c.system, c.language, c.confidence)
      /\ d = Candidate(d.system, d.language, d.confidence)
  BY BuildsHaveShape
<1> QED
  BY <1>3, <1>4, <1>5, <1>6

LEMMA DedupedAreKeyed ==
  ASSUME NEW r \in Repositories, NEW entries
  PROVE  /\ IsFiniteSet(Dedupe(AllBuilds(r, entries)))
         /\ Keyed(Dedupe(AllBuilds(r, entries)), BuildKeys(r, entries), 2)
<1>1. Dedupe(AllBuilds(r, entries)) \in SUBSET AllBuilds(r, entries)
  BY DEF Dedupe
<1>2. IsFiniteSet(Dedupe(AllBuilds(r, entries)))
  BY <1>1, BuildsAreFinite, FS_Subset
<1>3. \A c \in AllBuilds(r, entries) :
        BuildKeys(r, entries)[c] = BuildKey(c) /\ BuildKey(c) \in Keys(2)
  BY BuildsHaveShape, BuildKeyIs DEF BuildKeys
<1> QED
  BY <1>1, <1>2, <1>3, SameKeySameBuild DEF Keyed

\* One candidate of each system stays.
LEMMA OnePerSystem ==
  ASSUME NEW r \in Repositories, NEW entries,
         NEW c \in Dedupe(AllBuilds(r, entries)), NEW d \in Dedupe(AllBuilds(r, entries)),
         c.system = d.system
  PROVE  c = d
<1>1. /\ c \in AllBuilds(r, entries) /\ d \in AllBuilds(r, entries)
      /\ ~Before(BuildKey(c), BuildKey(d)) /\ ~Before(BuildKey(d), BuildKey(c))
  BY DEF Dedupe
<1>2. BuildKey(c) \in Keys(2) /\ BuildKey(d) \in Keys(2)
  BY <1>1, BuildsHaveShape, BuildKeyIs
<1>3. BuildKey(c) = BuildKey(d)
  BY <1>1, <1>2, BeforeTotal
<1> QED
  BY <1>1, <1>3, SameKeySameBuild

\* What comes before has no less confidence.
LEMMA EarlierHasMore ==
  ASSUME NEW c, NEW d, IsBuild(c), IsBuild(d), Before(BuildKey(c), BuildKey(d))
  PROVE  c.confidence >= d.confidence
<1>1. /\ BuildKey(c) = <<-c.confidence, Place(c.system)>>
      /\ BuildKey(d) = <<-d.confidence, Place(d.system)>>
  BY BuildKeyIs
<1>2. -c.confidence <= -d.confidence
  <2>1. PICK i \in 1 .. 2 : /\ BuildKey(c)[i] < BuildKey(d)[i]
                            /\ \A j \in 1 .. i - 1 : BuildKey(c)[j] = BuildKey(d)[j]
    BY <1>1 DEF Before
  <2>2. \A m, n \in 0 .. 95 : -m < -n \/ -m = -n => -m <= -n
    OBVIOUS
  <2>3. BuildKey(c)[1] = -c.confidence /\ BuildKey(d)[1] = -d.confidence
    BY <1>1
  <2>4. CASE i = 1
    BY <2>1, <2>2, <2>3, <2>4 DEF IsBuild
  <2>5. CASE i = 2
    <3>1. 1 \in 1 .. i - 1
      BY <2>5
    <3>2. BuildKey(c)[1] = BuildKey(d)[1]
      BY <2>1, <3>1
    <3> QED
      BY <2>2, <2>3, <3>2 DEF IsBuild
  <2> QED
    BY <2>4, <2>5
<1>3. \A m, n \in 0 .. 95 : -m <= -n => m >= n
  OBVIOUS
<1> QED
  BY <1>2, <1>3 DEF IsBuild

\* What analyze_repository lists as build candidates.
LEMMA BuildsAreRanked ==
  ASSUME NEW r \in Repositories, NEW entries
  PROVE  \E n \in Nat :
    LET builds == RankBuildCandidates(r, entries)
    IN  /\ builds \in [1 .. n -> Dedupe(AllBuilds(r, entries))]
        /\ \A i, j \in 1 .. n : i < j => Before(BuildKey(builds[i]), BuildKey(builds[j]))
        /\ \A c \in Dedupe(AllBuilds(r, entries)) : \E i \in 1 .. n : builds[i] = c
<1> DEFINE all == AllBuilds(r, entries)
           S == Dedupe(all)
           key == BuildKeys(r, entries)
           n == Cardinality(S)
           builds == RankBuildCandidates(r, entries)
<1>1. IsFiniteSet(S) /\ Keyed(S, key, 2)
  BY DedupedAreKeyed
<1>2. builds = Sorted(S, key)
  BY RankedBuilds
<1>3. \A c \in S : key[c] = BuildKey(c)
  BY DEF Dedupe, BuildKeys
<1> HIDE DEF S, key, n, builds
<1>4. /\ n \in Nat /\ builds \in [1 .. n -> S]
      /\ \A i, j \in 1 .. n : i < j => Before(key[builds[i]], key[builds[j]])
      /\ \A c \in S : \E i \in 1 .. n : builds[i] = c
  BY <1>1, <1>2, SortedInOrder DEF n
<1>5. \A i, j \in 1 .. n : i < j => Before(BuildKey(builds[i]), BuildKey(builds[j]))
  BY <1>3, <1>4
<1> QED
  BY <1>4, <1>5 DEF S, builds

\* A makefile comes first, whatever else there is.
LEMMA MakefileComesFirst ==
  ASSUME NEW r \in Repositories, NEW entries, "Makefile" \in r.manifests
  PROVE  LET builds == RankBuildCandidates(r, entries)
         IN  builds # <<>> /\ builds[1] = MakeCandidate(r)
<1> DEFINE all == AllBuilds(r, entries)
           S == Dedupe(all)
           builds == RankBuildCandidates(r, entries)
<1>1. MakeCandidate(r) \in all
  BY DEF AllBuilds, MakeCandidates, MakeCandidate
<1>2. \A c \in all : c # MakeCandidate(r) => /\ c.confidence \in 0 .. 94
                                              /\ c.system # "make"
  <2>1. SUFFICES ASSUME NEW c \in all, c # MakeCandidate(r)
                 PROVE  c.confidence \in 0 .. 94 /\ c.system # "make"
    OBVIOUS
  <2>2. IsOther(c)
    BY <2>1, BuildsAreKnown
  <2>3. Yields(c)
    BY <2>2, OthersYield
  <2> QED
    BY <2>3, Zenon DEF Yields
<1>3. \A c \in all : IsBuild(c)
  BY BuildsHaveShape
<1>4. MakeCandidate(r) \in S
  <2>1. ASSUME NEW d \in all, d.system = MakeCandidate(r).system
        PROVE  ~Before(BuildKey(d), BuildKey(MakeCandidate(r)))
    <3>1. d = MakeCandidate(r)
      BY <1>2, <2>1, MakeIsAhead
    <3>2. BuildKey(d) \in Keys(2)
      BY <1>3, BuildKeyIs
    <3> QED
      BY <3>1, <3>2, BeforeIrreflexive
  <2> QED
    BY <1>1, <2>1 DEF Dedupe
<1>5. S \in SUBSET all
  BY DEF Dedupe
<1> HIDE DEF all, S, builds
<1>6. PICK n \in Nat :
        /\ builds \in [1 .. n -> S]
        /\ \A i, j \in 1 .. n : i < j => Before(BuildKey(builds[i]), BuildKey(builds[j]))
        /\ \A c \in S : \E i \in 1 .. n : builds[i] = c
  BY BuildsAreRanked DEF all, S, builds
<1>7. PICK i \in 1 .. n : builds[i] = MakeCandidate(r)
  BY <1>4, <1>6
<1>8. 1 \in 1 .. n /\ builds[1] \in S
  BY <1>6, <1>7
<1>9. builds[1] = MakeCandidate(r)
  <2>1. CASE i = 1
    BY <1>7, <2>1
  <2>2. CASE 1 < i
    <3>1. Before(BuildKey(builds[1]), BuildKey(MakeCandidate(r)))
      BY <1>6, <1>7, <1>8, <2>2
    <3>2. builds[1].confidence >= 95
      BY <1>1, <1>3, <1>5, <1>8, <3>1, EarlierHasMore, MakeIsAhead
    <3>3. builds[1] \in all
      BY <1>5, <1>8
    <3>4. \A m \in 0 .. 94 : ~(m >= 95)
      OBVIOUS
    <3> QED
      BY <1>2, <3>2, <3>3, <3>4
  <2> QED
    BY <2>1, <2>2
<1>10. builds # <<>>
  BY <1>6, <1>8
<1> QED
  BY <1>9, <1>10 DEF builds

\* Without one every candidate has its backend.
LEMMA OthersComeFirst ==
  ASSUME NEW r \in Repositories, NEW entries, "Makefile" \notin r.manifests,
         RankBuildCandidates(r, entries) # <<>>
  PROVE  Granted(RankBuildCandidates(r, entries)[1])
<1> DEFINE all == AllBuilds(r, entries)
           S == Dedupe(all)
           builds == RankBuildCandidates(r, entries)
<1>1. S \in SUBSET all
  BY DEF Dedupe
<1>2. \A c \in all : IsOther(c)
  BY BuildsAreKnown
<1>3. PICK n \in Nat : builds \in [1 .. n -> S]
  BY BuildsAreRanked
<1> HIDE DEF all, S, builds
<1>4. n # 0
  <2>1. SUFFICES ASSUME n = 0  PROVE FALSE
    OBVIOUS
  <2>2. DOMAIN builds = {} /\ builds = [i \in {} |-> builds[i]]
    BY <1>3, <2>1
  <2>3. builds = <<>>
    BY <2>2
  <2> QED
    BY <2>3 DEF builds
<1>5. builds[1] \in S
  BY <1>3, <1>4
<1>6. IsOther(builds[1])
  BY <1>1, <1>2, <1>5
<1> QED
  BY <1>6, OthersAreGranted DEF builds

\* A candidate that does not stay yields to one of its system that does: of
\* those of one system the first in the order of the keys.
LEMMA BestStays ==
  ASSUME NEW r \in Repositories, NEW entries, NEW c \in AllBuilds(r, entries)
  PROVE  \E d \in Dedupe(AllBuilds(r, entries)) :
           d.system = c.system /\ d.confidence >= c.confidence
<1> DEFINE all == AllBuilds(r, entries)
           S == {d \in all : d.system = c.system}
           key == BuildKeys(r, entries)
           m == Cardinality(S)
<1>1. \A d \in all : IsBuild(d) /\ key[d] = BuildKey(d) /\ BuildKey(d) \in Keys(2)
  BY BuildsHaveShape, BuildKeyIs DEF BuildKeys
<1>2. IsFiniteSet(S) /\ Keyed(S, key, 2)
  <2>1. S \in SUBSET all /\ IsFiniteSet(all)
    BY BuildsAreFinite
  <2>2. \A d, e \in all : BuildKey(d) = BuildKey(e) => d = e
    BY SameKeySameBuild
  <2> HIDE DEF all, S
  <2>3. IsFiniteSet(S)
    BY <2>1, FS_Subset
  <2> QED
    BY <1>1, <2>1, <2>2, <2>3 DEF Keyed
<1>3. c \in S
  OBVIOUS
<1>4. \A d \in S : d \in all /\ d.system = c.system
  OBVIOUS
<1> HIDE DEF S, key, m
<1>5. /\ m \in Nat /\ Sorted(S, key) \in [1 .. m -> S]
      /\ \A i, j \in 1 .. m : i < j => Before(key[Sorted(S, key)[i]], key[Sorted(S, key)[j]])
      /\ \A d \in S : \E i \in 1 .. m : Sorted(S, key)[i] = d
  BY <1>2, SortedInOrder DEF m
<1> DEFINE first == Sorted(S, key)[1]
<1>6. first \in S
  BY <1>3, <1>5
<1>7. \A d \in S : d = first \/ Before(BuildKey(first), BuildKey(d))
  <2>1. SUFFICES ASSUME NEW d \in S
                 PROVE  d = first \/ Before(BuildKey(first), BuildKey(d))
    OBVIOUS
  <2>2. PICK i \in 1 .. m : Sorted(S, key)[i] = d
    BY <1>5
  <2>3. CASE i = 1
    BY <2>2, <2>3
  <2>4. CASE 1 < i
    <3>1. 1 \in 1 .. m
      BY <1>5, <2>4
    <3>2. Before(key[first], key[d])
      BY <1>5, <2>2, <2>4, <3>1
    <3> QED
      BY <1>1, <1>4, <1>6, <3>2
  <2> QED
    BY <2>3, <2>4
<1> HIDE DEF first
<1>8. first \in Dedupe(all)
  <2>1. ASSUME NEW d \in all, d.system = first.system
        PROVE  ~Before(BuildKey(d), BuildKey(first))
    <3>1. d \in S
      BY <1>4, <1>6, <2>1 DEF S
    <3>2. BuildKey(d) \in Keys(2) /\ BuildKey(first) \in Keys(2)
      BY <1>1, <1>4, <1>6
    <3>3. SUFFICES ASSUME Before(BuildKey(d), BuildKey(first))  PROVE FALSE
      OBVIOUS
    <3>4. Before(BuildKey(d), BuildKey(d))
      BY <1>7, <3>1, <3>2, <3>3, BeforeTransitive
    <3> QED
      BY <3>2, <3>4, BeforeIrreflexive
  <2> QED
    BY <1>4, <1>6, <2>1 DEF Dedupe
<1>9. first.confidence >= c.confidence
  <2>1. IsBuild(first) /\ IsBuild(c)
    BY <1>1, <1>3, <1>4, <1>6
  <2>2. CASE c = first
    <3>1. \A n \in 0 .. 95 : n >= n
      OBVIOUS
    <3> QED
      BY <2>1, <2>2, <3>1 DEF IsBuild
  <2>3. CASE Before(BuildKey(first), BuildKey(c))
    BY <2>1, <2>3, EarlierHasMore
  <2> QED
    BY <1>3, <1>7, <2>2, <2>3
<1> QED
  BY <1>4, <1>6, <1>8, <1>9
-----------------------------------------------------------------------------
(* The task spec.                                                          *)

LEMMA SpecParts ==
  ASSUME NEW r, NEW p
  PROVE  LET entries == RankEntrypoints(r.files, p)
             builds  == RankBuildCandidates(r, ToSet(entries))
             s       == InitTask(r, p)
         IN  /\ s.entrypoints = Rerank(entries, p)
             /\ s.builds = builds
             /\ s.language = IF builds # <<>> /\ builds[1].language # NoLanguage
                               THEN builds[1].language
                             ELSE IF entries # <<>> THEN entries[1].language
                             ELSE NoLanguage
             /\ s.system = IF builds = <<>> THEN NoSystem ELSE builds[1].system
<1> DEFINE entries == RankEntrypoints(r.files, p)
           builds == RankBuildCandidates(r, ToSet(entries))
           language == IF builds # <<>> /\ builds[1].language # NoLanguage
                         THEN builds[1].language
                       ELSE IF entries # <<>> THEN entries[1].language
                       ELSE NoLanguage
           system == IF builds = <<>> THEN NoSystem ELSE builds[1].system
<1>1. Analyze(r, p) = [entrypoints |-> entries, builds |-> builds, language |-> language,
                       system |-> system, warned |-> TiedSelection(entries)]
  BY DEF Analyze
<1>2. InitTask(r, p) = [Analyze(r, p) EXCEPT !.entrypoints =
                          Rerank(Analyze(r, p).entrypoints, p)]
  BY DEF InitTask
<1> HIDE DEF entries, builds, language, system
<1>3. Analyze(r, p).entrypoints = entries
  BY <1>1
<1>4. /\ InitTask(r, p).entrypoints = Rerank(entries, p)
      /\ InitTask(r, p).builds = builds /\ InitTask(r, p).language = language
      /\ InitTask(r, p).system = system
  BY <1>1, <1>2, <1>3
<1> QED
  BY <1>4 DEF entries, builds, language, system

LEMMA SpecHasBestCandidates ==
  ASSUME NEW r \in Repositories, NEW p
  PROVE  BestCandidatePerSystem(InitTask(r, p), r, p)
<1> DEFINE entries == ToSet(RankEntrypoints(r.files, p))
           all == AllBuilds(r, entries)
           builds == RankBuildCandidates(r, entries)
<1>1. /\ InitTask(r, p).builds = builds
      /\ InitTask(r, p).system = IF builds = <<>> THEN NoSystem ELSE builds[1].system
  BY SpecParts
<1>2. PICK n \in Nat :
        /\ builds \in [1 .. n -> Dedupe(all)]
        /\ \A i, j \in 1 .. n : i < j => Before(BuildKey(builds[i]), BuildKey(builds[j]))
        /\ \A c \in Dedupe(all) : \E i \in 1 .. n : builds[i] = c
  BY BuildsAreRanked
<1>3. \A c \in Dedupe(all) : c \in all /\ IsBuild(c)
  BY BuildsHaveShape DEF Dedupe
<1>4. \A c, d \in Dedupe(all) : c.system = d.system => c = d
  BY OnePerSystem
<1> HIDE DEF entries, all, builds
<1>5. ASSUME NEW i \in 1 .. n, NEW j \in 1 .. n, i < j
      PROVE  /\ builds[i].system # builds[j].system
             /\ builds[i].confidence >= builds[j].confidence
  <2>1. builds[i] \in Dedupe(all) /\ builds[j] \in Dedupe(all)
    BY <1>2
  <2>2. Before(BuildKey(builds[i]), BuildKey(builds[j]))
    BY <1>2, <1>5
  <2>3. builds[i].confidence >= builds[j].confidence
    BY <1>3, <2>1, <2>2, EarlierHasMore
  <2>4. builds[i] # builds[j]
    <3>1. SUFFICES ASSUME builds[i] = builds[j]  PROVE FALSE
      OBVIOUS
    <3>2. BuildKey(builds[i]) \in Keys(2)
      BY <1>3, <2>1, BuildKeyIs
    <3> QED
      BY <2>2, <3>1, <3>2, BeforeIrreflexive
  <2> QED
    BY <1>4, <2>1, <2>3, <2>4
<1>6. DOMAIN builds = 1 .. n
  BY <1>2
<1>7. builds # <<>> => InitTask(r, p).system = builds[1].system
  BY <1>1
<1>8. \A c \in all : \E d \in Dedupe(all) :
        d.system = c.system /\ d.confidence >= c.confidence
  BY BestStays DEF all
<1>9. \A c \in all : \E i \in 1 .. n :
        builds[i].system = c.system /\ builds[i].confidence >= c.confidence
  BY <1>2, <1>8
<1>10. all = AllBuilds(r, ToSet(RankEntrypoints(r.files, p)))
  BY DEF all, entries
<1> QED
  BY <1>1, <1>5, <1>6, <1>7, <1>9, <1>10 DEF BestCandidatePerSystem

LEMMA SpecBeginsWithExactPrimary ==
  ASSUME NEW r \in Repositories, NEW p
  PROVE  ExactPrimaryIsFirst(InitTask(r, p), p)
<1> DEFINE entries == RankEntrypoints(r.files, p)
<1>1. InitTask(r, p).entrypoints = Rerank(entries, p)
  BY SpecParts
<1>2. PICK n \in Nat : DOMAIN entries = 1 .. n /\ \A i \in 1 .. n : IsEntry(entries[i])
  BY RankedAreEntries
<1> HIDE DEF entries
<1>3. \A i \in DOMAIN Rerank(entries, p) :
        MatchesExactly(Rerank(entries, p)[i], p) => MatchesExactly(Rerank(entries, p)[1], p)
  BY <1>2, ExactComesFirst
<1> QED
  BY <1>1, <1>3 DEF ExactPrimaryIsFirst

LEMMA SpecIsRefusedForPythonMakefile ==
  ASSUME NEW r \in Repositories, NEW p
  PROVE  RefusedOnlyPythonMakefile(InitTask(r, p), r, p)
<1> DEFINE entries == RankEntrypoints(r.files, p)
           builds == RankBuildCandidates(r, ToSet(entries))
           s == InitTask(r, p)
<1>1. /\ s.language = IF builds # <<>> /\ builds[1].language # NoLanguage
                        THEN builds[1].language
                      ELSE IF entries # <<>> THEN entries[1].language
                      ELSE NoLanguage
      /\ s.system = IF builds = <<>> THEN NoSystem ELSE builds[1].system
  BY SpecParts
<1>2. "Makefile" \in r.manifests =>
        builds # <<>> /\ builds[1].system = "make"
          /\ builds[1].language = InferMakeLanguage(r)
  BY MakefileComesFirst, MakeIsAhead
<1>3. "Makefile" \notin r.manifests /\ builds # <<>> => Granted(builds[1])
  BY OthersComeFirst
<1>4. RefusedOnlyPythonMakefile(s, r, p) <=>
        (~BackendGranted(s.language, s.system, "auto")
           <=> /\ "Makefile" \in r.manifests
               /\ \/ InferMakeLanguage(r) = "python"
                  \/ /\ InferMakeLanguage(r) = NoLanguage
                     /\ entries # <<>> /\ entries[1].language = "python")
  BY Zenon DEF RefusedOnlyPythonMakefile
<1> HIDE DEF entries, builds, s
<1>5. NoLanguage # "python"
  BY DEF NoLanguage
<1>6. CASE "Makefile" \in r.manifests
  <2>1. s.system = "make" /\ s.language =
          IF InferMakeLanguage(r) # NoLanguage THEN InferMakeLanguage(r)
          ELSE IF entries # <<>> THEN entries[1].language ELSE NoLanguage
    BY <1>1, <1>2, <1>6
  <2>2. BackendGranted(s.language, s.system, "auto") <=> s.language # "python"
    BY <2>1, MakeIsGranted
  <2>3. s.language = "python" <=>
          \/ InferMakeLanguage(r) = "python"
          \/ /\ InferMakeLanguage(r) = NoLanguage
             /\ entries # <<>> /\ entries[1].language = "python"
    BY <1>5, <2>1
  <2>4. RefusedOnlyPythonMakefile(s, r, p)
    BY <1>4, <1>6, <2>2, <2>3, Zenon
  <2> QED
    BY <2>4 DEF s
<1>7. CASE "Makefile" \notin r.manifests
  <2>1. BackendGranted(s.language, s.system, "auto")
    <3>1. CASE builds = <<>>
      <4>1. s.system = NoSystem
        BY <1>1, <3>1
      <4>2. SelectSystem(NoSystem, "auto") = NoSystem
        BY DEF SelectSystem, Normalize
      <4> QED
        BY <4>1, <4>2, Zenon DEF BackendGranted
    <3>2. CASE builds # <<>>
      <4>1. Granted(builds[1])
        BY <1>3, <1>7, <3>2
      <4>2. s.language = builds[1].language /\ s.system = builds[1].system
        BY <1>1, <3>2, <4>1 DEF Granted
      <4> QED
        BY <4>1, <4>2 DEF Granted
    <3> QED
      BY <3>1, <3>2
  <2>2. RefusedOnlyPythonMakefile(s, r, p)
    BY <1>4, <1>7, <2>1, Zenon
  <2> QED
    BY <2>2 DEF s
<1> QED
  BY <1>6, <1>7
-----------------------------------------------------------------------------
\* The analysis has written nothing, or the spec of the repository it was given.
AnalysisInv ==
  /\ repo # None => repo \in Repositories /\ primary \in Primaries
  /\ analysed # None => repo # None /\ analysed = InitTask(repo, primary)

\* The task spec that init_task writes has the best build candidate of every
\* system the repository offers, one each, begins with the entrypoint that
\* --primary-binary names exactly, and is refused by the adapters for a makefile
\* of a Python repository only, for any files, manifests and sources
\* (metadata.py:421-437, checkout.py:60-67, adapters.py:321-352).
THEOREM SpecsAreUsable == MCSpec => []SpecIsUsable
<1>1. MCInit => AnalysisInv
  BY DEF MCInit, NoAnalysis, BeginAnalysis, AnalysisInv
<1>2. AnalysisInv /\ [MCNext]_<<vars, repo, primary, analysed>> => AnalysisInv'
  <2>1. SUFFICES ASSUME AnalysisInv, [MCNext]_<<vars, repo, primary, analysed>>
                 PROVE  AnalysisInv'
    OBVIOUS
  <2>2. CASE UNCHANGED <<repo, primary, analysed>>
    BY <2>1, <2>2 DEF AnalysisInv
  <2>3. CASE AnalyseRepository
    BY <2>1, <2>3 DEF AnalyseRepository, AnalysisInv
  <2> QED
    BY <2>1, <2>2, <2>3 DEF MCNext
<1>3. AnalysisInv => SpecIsUsable
  <2>1. SUFFICES ASSUME AnalysisInv, analysed # None
                 PROVE  /\ BestCandidatePerSystem(analysed, repo, primary)
                        /\ ExactPrimaryIsFirst(analysed, primary)
                        /\ RefusedOnlyPythonMakefile(analysed, repo, primary)
    BY DEF SpecIsUsable
  <2>2. repo \in Repositories /\ analysed = InitTask(repo, primary)
    BY <2>1 DEF AnalysisInv
  <2> QED
    BY <2>2, SpecHasBestCandidates, SpecBeginsWithExactPrimary,
       SpecIsRefusedForPythonMakefile
<1> QED
  BY <1>1, <1>2, <1>3, PTL DEF MCSpec
=============================================================================

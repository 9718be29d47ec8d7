----------------------------- MODULE GoldBuild -----------------------------
(***************************************************************************)
(* build_gold: from a task spec to the reference executable.  The adapter  *)
(* registry grants or refuses a backend; the backend tries the build       *)
(* candidates of the spec in order, installs the primary executable of the *)
(* first that produced something, probes it, writes the build log, and the *)
(* artifact record is written last.  Nothing in gold/ is removed first, a  *)
(* call may be killed at any step, and of the exceptions only BuildError   *)
(* is expected: TimeoutExpired is caught around `make` alone, and OSError  *)
(* of an executable the kernel refuses nowhere.                            *)
(***************************************************************************)
EXTENDS LanguageAdapters, FiniteSets

CONSTANTS
  Names,     \* names of executables
  Systems,   \* build systems a spec may name
  Specs,     \* the task specs intake may write
  Overrides, \* values of --build-system
  MaxCalls,  \* bound on the calls of build_gold
  None       \* no such file

\* A task spec: candidates lists its build systems in order, prefer the names
\* of its entrypoints in order, scripts and modules what the script and the
\* package builder find for them.
SpecType ==
  [language : STRING, system : Systems, candidates : Seq(Systems),
   prefer : Seq(Names), scripts : SUBSET Names, modules : SUBSET Names]

Calls    == 1 .. MaxCalls
Programs == [call : Calls, name : Names]

ASSUME GoldAssumption ==
  /\ IsFiniteSet(Names)
  /\ MaxCalls \in Nat
  /\ Specs \subseteq SpecType
  /\ Overrides \subseteq Systems
  /\ "script" \in Systems
  /\ None \notin Nat
  /\ None \notin Programs

VARIABLES
  spec,       \* task_spec.yaml
  outs,       \* gold/executables: per name, the call that wrote it
  outsApp,    \* gold/executables/_python_app: the call that copied it
  program,    \* gold/executable/program: the call and the name it was built as
  programApp, \* gold/executable/_python_app
  log,        \* gold/build.log: its call and whether it ends in a failure
  capability, \* reports/language_capabilities.json
  artifact,   \* build_artifact.json
  phase, call, override, \* the process
  queue,      \* candidates still to be tried
  attempts,   \* build_attempts: for each candidate tried, its entries
  built,      \* what the last of them produced
  outcome,    \* how the last call ended
  \* history
  gold0,      \* program, its app and the record when the call began
  died        \* calls that were killed or ended in an unexpected exception

gold    == <<program, programApp, artifact>>
files   == <<outs, outsApp, program, programApp, log, capability, artifact>>
process == <<phase, call, override, queue, attempts, built, outcome>>
vars    == <<spec, files, process, gold0, died>>

Phases == {"idle", "adapter", "try", "install", "app", "probe", "log", "record"}
Outcomes == {"none", "built", "BuildError", "refused", "raised", "killed"}
Statuses == {"succeeded", "no_outputs", "no_module_entrypoint", "failed",
             "blocked", "tool_unavailable", "skipped"}

\* Of build_attempts an artifact shows the system of the last entry here.
Artifacts == [call : Calls, hash : Programs, paths : SUBSET Names,
              system : Systems]
Attempts  == [system : Systems, entries : Seq(Statuses)]

TypeOK ==
  /\ spec \in Specs
  /\ outs \in [Names -> Calls \cup {None}]
  /\ outsApp \in Calls \cup {None}
  /\ program \in Programs \cup {None}
  /\ programApp \in Calls \cup {None}
  /\ log \in [call : Calls, failed : BOOLEAN] \cup {None}
  /\ capability \in [call : Calls, supported : BOOLEAN] \cup {None}
  /\ artifact \in Artifacts \cup {None}
  /\ phase \in Phases
  /\ call \in 0 .. MaxCalls
  /\ phase # "idle" => call \in Calls
  /\ override \in Overrides
  /\ queue \in Seq(Systems)
  /\ attempts \in Seq(Attempts)
  /\ built \in SUBSET Names
  /\ phase \in {"install", "app", "probe", "log", "record"} =>
       built # {} /\ attempts # <<>>
  /\ phase \in {"app", "probe", "log", "record"} => program \in Programs
  /\ outcome \in Outcomes
  /\ died \in SUBSET Calls

Init ==
  /\ spec \in Specs
  /\ outs = [n \in Names |-> None] /\ outsApp = None
  /\ program = None /\ programApp = None
  /\ log = None /\ capability = None /\ artifact = None
  /\ phase = "idle" /\ call = 0 /\ override \in Overrides
  /\ queue = <<>> /\ attempts = <<>> /\ built = {}
  /\ outcome = "none"
  /\ gold0 = gold /\ died = {}

\* init-task again: the repository and the spec are new, gold/ stays.
Intake ==
  /\ phase = "idle"
  /\ spec' \in Specs
  /\ UNCHANGED <<files, process, gold0, died>>

\* build_gold reads the spec.
Start ==
  /\ phase = "idle" /\ call < MaxCalls
  /\ call' = call + 1
  /\ override' \in Overrides
  /\ phase' = "adapter" /\ outcome' = "none"
  /\ gold0' = gold
  /\ queue' = <<>> /\ attempts' = <<>> /\ built' = {}
  /\ UNCHANGED <<spec, files, died>>

End(result) == phase' = "idle" /\ outcome' = result

System == SelectSystem(spec.system, override)

\* The candidates the backend will try: those of the spec or a default one,
\* restricted to the build system asked for.
Candidates ==
  LET all == IF spec.candidates # <<>> THEN spec.candidates
             ELSE <<IF spec.system = NoSystem THEN "script" ELSE spec.system>>
  IN  IF Normalize(override) = NoSystem THEN all
      ELSE LET asked == {i \in DOMAIN all : all[i] = override}
           IN  [i \in 1 .. Cardinality(asked) |-> override]

\* The capability report is written, and the registry grants a backend or
\* raises BuildError, which build_gold does not record anywhere else.
SelectAdapter ==
  /\ phase = "adapter"
  /\ capability' = [call |-> call,
       supported |-> Supports(Select(spec.language, System), System)]
  /\ IF BackendGranted(spec.language, spec.system, override)
       THEN /\ phase' = "try" /\ queue' = Candidates
            /\ UNCHANGED outcome
       ELSE End("refused") /\ UNCHANGED queue
  /\ UNCHANGED <<spec, outs, outsApp, program, programApp, log, artifact,
                 call, override, attempts, built, gold0, died>>

Scripts  == {"script", "python-script"}
Compiled == {"make", "cmake", "c-single", "go", "cargo", "maven", "gradle",
             "custom-command"}
MayBeEmpty == {"make", "cmake", "custom-command"}

\* Both script builders record themselves as "script".
Recorded(c) == IF c = "python-script" THEN "script" ELSE c

\* The status of a builder that returns the executables N.  CMake's is that of
\* its commands, whatever they built.
Verdict(c, N) ==
  CASE N # {} \/ c = "cmake"             -> "succeeded"
    [] N = {} /\ c = "custom-command"    -> "failed"
    [] N = {} /\ c = "python-package"    -> "no_module_entrypoint"
    [] OTHER                            -> "no_outputs"

\* `make clean` has an entry of its own.
Cleaned(status) == {<<clean, status>> : clean \in {"succeeded", "skipped"}}

\* The entries of a builder that returns N.
Returns(c, N) ==
  IF c = "make" THEN Cleaned(Verdict(c, N)) ELSE {<<Verdict(c, N)>>}

\* The entries of a builder that raises, before the loop's own: none where it
\* is not allowed or finds no tool or source to begin with.
OwnEntries(c) ==
  CASE c = "make"                   -> Cleaned("failed")
    [] c = "custom-command"         -> {<<>>, <<"blocked">>, <<"failed">>}
    [] c \in {"cmake", "c-single"}  -> {<<>>, <<"failed">>}
    [] OTHER                        -> {<<"tool_unavailable">>, <<"failed">>}

\* Mutant: candidates that fail are not recorded.
TriedIfBuilt(entries) ==
  /\ attempts' = IF entries[Len(entries)] # "succeeded" THEN attempts
                 ELSE Append(attempts, [system |-> Recorded(Head(queue)),
                                        entries |-> entries])
  /\ queue' = Tail(queue)

Tried(entries) ==
  /\ attempts' = Append(attempts, [system |-> Recorded(Head(queue)),
                                   entries |-> entries])
  /\ queue' = Tail(queue)

\* The files of a candidate that produced N: the loop ends when there are any.
Produce(N) ==
  /\ outs' = [n \in Names |-> IF n \in N THEN call ELSE outs[n]]
  /\ built' = N
  /\ phase' = IF N = {} THEN "try" ELSE "install"
  /\ \E entries \in Returns(Head(queue), N) : Tried(entries)

unbuilt == <<spec, program, programApp, log, capability, artifact, call,
             override, outcome, gold0, died>>

BuildScripts ==
  /\ phase = "try" /\ queue # <<>> /\ Head(queue) \in Scripts
  /\ Produce(spec.scripts)
  /\ UNCHANGED <<unbuilt, outsApp>>

\* The package builder copies the repository to executables/_python_app, also
\* when it then finds no module to wrap.
BuildPackage ==
  /\ phase = "try" /\ queue # <<>> /\ Head(queue) = "python-package"
  /\ outsApp' = call
  /\ Produce(spec.modules)
  /\ UNCHANGED unbuilt

\* A compiler or build tool.  What it leaves in the repository is copied; make
\* falls back to any executable it finds there.
BuildCompiled(N) ==
  /\ phase = "try" /\ queue # <<>> /\ Head(queue) \in Compiled
  /\ N = {} => Head(queue) \in MayBeEmpty
  /\ Produce(N)
  /\ UNCHANGED <<unbuilt, outsApp>>

\* BuildError: the tool is missing, fails or builds nothing, or is not allowed.
\* A custom command's outputs are copied before its exit code is looked at.
CandidateFails(N) ==
  /\ phase = "try" /\ queue # <<>> /\ Head(queue) \in Compiled
  /\ N # {} => Head(queue) = "custom-command"
  /\ outs' = [n \in Names |-> IF n \in N THEN call ELSE outs[n]]
  /\ \E own \in OwnEntries(Head(queue)) :
       /\ N # {} => own = <<"failed">>
       /\ Tried(Append(own, "failed"))
  /\ UNCHANGED <<unbuilt, outsApp, phase, built>>

SkipCandidate ==
  /\ phase = "try" /\ queue # <<>>
  /\ Head(queue) \notin Scripts \cup Compiled \cup {"python-package"}
  /\ Tried(<<"skipped">>)
  /\ UNCHANGED <<unbuilt, outs, outsApp, phase, built>>

\* TimeoutExpired, of every command but `make` itself, ends the call, as does
\* OSError where a command is not there.
CommandTimesOut ==
  /\ phase = "try" /\ queue # <<>> /\ Head(queue) \in Compiled
  /\ End("raised") /\ died' = died \cup {call}
  /\ UNCHANGED <<spec, files, call, override, queue, attempts, built, gold0>>

\* Mutant: a failed build removes the record.
NothingBuiltClears ==
  /\ phase = "try" /\ queue = <<>>
  /\ log' = [call |-> call, failed |-> TRUE]
  /\ End("BuildError") /\ artifact' = None
  /\ UNCHANGED <<spec, outs, outsApp, program, programApp, capability,
                 call, override, queue, attempts, built, gold0, died>>

NothingBuilt ==
  /\ phase = "try" /\ queue = <<>>
  /\ log' = [call |-> call, failed |-> TRUE]
  /\ End("BuildError")
  /\ UNCHANGED <<spec, outs, outsApp, program, programApp, capability,
                 artifact, call, override, queue, attempts, built, gold0, died>>

\* _choose_primary: the first entrypoint that was built, otherwise the first
\* name.
ChoosePrimary(N) ==
  LET preferred == {n \in N : \E i \in DOMAIN spec.prefer :
                      /\ spec.prefer[i] = n
                      /\ \A j \in 1 .. i - 1 : spec.prefer[j] \notin N}
  IN  CHOOSE n \in N : preferred # {} => n \in preferred

Install ==
  /\ phase = "install"
  /\ program' = [call |-> outs[ChoosePrimary(built)],
                 name |-> ChoosePrimary(built)]
  /\ phase' = "app"
  /\ UNCHANGED <<spec, outs, outsApp, programApp, log, capability, artifact,
                 call, override, queue, attempts, built, outcome, gold0, died>>

\* Mutant: an application directory beside the program is kept.
KeepApp == IF programApp = None THEN outsApp ELSE programApp

\* Whatever _python_app is in executables/ goes beside the program.
FreshApp == IF outsApp = None THEN programApp ELSE outsApp

InstallApp ==
  /\ phase = "app"
  /\ programApp' = FreshApp
  /\ phase' = "probe"
  /\ UNCHANGED <<spec, outs, outsApp, program, log, capability, artifact,
                 call, override, queue, attempts, built, outcome, gold0, died>>

\* Blocked and timed out probes are noted in the log.
Probe ==
  /\ phase = "probe" /\ phase' = "log"
  /\ UNCHANGED <<spec, files, call, override, queue, attempts, built, outcome,
                 gold0, died>>

\* The program cannot be executed: OSError.
ProbeRaises ==
  /\ phase = "probe"
  /\ End("raised") /\ died' = died \cup {call}
  /\ UNCHANGED <<spec, files, call, override, queue, attempts, built, gold0>>

WriteLog ==
  /\ phase = "log" /\ phase' = "record"
  /\ log' = [call |-> call, failed |-> FALSE]
  /\ UNCHANGED <<spec, outs, outsApp, program, programApp, capability, artifact,
                 call, override, queue, attempts, built, outcome, gold0, died>>

\* Mutant: the hash is taken before the program is replaced.
RecordOldHash ==
  /\ phase = "record"
  /\ artifact' = [call |-> call, paths |-> built,
                  hash |-> IF gold0[1] = None THEN program ELSE gold0[1],
                  system |-> attempts[Len(attempts)].system]
  /\ End("built")
  /\ UNCHANGED <<spec, outs, outsApp, program, programApp, log, capability,
                 call, override, queue, attempts, built, gold0, died>>

Record ==
  /\ phase = "record"
  /\ artifact' = [call |-> call, hash |-> program, paths |-> built,
                  system |-> attempts[Len(attempts)].system]
  /\ End("built")
  /\ UNCHANGED <<spec, outs, outsApp, program, programApp, log, capability,
                 call, override, queue, attempts, built, gold0, died>>

Kill ==
  /\ phase # "idle"
  /\ End("killed") /\ died' = died \cup {call}
  /\ UNCHANGED <<spec, files, call, override, queue, attempts, built, gold0>>

TryCandidate ==
  \/ BuildScripts \/ BuildPackage \/ SkipCandidate \/ CommandTimesOut
  \/ \E N \in SUBSET Names : BuildCompiled(N) \/ CandidateFails(N)

Step ==
  \/ SelectAdapter \/ TryCandidate \/ NothingBuilt \/ Install \/ InstallApp
  \/ Probe \/ ProbeRaises \/ WriteLog \/ Record

Next == Intake \/ Start \/ Step \/ Kill

Spec == Init /\ [][Next]_vars
-----------------------------------------------------------------------------
\* When build_gold has returned, the record, the program, its _python_app and
\* the log are all of that call, the program is one of the recorded paths, and
\* a package wrapper finds the application directory it was written for.
BuiltIsOfOneCall ==
  phase = "idle" /\ outcome = "built" =>
    /\ artifact.call = call /\ artifact.hash = program
    /\ log = [call |-> call, failed |-> FALSE]
    /\ program.call = call /\ program.name \in artifact.paths
    /\ \A n \in artifact.paths : outs[n] = call
    /\ artifact.system = "python-package" => programApp = call

\* The record describes the program that is installed, unless a call died
\* between installing its program and writing its record; the record then
\* stays that of an earlier call, and no later stage compares the two.
MismatchMeansDied ==
  artifact # None /\ artifact.hash # program =>
    program.call \in died \/ (phase # "idle" /\ program.call = call)

\* A build that fails as expected leaves the program, its application
\* directory and the record of the last successful one as they were.
FailureKeepsGold ==
  phase = "idle" /\ outcome \in {"BuildError", "refused"} => gold = gold0

\* Every candidate tried has its entries in build_attempts, in the order of the
\* spec and under the override, and the others are still to come.  The
\* executables are those of the last one, whose last entry says so; of those
\* before it only a CMake build without executables ends in "succeeded".
FirstWorkingCandidate ==
  phase \in {"try", "install", "app", "probe", "log", "record"} =>
    LET k       == Len(attempts)
        last(i) == attempts[i].entries[Len(attempts[i].entries)]
    IN  /\ k + Len(queue) = Len(Candidates)
        /\ \A i \in 1 .. k :
             /\ attempts[i].system = Recorded(Candidates[i])
             /\ attempts[i].entries # <<>>
             /\ last(i) = "succeeded" => Candidates[i] = "cmake" \/ (i = k /\ phase # "try")
        /\ phase # "try" => last(k) = "succeeded"

\* A refusal is the one outcome without a log of its own, and the capability
\* report of the same call says why.
RefusalIsReported ==
  phase = "idle" /\ outcome = "refused" =>
    capability = [call |-> call, supported |-> FALSE]

\* The adapter is asked, then the candidates in their order, and what became of
\* them is on record (build_agent.py:84-139, 655-668).
CandidatesAreTriedInOrder ==
  TypeOK /\ FirstWorkingCandidate /\ RefusalIsReported
=============================================================================

----------------------------- MODULE TestRunners -----------------------------
(***************************************************************************)
(* The three ways in which a program meets the cases of the suite files:   *)
(* executable_runner.py runs them on the host or, through                  *)
(* DockerNoNetworkCommandRunner, in a container; pytest runs their         *)
(* rendering.  Each runs them one after the other, and an exception that   *)
(* _run_case does not catch takes the outcomes of all cases with it.       *)
(***************************************************************************)
EXTENDS Naturals, Sequences

CONSTANTS
  Names,          \* test ids that pytest collects
  Uncollected,    \* the test id _safe_test_id gives to a name without letters
  MaxCases,       \* bound on the cases
  CaseSeconds,    \* timeout_seconds of a case
  PytestSeconds,  \* the limit of a whole pytest run
  Raised,         \* the result of a run that an exception ended
  None            \* no run

Runners == {"host", "docker", "pytest"}

\* A case of suite file 1 or 2: whether an argument is an absolute path or a
\* variable has a name that Docker is not given, whether its fixtures can be
\* written ("outside" the directory, or "blocked" by each other), and whether
\* its patterns compile.
Kinds ==
  [file : 1 .. 2, name : Names \cup {Uncollected}, portable : BOOLEAN,
   fixtures : {"safe", "outside", "blocked"}, compiles : BOOLEAN]

\* What the program does when it is given a case: "binary" output is no text,
\* a "missing" program does not start.
Responses == {"expected", "different", "binary", "endless", "missing"}

Outcomes == {"passed", "failed", "error"}

VARIABLES
  cases,      \* the cases, in the order of the files
  answers,    \* of the program, case by case
  runner,     \* the run going on, or None
  position,   \* the case it is at
  outcomes,   \* what it has recorded: case and outcome
  elapsed,    \* seconds of a pytest run
  results,    \* of each runner: None, Raised or the outcomes
  docked      \* Docker was there at every command so far

vars == <<cases, answers, runner, position, outcomes, elapsed, results, docked>>
program == <<cases, answers>>

Records == [case : 1 .. MaxCases, outcome : Outcomes]
Lists   == UNION {[1 .. n -> Records] : n \in 0 .. MaxCases}

\* Assumed where the module is instantiated.
RunnersAssumption ==
  /\ MaxCases \in Nat
  /\ CaseSeconds \in Nat \ {0}
  /\ PytestSeconds \in Nat
  /\ Raised # None /\ Raised \notin Lists

\* A result lists outcomes of different cases, in their order.
TypeOK ==
  /\ runner \in Runners \cup {None}
  /\ position \in 1 .. Len(cases) + 1
  /\ elapsed \in 0 .. PytestSeconds + CaseSeconds
  /\ results \in [Runners -> Lists \cup {None, Raised}]
  /\ outcomes \in Lists
  /\ \A list \in {outcomes} \cup
         {results[r] : r \in {r \in Runners : results[r] \notin {None, Raised}}} :
       \A i \in 1 .. Len(list) - 1 : list[i].case < list[i + 1].case
  /\ docked \in BOOLEAN

\* load_canonical_suites: any cases, file after file.
Init ==
  /\ cases \in {s \in UNION {[1 .. n -> Kinds] : n \in 1 .. MaxCases} :
       \A i \in 1 .. Len(s) - 1 : s[i].file <= s[i + 1].file}
  /\ answers \in [DOMAIN cases -> Responses]
  /\ runner = None
  /\ position = 1
  /\ outcomes = << >>
  /\ elapsed = 0
  /\ results = [r \in Runners |-> None]
  /\ docked = TRUE
-----------------------------------------------------------------------------
(* One case.                                                               *)

\* _case_failure, with the commands that do not end and do not start.
Verdict ==
  [x \in Responses |->
     CASE x = "expected" -> "passed"
       [] x = "missing"    -> "error"
       [] OTHER             -> "failed"]

\* A fixture whose path leads through the file of another, output that is no
\* UTF-8, or re.search of a pattern that does not compile, which is tried when
\* everything before it agrees: no handler of _run_case is for these.
Raises(c, x) ==
  \/ c.fixtures = "blocked"
  \/ /\ c.fixtures = "safe"
     /\ x = "binary" \/ (x = "expected" /\ ~ c.compiles)

\* Mutant: a fixture outside the directory is left out and the case is run.
OnHostWithoutFixture(c, x) == Verdict[x]

OnHost(c, x) == IF c.fixtures = "outside" THEN "error" ELSE Verdict[x]

\* A container cannot be given the path or the variable: PBGenError.  A program
\* that does not start is an exit status of `docker run`.
InContainer(c, x) ==
  CASE c.fixtures = "outside" \/ ~ c.portable -> "error"
    [] x = "missing"                         -> "failed"
    [] OTHER                                  -> Verdict[x]

\* The function _render_pytest writes: whatever goes wrong fails it.
Rendered(c, x) ==
  IF c.fixtures = "safe" /\ x = "expected" /\ c.compiles
  THEN "passed" ELSE "failed"

\* Functions of one module that have one name: the last is left.
Collected ==
  {i \in DOMAIN cases :
     /\ cases[i].name # Uncollected
     /\ \A j \in DOMAIN cases :
          j > i => <<cases[j].file, cases[j].name>> # <<cases[i].file, cases[i].name>>}
-----------------------------------------------------------------------------
(* The runs.                                                               *)

\* One runner after the other takes the same cases and the same program.
Start ==
  /\ runner = None
  /\ \E r \in Runners :
       /\ results[r] = None
       /\ r = "docker" => results["host"] # None
       /\ r = "pytest" => results["docker"] # None
       /\ runner' = r
  /\ position' = 1
  /\ outcomes' = << >>
  /\ elapsed' = 0
  /\ UNCHANGED <<program, results, docked>>

Record(o) ==
  /\ outcomes' = Append(outcomes, [case |-> position, outcome |-> o])
  /\ position' = position + 1
  /\ UNCHANGED <<program, runner, results>>

\* The exception leaves run_executable_test_cases or run_pytest_suite.
Raise ==
  /\ results' = [results EXCEPT ![runner] = Raised]
  /\ runner' = None
  /\ UNCHANGED <<program, position, outcomes, elapsed>>

AtCase == runner # None /\ position \in DOMAIN cases
Case     == cases[position]
Response == answers[position]

RunOnHost ==
  /\ AtCase /\ runner = "host"
  /\ ~ Raises(Case, Response)
  /\ Record(OnHost(Case, Response))
  /\ UNCHANGED <<elapsed, docked>>

\* What is not portable is found before the command is run.
RunInContainer ==
  /\ AtCase /\ runner = "docker"
  /\ ~ Raises(Case, Response) \/ (Case.fixtures = "safe" /\ ~ Case.portable)
  /\ Record(InContainer(Case, Response))
  /\ UNCHANGED <<elapsed, docked>>

\* The image is not there (PBGenError), or Docker does not say in time.
RunWithoutDocker ==
  /\ AtCase /\ runner = "docker"
  /\ Case.fixtures = "safe"
  /\ \E o \in {"error", "failed"} : Record(o)
  /\ docked' = FALSE
  /\ UNCHANGED elapsed

RunRaises ==
  /\ AtCase /\ runner \in {"host", "docker"}
  /\ Raises(Case, Response)
  /\ runner = "docker" /\ Case.fixtures = "safe" => Case.portable
  /\ Raise
  /\ UNCHANGED docked

RunFunction ==
  /\ AtCase /\ runner = "pytest" /\ elapsed <= PytestSeconds
  /\ IF position \in Collected
     THEN /\ Record(Rendered(Case, Response))
          /\ elapsed' = IF Response = "endless" /\ Case.fixtures = "safe"
                        THEN elapsed + CaseSeconds ELSE elapsed
     ELSE /\ position' = position + 1
          /\ UNCHANGED <<program, runner, outcomes, elapsed, results>>
  /\ UNCHANGED docked

PytestTimesOut ==
  /\ runner = "pytest" /\ elapsed > PytestSeconds
  /\ Raise
  /\ UNCHANGED docked

Return ==
  /\ runner # None /\ position > Len(cases) /\ elapsed <= PytestSeconds
  /\ results' = [results EXCEPT ![runner] = outcomes]
  /\ runner' = None
  /\ UNCHANGED <<program, position, outcomes, elapsed, docked>>

Next ==
  \/ Start
  \/ RunOnHost \/ RunInContainer \/ RunWithoutDocker \/ RunRaises
  \/ RunFunction \/ PytestTimesOut
  \/ Return

Spec == Init /\ [][Next]_vars
-----------------------------------------------------------------------------
Returned(r) == results[r] \notin {None, Raised}
Passed(r)   == {results[r][i].case : i \in {i \in DOMAIN results[r] :
                                       results[r][i].outcome = "passed"}}
\* resolved of candidate_evaluator.py, from passed and failed of the result.
Resolved(r) ==
  /\ results[r] # << >>
  /\ \A i \in DOMAIN results[r] : results[r][i].outcome = "passed"

\* "Pytest files are rendered as a compatibility layer" (README.md:56): two
\* runs that return pass the same cases, if pytest finds them all and Docker is
\* there and can be given what they need; and a program that one resolves is
\* resolved by all (executable_runner.py:112-236, test_writer.py:677-753,
\* command_executor.py:63-119).
RunnersAgree ==
  /\ Collected = DOMAIN cases
  /\ docked
  /\ \A i \in DOMAIN cases : cases[i].portable
  => \A r, s \in {r \in Runners : Returned(r)} :
       Passed(r) = Passed(s) /\ (Resolved(r) <=> Resolved(s))

\* A case that ends a run with an exception passes no run that returns: what a
\* caller loses is the rest of the suite, never the verdict on that case
\* (executable_runner.py:136-170).
RaisingCasesNeverPass ==
  results["host"] = Raised =>
    \A r \in {r \in Runners : Returned(r)} :
      \E i \in DOMAIN cases : i \notin Passed(r) /\ Raises(cases[i], answers[i])
=============================================================================

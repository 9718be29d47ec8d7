----------------------- MODULE MCCandidateEvaluation -----------------------
(***************************************************************************)
(* An evaluation in its directory, or the runners that it chooses from     *)
(* side by side on the same cases.  The two share no file, so a behaviour  *)
(* is of one of them and the other stays where it starts.                  *)
(***************************************************************************)
EXTENDS CandidateEvaluation, Sequences

CONSTANTS Names, Uncollected, MaxCases, CaseSeconds, PytestSeconds, Raised

VARIABLES cases, answers, runner, position, outcomes, elapsed, results, docked

TestRunning == INSTANCE TestRunners

ASSUME RunnersAssumed == TestRunning!RunnersAssumption

testVars ==
  <<cases, answers, runner, position, outcomes, elapsed, results, docked>>

NoCases ==
  /\ cases = << >> /\ answers = << >>
  /\ runner = None /\ position = 1 /\ outcomes = << >> /\ elapsed = 0
  /\ results = [r \in TestRunning!Runners |-> None]
  /\ docked = TRUE

MCInit ==
  /\ Init
  /\ \/ NoCases
     \/ TestRunning!Init /\ hidden = {} /\ canonical

MCNext ==
  \/ cases = << >> /\ Next /\ UNCHANGED testVars
  \/ cases # << >> /\ TestRunning!Next /\ UNCHANGED vars

MCSpec == MCInit /\ [][MCNext]_<<vars, testVars>>
-----------------------------------------------------------------------------
\* The host, Docker and pytest agree on the cases that all of them can run, and
\* a case that ends a run with an exception passes no run that returns
\* (executable_runner.py:112-236, test_writer.py:677-753).
RunnersAgree ==
  /\ TestRunning!TypeOK
  /\ TestRunning!RunnersAgree
  /\ TestRunning!RaisingCasesNeverPass
=============================================================================

--------------------------- MODULE CaseGeneration ---------------------------
(***************************************************************************)
(* How proposals become test cases in both generation backends.  The model *)
(* backend records its prompt, runs the command of HostedAdapter, records  *)
(* the reply and the request, and judges the proposals of the reply; the   *)
(* local one judges the proposals it derives from the behaviour surface,   *)
(* and tries revised forms of those that cannot be observed.  Each is run  *)
(* on the gold program, whose output it is then expected to repeat.  The   *)
(* diagnostics are written before the suite.                               *)
(* A reply without structured cases is taken up by GenerationController.   *)
(***************************************************************************)
EXTENDS HostedAdapter

CONSTANTS
  Outputs,    \* Outputs[input]: what the gold program may do with an input
  Revised,    \* Revised[p]: the attempts for a local proposal, p first
  Derived,    \* proposals the behaviour surface may give
  MaxDerived, \* bound on them
  Iterations, \* of a run
  MaxRuns     \* bound on the runs

ASSUME GenerationAssumption ==
  /\ Outputs \in [Inputs -> SUBSET Nat]
  /\ Derived \subseteq Proposals /\ MaxDerived \in Nat
  /\ Revised \in [Proposals -> Seq(Proposals)]
  /\ Iterations \in Nat \ {0} /\ MaxRuns \in Nat

VARIABLES
  backend,     \* "local" or "model"
  gold,        \* is there a gold program?
  run,         \* number of the run
  iteration,
  pc,          \* the next step of the run in progress
  answer,      \* the proposals
  index,       \* of the proposal to judge
  attempt,     \* of its revisions
  diagnostics, \* in memory: one entry per proposal judged
  accepted,    \* in memory: cases of the suite to be
  promptOf,    \* model_prompt_iteration_<n>.txt: the run that wrote it, or 0
  replyOf,     \* model_response_iteration_<n>.json
  requestOf,   \* model_request_iteration_<n>.json
  verdictOf,   \* model_generation_iteration_<n>.json
  verdicts,    \* what the diagnostics file of a backend and iteration says
  suite        \* the suite written last

memory == <<answer, index, attempt, diagnostics, accepted>>
audit  == <<promptOf, replyOf, requestOf>>
store  == <<verdictOf, verdicts, suite>>
frame  == <<backend, gold, run, iteration>>
vars   == <<adapter, frame, pc, memory, audit, store>>

Numbers == 0 .. Iterations - 1

Init ==
  /\ AdapterInit
  /\ backend = "local" /\ gold = TRUE /\ run = 0 /\ iteration = 0 /\ pc = "idle"
  /\ answer = <<>> /\ index = 1 /\ attempt = 1 /\ diagnostics = <<>> /\ accepted = <<>>
  /\ promptOf = [n \in Numbers |-> 0] /\ replyOf = promptOf /\ requestOf = promptOf
  /\ verdictOf = promptOf /\ suite = None
  /\ verdicts = [b \in {"local", "model"} |-> [n \in Numbers |-> <<>>]]
-----------------------------------------------------------------------------
(* Steps before the proposals are known.                                   *)

Goto(here, there) == pc = here /\ pc' = there

Take(proposals) ==
  /\ answer' = proposals /\ index' = 1 /\ attempt' = 1
  /\ diagnostics' = <<>> /\ accepted' = <<>>

\* TestGenerationError, an exception that nothing catches, or a kill; the
\* command and its temporary directory do not outlive the run.
Stop ==
  /\ pc' = "idle" /\ Take(<<>>) /\ NoCommand
  /\ UNCHANGED <<frame, audit, store>>

Begin ==
  /\ pc = "idle" /\ run < MaxRuns /\ run' = run + 1 /\ iteration' = 0
  /\ backend' \in {"local", "model"} /\ gold' \in BOOLEAN
  /\ pc' = IF backend' = "model" THEN "prompt" ELSE "propose"
  /\ UNCHANGED <<adapter, memory, audit, store>>

\* _case_proposals_for_prompt: no proposal twice, and none that is unsafe.
Propose ==
  /\ Goto("propose", "judge")
  /\ \E proposals \in BoundedSeq({p \in Derived : p.kind # "unsafe"}, MaxDerived) :
       /\ \A i, j \in DOMAIN proposals : proposals[i].input = proposals[j].input => i = j
       /\ Take(proposals)
  /\ UNCHANGED <<adapter, frame, audit, store>>

WritePrompt ==
  /\ Goto("prompt", "command") /\ StartCommand
  /\ promptOf' = [promptOf EXCEPT ![iteration] = run]
  /\ UNCHANGED <<frame, memory, replyOf, requestOf, store>>

AskModel ==
  /\ pc = "command" /\ (Exchange \/ FinishCommand)
  /\ UNCHANGED <<frame, pc, memory, audit, store>>

\* Any failure of the command is a TestGenerationError, and so is an answer of
\* too many characters.
CommandFails == pc = "command" /\ command \in {"failed", "done"} /\ Stop

\* Mutant: the reply is judged before it is recorded.
JudgeFirst ==
  /\ pc = "command" /\ command = "done" /\ pc' = "judge" /\ Take(merged)
  /\ UNCHANGED <<adapter, frame, audit, store>>

WriteReply ==
  /\ pc = "command" /\ command = "done" /\ pc' = "request"
  /\ replyOf' = [replyOf EXCEPT ![iteration] = run]
  /\ UNCHANGED <<adapter, frame, memory, promptOf, requestOf, store>>

WriteRequest ==
  /\ Goto("request", "parse")
  /\ requestOf' = [requestOf EXCEPT ![iteration] = run]
  /\ UNCHANGED <<adapter, frame, memory, promptOf, replyOf, store>>

\* A reply without cases is not structured, nor a file of tests; whether
\* that is said in the diagnostics depends on the configuration.
NoCases ==
  /\ pc' = "idle" /\ Take(<<>>) /\ NoCommand
  /\ verdicts' = [verdicts EXCEPT !.model[iteration] = <<[accepted |-> FALSE, case |-> None]>>]
  /\ verdictOf' = [verdictOf EXCEPT ![iteration] = run]
  /\ UNCHANGED <<frame, audit, suite>>

ParseReply ==
  /\ pc = "parse"
  /\ \/ merged = <<>> /\ (Stop \/ NoCases)
     \/ /\ merged # <<>> /\ pc' = "judge" /\ Take(merged)
        /\ UNCHANGED <<adapter, frame, audit, store>>
-----------------------------------------------------------------------------
(* Judging a proposal.                                                     *)

CaseOf(p, revision, output) ==
  [input |-> revision.input, category |-> p.category, output |-> output]

\* Mutant: cases of different categories are different.
SameCategoryCase(c, d) == c.input = d.input /\ c.category = d.category

\* _case_signature
SameCase(c, d) == c.input = d.input /\ c.output = d.output

Attempts == IF backend = "local" THEN Revised[answer[index]] ELSE <<answer[index]>>
Trying   == Attempts[attempt]

NextProposal == index' = index + 1 /\ attempt' = 1 /\ UNCHANGED <<answer, pc>>

Diagnose(ok, c) == diagnostics' = Append(diagnostics, [accepted |-> ok, case |-> c])

\* The safety checks refuse it, or the gold program does not end.
Refused == Trying.kind = "unsafe" \/ (Trying.kind = "hangs" /\ gold)

\* Mutant: the attempt that failed is tried again.
TryAgain ==
  /\ Refused
  /\ \/ /\ attempt < Len(Attempts)
        /\ UNCHANGED <<attempt, pc, answer, index, diagnostics, accepted>>
     \/ /\ attempt = Len(Attempts)
        /\ NextProposal /\ Diagnose(FALSE, None) /\ UNCHANGED accepted

\* The next revision, if any.
Reject ==
  /\ Refused
  /\ \/ /\ attempt < Len(Attempts) /\ attempt' = attempt + 1
        /\ UNCHANGED <<pc, answer, index, diagnostics, accepted>>
     \/ /\ attempt = Len(Attempts)
        /\ NextProposal /\ Diagnose(FALSE, None) /\ UNCHANGED accepted

\* Without a gold program the model's expectation is kept, any output at all.
Observation == IF gold THEN Outputs[Trying.input] ELSE {0}

Duplicate(c) == \E d \in ToSet(accepted) : SameCase(c, d)

Observe ==
  /\ ~Refused /\ Trying.kind # "raises"
  /\ \E output \in Observation :
       LET c == CaseOf(answer[index], Trying, output)
       IN  /\ NextProposal /\ Diagnose(~Duplicate(c), c)
           /\ accepted' = IF Duplicate(c) THEN accepted ELSE Append(accepted, c)

\* A ValidationError of an expectation, output that is no UTF-8, or a fixture
\* that cannot be written: no TestGenerationError.
Raise ==
  pc = "judge" /\ index <= Len(answer) /\ (backend = "model" \/ gold)
    /\ Trying.kind = "raises" /\ Stop

Judge ==
  /\ pc = "judge" /\ index <= Len(answer) /\ (backend = "model" \/ gold)
  /\ (Reject \/ Observe)
  /\ UNCHANGED <<adapter, frame, audit, store>>

\* Without a gold program the local backend only says so.
JudgeNone ==
  /\ Goto("judge", "diagnostics") /\ backend = "local" /\ ~gold
  /\ diagnostics' = <<[accepted |-> FALSE, case |-> None]>>
  /\ UNCHANGED <<adapter, frame, answer, index, attempt, accepted, audit, store>>

JudgeEnd ==
  /\ Goto("judge", "diagnostics") /\ index > Len(answer) /\ (backend = "model" \/ gold)
  /\ UNCHANGED <<adapter, frame, memory, audit, store>>
-----------------------------------------------------------------------------
(* Files.                                                                  *)

\* Mutant: the diagnostics of an earlier run are kept.
WriteVerdictsOnce ==
  /\ Goto("diagnostics", "suite")
  /\ verdicts' = [verdicts EXCEPT ![backend][iteration] = IF @ = <<>> THEN diagnostics ELSE @]
  /\ verdictOf' = [verdictOf EXCEPT ![iteration] = IF backend = "model" THEN run ELSE @]
  /\ UNCHANGED <<adapter, frame, memory, audit, suite>>

WriteDiagnostics ==
  /\ Goto("diagnostics", "suite")
  /\ verdicts' = [verdicts EXCEPT ![backend][iteration] = diagnostics]
  /\ verdictOf' = [verdictOf EXCEPT ![iteration] = IF backend = "model" THEN run ELSE @]
  /\ UNCHANGED <<adapter, frame, memory, audit, suite>>

\* The model backend raises when it has no case, the local one returns none.
WriteSuite ==
  /\ pc = "suite"
  /\ \/ accepted = <<>> /\ backend = "model" /\ Stop
     \/ /\ accepted = <<>> /\ backend = "local" /\ pc' = "next"
        /\ UNCHANGED <<adapter, frame, memory, audit, store>>
     \/ /\ accepted # <<>> /\ pc' = "next"
        /\ suite' = [run |-> run, iteration |-> iteration, cases |-> accepted, observed |-> gold]
        /\ UNCHANGED <<adapter, frame, memory, audit, verdictOf, verdicts>>

\* The gates and coverage, then the next iteration, or the end.
Continue ==
  /\ pc = "next"
  /\ \/ Stop
     \/ /\ iteration + 1 < Iterations /\ iteration' = iteration + 1
        /\ pc' = IF backend = "model" THEN "prompt" ELSE "propose"
        /\ UNCHANGED <<adapter, backend, gold, run, memory, audit, store>>

Generate ==
  \/ Propose \/ WritePrompt \/ AskModel \/ CommandFails \/ WriteReply \/ WriteRequest
  \/ ParseReply \/ Judge \/ Raise \/ JudgeNone \/ JudgeEnd \/ WriteDiagnostics \/ WriteSuite \/ Continue

Kill == pc # "idle" /\ Stop

Next == Begin \/ Generate \/ Kill

\* Each step of a run ends: requests and observations have time limits.
Spec == Init /\ [][Next]_vars /\ WF_vars(Generate)
-----------------------------------------------------------------------------
TypeOK ==
  /\ iteration \in Numbers /\ run \in 0 .. MaxRuns
  /\ index \in 1 .. Len(answer) + 1
  /\ \A f \in {promptOf, replyOf, requestOf, verdictOf} : f \in [Numbers -> 0 .. MaxRuns]

\* What was judged was recorded: the diagnostics of an iteration are never of
\* a later run than the request beside them, nor that than the reply, nor that
\* than the prompt, wherever a run stopped.
AuditInOrder ==
  \A n \in Numbers : /\ verdictOf[n] <= requestOf[n] /\ requestOf[n] <= replyOf[n]
                     /\ replyOf[n] <= promptOf[n]

\* No two cases of a suite ask the gold program the same and expect the same,
\* though rounds of a model and revisions of proposals may meet.
CasesDiffer ==
  suite # None =>
    \A i, j \in DOMAIN suite.cases : i # j => ~(/\ suite.cases[i].input = suite.cases[j].input
                                                /\ suite.cases[i].output = suite.cases[j].output)

\* What a case of a suite expects is what the gold program did with the input
\* of this case.
ExpectationsAreObserved ==
  suite # None /\ suite.observed =>
    \A i \in DOMAIN suite.cases : suite.cases[i].output \in Outputs[suite.cases[i].input]

\* The n-th accepted entry is about the n-th case, and there are no more.
NamesAccepted(entries, cases) ==
  LET named == {i \in DOMAIN entries : entries[i].accepted}
  IN  /\ Len(cases) = Cardinality(named)
      /\ \A i \in named : cases[Rank(named, i)] = entries[i].case

\* Once a suite is written, the diagnostics of its iteration name its cases
\* and no others as accepted, in their order.
AcceptedAreWritten ==
  pc = "next" /\ accepted # <<>> =>
    /\ suite.run = run /\ suite.iteration = iteration
    /\ NamesAccepted(verdicts[backend][iteration], suite.cases)

\* Every run ends, whatever the model answers and the gold program does.
RunsEnd == pc # "idle" ~> pc = "idle"

\* A written suite has no twins and expects what was observed
\* (model_backend.py:222-284, test_writer.py:323-390).
SuiteIsSound == CasesDiffer /\ ExpectationsAreObserved

\* The diagnostics on disk are those of the suite beside them
\* (model_backend.py:262-284, 648-664).
DiagnosticsAreOfTheSuite == TypeOK /\ AcceptedAreWritten
=============================================================================

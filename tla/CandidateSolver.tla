-------------------------- MODULE CandidateSolver --------------------------
(***************************************************************************)
(* solve_with_openai: ask a model for a source tree, build it, feed what   *)
(* went wrong into the next prompt, and leave a report.  The command may   *)
(* be called again in the same output directory, which it never clears,    *)
(* and it may end at any step: killed, or by an exception that             *)
(* `except PBGenError` does not catch (a build that exceeds its time, an   *)
(* executable the kernel refuses, a connection reset while reading).       *)
(* A proposal, a reply, an error message is named by the call of the       *)
(* command and the round it belongs to: its tag.                           *)
(***************************************************************************)
EXTENDS Integers, Sequences, FiniteSets

CONSTANTS
  MaxRounds,  \* largest config.max_rounds
  MaxCalls,   \* bound on the calls of the command in one output directory
  Nothing,       \* no file, no build script, no feedback, no reason
  SmokeFailed,\* reason: built, but a public smoke check failed
  NoCandidate \* reason: no buildable candidate, and nothing better known

ASSUME SolverAssumption ==
  /\ MaxRounds \in Nat
  /\ MaxCalls \in Nat
  /\ {Nothing, SmokeFailed, NoCandidate} \cap (1 .. MaxCalls) \X (1 .. MaxRounds) = {}

Tags == (1 .. MaxCalls) \X (1 .. MaxRounds)

\* What a response file holds and what a response hash is the hash of.
Contents == [kind : {"reply", "error"}, of : Tags]
Reply(t) == [kind |-> "reply", of |-> t]
Error(t) == [kind |-> "error", of |-> t]

VARIABLES
  \* the output directory
  candidate,  \* candidate/: whose proposal, all of it or not, out/program or not
  prompts,    \* prompts/round_i_prompt.txt: the round its feedback is about
  responses,  \* responses/round_i_response.json
  report,     \* openai_solver_run.json
  \* the process
  stage, call, maxRounds, round,
  rounds,     \* the finished OpenAISolverRoundReports
  apiCalls, feedback, finalBuildScript, status, reason,
  apiCallSucceeded, responseHash, buildOk

files  == <<candidate, prompts, responses, report>>
locals == <<maxRounds, rounds, apiCalls, feedback, finalBuildScript,
            status, reason>>
current == <<apiCallSucceeded, responseHash, buildOk>>
solverVars   == <<files, locals, current, stage, call, round>>

Tag == <<call, round>>

Stages == {"idle", "loop", "request", "parse", "reset", "write", "build",
           "smoke", "report"}

RoundReports ==
  [accepted : BOOLEAN, apiCallSucceeded : BOOLEAN, hash : Contents,
   feedback : Tags \cup {Nothing}]

Reports ==
  [call : 1 .. MaxCalls, status : {"failed", "completed", "warnings"},
   reason : Tags \cup {Nothing, SmokeFailed, NoCandidate},
   buildScript : Tags \cup {Nothing}, apiCalls : 0 .. MaxRounds,
   rounds : Seq(RoundReports)]

\* The files, the report and the locals hold what their names say.
SolverTypeOK ==
  /\ candidate \in [of : Tags \cup {Nothing}, whole : BOOLEAN, program : BOOLEAN]
  /\ prompts \in [1 .. MaxRounds -> Tags \cup {Nothing}]
  /\ responses \in [1 .. MaxRounds -> Contents \cup {Nothing}]
  /\ report \in Reports \cup {Nothing}
  /\ stage \in Stages
  /\ call \in 0 .. MaxCalls
  /\ maxRounds \in 0 .. MaxRounds
  /\ round \in 0 .. maxRounds
  /\ rounds \in Seq(RoundReports)
  /\ apiCalls \in 0 .. round
  /\ feedback \in Tags \cup {Nothing}
  /\ finalBuildScript \in Tags \cup {Nothing}
  /\ status \in {"failed", "completed", "warnings"}
  /\ reason \in Tags \cup {Nothing, SmokeFailed}
  /\ apiCallSucceeded \in BOOLEAN
  /\ responseHash \in Contents \cup {Nothing}
  /\ buildOk \in BOOLEAN

EmptyCandidate == [of |-> Nothing, whole |-> FALSE, program |-> FALSE]

SolverInit ==
  /\ candidate = EmptyCandidate
  /\ prompts = [i \in 1 .. MaxRounds |-> Nothing]
  /\ responses = [i \in 1 .. MaxRounds |-> Nothing]
  /\ report = Nothing
  /\ stage = "idle"
  /\ call = 0
  /\ maxRounds = 0
  /\ round = 0
  /\ rounds = << >>
  /\ apiCalls = 0
  /\ feedback = Nothing
  /\ finalBuildScript = Nothing
  /\ status = "failed"
  /\ reason = Nothing
  /\ apiCallSucceeded = FALSE
  /\ responseHash = Nothing
  /\ buildOk = FALSE

----------------------------------------------------------------------------
\* The command is called; the directories of an earlier call are kept.
CallSolver ==
  /\ stage = "idle"
  /\ call < MaxCalls
  /\ call' = call + 1
  /\ maxRounds' \in 0 .. MaxRounds
  /\ round' = 0
  /\ rounds' = << >>
  /\ apiCalls' = 0
  /\ feedback' = Nothing
  /\ finalBuildScript' = Nothing
  /\ status' = "failed"
  /\ reason' = Nothing
  /\ apiCallSucceeded' = FALSE
  /\ responseHash' = Nothing
  /\ buildOk' = FALSE
  /\ stage' = "loop"
  /\ UNCHANGED files

\* The prompt of a round carries the feedback of the one before.
BeginRound ==
  /\ stage = "loop"
  /\ round < maxRounds
  /\ round' = round + 1
  /\ prompts' = [prompts EXCEPT ![round + 1] = feedback]
  /\ apiCallSucceeded' = FALSE
  /\ responseHash' = Nothing
  /\ buildOk' = FALSE
  /\ stage' = "request"
  /\ UNCHANGED <<candidate, responses, report, locals, call>>

FinishRound(accepted, hash, about) ==
  rounds' = Append(rounds, [accepted |-> accepted,
                            apiCallSucceeded |-> apiCallSucceeded,
                            hash |-> hash, feedback |-> about])

\* Mutant: the hash of the raw reply is kept for the overwritten file.
RejectKeepsHash ==
  /\ responses' = [responses EXCEPT ![round] = Error(Tag)]
  /\ feedback' = Tag
  /\ reason' = Tag
  /\ FinishRound(FALSE, IF responseHash = Nothing THEN Error(Tag) ELSE responseHash, Tag)
  /\ stage' = "loop"
  /\ UNCHANGED <<candidate, prompts, report, maxRounds, finalBuildScript,
                 status, buildOk, responseHash, call, round>>

\* Mutant: a rejected proposal leaves the feedback of an earlier build.
RejectKeepsFeedback ==
  /\ responses' = [responses EXCEPT ![round] = Error(Tag)]
  /\ responseHash' = Error(Tag)
  /\ reason' = Tag
  /\ FinishRound(FALSE, Error(Tag), Tag)
  /\ stage' = "loop"
  /\ UNCHANGED <<candidate, prompts, report, maxRounds, finalBuildScript,
                 status, buildOk, feedback, call, round>>

\* except PBGenError: the response file is overwritten by the message.
Reject ==
  /\ responses' = [responses EXCEPT ![round] = Error(Tag)]
  /\ responseHash' = Error(Tag)
  /\ feedback' = Tag
  /\ reason' = Tag
  /\ FinishRound(FALSE, Error(Tag), Tag)
  /\ stage' = "loop"
  /\ UNCHANGED <<candidate, prompts, report, maxRounds, finalBuildScript,
                 status, buildOk, call, round>>

\* create_response raises PBGenError: no answer, or an answer without text.
RequestFails ==
  /\ stage = "request"
  /\ UNCHANGED <<apiCalls, apiCallSucceeded>>
  /\ Reject

\* The reply is counted and written before it is read.
RequestAnswered ==
  /\ stage = "request"
  /\ apiCalls' = apiCalls + 1
  /\ apiCallSucceeded' = TRUE
  /\ responses' = [responses EXCEPT ![round] = Reply(Tag)]
  /\ responseHash' = Reply(Tag)
  /\ stage' = "parse"
  /\ UNCHANGED <<candidate, prompts, report, maxRounds, rounds, feedback,
                 finalBuildScript, status, reason, buildOk, call, round>>

\* parse_solver_proposal refuses: no JSON object, a missing field, a path
\* that leaves the directory, too many files or bytes.
ProposalRefused ==
  /\ stage = "parse"
  /\ UNCHANGED <<apiCalls, apiCallSucceeded>>
  /\ Reject

\* parse_solver_proposal accepts the reply; nothing on disk has changed yet.
ProposalParsed ==
  /\ stage = "parse"
  /\ stage' = "reset"
  /\ UNCHANGED <<files, locals, current, call, round>>

\* Mutant: the old tree is removed before the reply has been read.
ResetBeforeParse ==
  /\ stage \in {"parse", "reset"}
  /\ candidate' = EmptyCandidate
  /\ stage' = IF stage = "parse" THEN "parse" ELSE "write"
  /\ UNCHANGED <<prompts, responses, report, locals, current, call, round>>

\* _reset_candidate_dir.
ResetCandidate ==
  /\ stage = "reset"
  /\ candidate' = EmptyCandidate
  /\ stage' = "write"
  /\ UNCHANGED <<prompts, responses, report, locals, current, call, round>>

\* write_solver_proposal; only then does the report name the new script.
WriteProposal ==
  /\ stage = "write"
  /\ candidate' = [of |-> Tag, whole |-> TRUE, program |-> FALSE]
  /\ finalBuildScript' = Tag
  /\ stage' = "build"
  /\ UNCHANGED <<prompts, responses, report, maxRounds, rounds, apiCalls,
                 feedback, status, reason, current, call, round>>

Built(ok, program) == ok /\ program

\* run_public_smoke runs the build script, whose exit status and program
\* are independent of each other.
BuildCandidate ==
  /\ stage = "build"
  /\ \E ok, program \in BOOLEAN :
       /\ candidate' = [candidate EXCEPT !.program = program]
       /\ buildOk' = Built(ok, program)
  /\ stage' = "smoke"
  /\ UNCHANGED <<prompts, responses, report, locals, apiCallSucceeded,
                 responseHash, call, round>>

\* A candidate that builds ends the loop, with or without a warning.
AcceptCandidate ==
  /\ stage = "smoke"
  /\ buildOk
  /\ \E smokeOk \in BOOLEAN :
       /\ status' = IF smokeOk THEN "completed" ELSE "warnings"
       /\ reason' = IF smokeOk THEN Nothing ELSE SmokeFailed
       /\ FinishRound(TRUE, responseHash, IF smokeOk THEN Nothing ELSE Tag)
  /\ stage' = "report"
  /\ UNCHANGED <<files, maxRounds, apiCalls, feedback, finalBuildScript,
                 current, call, round>>

\* One that does not is described in the feedback for the next round.
FeedBack ==
  /\ stage = "smoke"
  /\ ~ buildOk
  /\ feedback' = Tag
  /\ FinishRound(FALSE, responseHash, Tag)
  /\ stage' = "loop"
  /\ UNCHANGED <<files, maxRounds, apiCalls, finalBuildScript, status, reason,
                 current, call, round>>

\* The report is the last thing a call writes.
WriteReport ==
  /\ stage = "report" \/ (stage = "loop" /\ round = maxRounds)
  /\ report' =
       [call |-> call, status |-> status,
        reason |-> IF finalBuildScript = Nothing /\ reason = Nothing
                     THEN NoCandidate ELSE reason,
        buildScript |-> finalBuildScript, apiCalls |-> apiCalls,
        rounds |-> rounds]
  /\ stage' = "idle"
  /\ UNCHANGED <<candidate, prompts, responses, locals, current, call, round>>

----------------------------------------------------------------------------
\* The phases whose code can raise something other than PBGenError: reading
\* the reply, json.loads of a fragment, file operations, subprocess.run.
Raising == {"request", "parse", "reset", "write", "build", "smoke", "report"}

\* What a step leaves in the candidate directory when it is cut short.
Torn ==
  \/ candidate' = candidate
  \/ stage = "reset" /\ candidate' = [candidate EXCEPT !.whole = FALSE]
  \/ stage = "write" /\ candidate' = [EmptyCandidate EXCEPT !.of = Tag]
  \/ stage = "build" /\ candidate' = [candidate EXCEPT !.program = TRUE]

\* An exception no handler catches ends the call without a report.
Uncaught ==
  /\ stage \in Raising
  /\ Torn
  /\ stage' = "idle"
  /\ UNCHANGED <<prompts, responses, report, locals, current, call, round>>

\* The process is killed.
KillSolver ==
  /\ stage # "idle"
  /\ Torn
  /\ stage' = "idle"
  /\ UNCHANGED <<prompts, responses, report, locals, current, call, round>>

SolverNext ==
  \/ CallSolver
  \/ BeginRound
  \/ RequestFails
  \/ RequestAnswered
  \/ ProposalRefused
  \/ ProposalParsed
  \/ ResetCandidate
  \/ WriteProposal
  \/ BuildCandidate
  \/ AcceptCandidate
  \/ FeedBack
  \/ WriteReport
  \/ Uncaught
  \/ KillSolver

SolverSpec == SolverInit /\ [][SolverNext]_solverVars
----------------------------------------------------------------------------
\* The last call has returned and not been killed or cut short.
Returned == stage = "idle" /\ report # Nothing /\ report.call = call

\* A report that names a build script names the one of the complete proposal
\* in the candidate directory, whatever later rounds did or failed to do
\* (openai_solver.py:255-257 and 317-318).
ReportNamesCandidate ==
  Returned /\ report.buildScript # Nothing =>
    candidate.of = report.buildScript /\ candidate.whole

\* A completed report stands for a program on disk, built from the proposal of
\* the last round, the only accepted one (openai_solver.py:259-281).
CompletedIsBuilt ==
  Returned /\ report.status # "failed" =>
    LET n == Len(report.rounds)
    IN  /\ candidate = [of |-> <<call, n>>, whole |-> TRUE, program |-> TRUE]
        /\ {i \in 1 .. n : report.rounds[i].accepted} = {n}

\* The prompt of each round but the first is about the failure of the round
\* just before it, and that is what the report says of that round; the first
\* knows nothing of earlier calls (openai_solver.py:226, 282, 289, 305).
PromptsRepair ==
  \A i \in 1 .. round :
    IF i = 1 THEN prompts[1] = Nothing
    ELSE /\ prompts[i] = <<call, i - 1>>
         /\ rounds[i - 1].feedback = prompts[i]

\* Each finished round has the hash of what its response file holds now, also
\* when an error message replaced the reply (openai_solver.py:252-253, 284-288).
RoundsAudited ==
  \A i \in 1 .. Len(rounds) : responses[i] = rounds[i].hash

\* The calls a report counts are its rounds with a successful call, and every
\* round that left a reply is one (openai_solver.py:248-249).
CallsAccounted ==
  Returned =>
    LET R == report.rounds
    IN  /\ report.apiCalls = Cardinality({i \in DOMAIN R : R[i].apiCallSucceeded})
        /\ \A i \in DOMAIN R : R[i].hash.kind = "reply" => R[i].apiCallSucceeded

\* A returned report describes the candidate on disk: its build script and,
\* when completed, its program (openai_solver.py:255-281, 317-318).
ReportDescribesCandidate == ReportNamesCandidate /\ CompletedIsBuilt

\* Rounds, hashes, response files and the number of calls add up
\* (openai_solver.py:248-253, 284-305).
RoundsAreAccounted == SolverTypeOK /\ RoundsAudited /\ CallsAccounted
=============================================================================

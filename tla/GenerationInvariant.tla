------------------------- MODULE GenerationInvariant -------------------------
(***************************************************************************)
(* The inductive invariant behind the properties of GenerationController.  *)
(***************************************************************************)
EXTENDS AcceptanceRefinement

\* A run that is going on has not been counted as cut short.
RunsInv ==
  /\ aborts <= run
  /\ pc # "idle" => aborts < run

\* The writer's two cursors, and what has been written so far.
WriterInv ==
  /\ pc = "render" => open \in written /\ link[open] = NoFile
  /\ pc = "record" =>
       /\ open \in written /\ link[open] = NoFile
       /\ page \in drawn
       /\ rendered[page] = suite[open]
       /\ \A s \in Slots : link[s] # page
  /\ pc = "rerender" => open \in written /\ link[open] # NoFile

\* A recorded rendering belongs to one suite, and tests all of it.
LinkInv ==
  \A s \in Slots :
    /\ s \notin written => suite[s] = {} /\ link[s] = NoFile
    /\ link[s] # NoFile =>
         /\ link[s] \in drawn
         /\ suite[s] \subseteq rendered[link[s]]
         /\ \A t \in Slots : link[t] = link[s] => t = s

Running == pc \in {"gold", "dummy"}
Judged  == pc \in {"filter", "rerender", "rerun", "coverage", "decide"}

\* Every name with a HIGH case in a recorded suite is flagged, and no name
\* is flagged without a HIGH case.
LintInv ==
  /\ Running \/ Judged =>
       \A x \in Instances :
         x[2] \in HighLint /\ link[x[1]] # NoFile => IdOf[x[2]] \in flagged
  /\ \A id \in flagged : \E c \in HighLint : IdOf[c] = id

\* While the gold executable runs, the outcomes of a name count its
\* instances once per run; a name fails only by an unstable instance.
GoldInv ==
  /\ pc = "gold" => goldRuns < DeterminismRuns
  /\ pc = "dummy" => goldRuns = DeterminismRuns
  /\ Running =>
       \A id \in TestIds :
         /\ goldSeen[id] = goldRuns * Cardinality(WithId(UnderTest, id))
         /\ id \in goldFailed =>
              \E x \in UnderTest : IdOf[x[2]] = id /\ x[2] \notin Stable

\* From the judgement on, a case that is not rejected is beyond suspicion,
\* and a rejected one sits in a file that is still to be filtered.
JudgedInv ==
  /\ Judged =>
       \A x \in Instances :
         /\ IdOf[x[2]] \notin rejected =>
              /\ Alone(x, Instances)
              /\ x[2] \notin FoolsSome
              /\ IdOf[x[2]] \notin goldFailed
              /\ IdOf[x[2]] \notin flagged
              /\ goldSeen[IdOf[x[2]]] = DeterminismRuns
         /\ IdOf[x[2]] \in rejected => x[1] \in todo
  /\ AfterGates => todo = {}

IInv ==
  /\ TypeOK
  /\ RunsInv
  /\ WriterInv
  /\ LinkInv
  /\ LintInv
  /\ GoldInv
  /\ JudgedInv
----------------------------------------------------------------------------
(* What holds beside IInv of the run that is going on.                     *)

\* As long as no run was cut short, a suite that nobody is working on has a
\* record, and its rendering tests just its cases.
ExactInv ==
  aborts = 0 =>
    \A s \in written :
      \/ pc \in {"render", "record", "rerender"} /\ s = open
      \/ link[s] # NoFile /\ rendered[link[s]] = suite[s]

\* A run starts with nothing known, and has one entry of the history for
\* each iteration it has measured.
CountInv ==
  /\ pc = "idle" => iteration = 0 /\ gapsFrom = 0 /\ prevCoverage = NoCoverage
  /\ pc # "idle" =>
       /\ outcome = "none"
       /\ run >= 1 /\ backend \in Backends
       /\ iteration < budget
       /\ Len(history) = IF pc = "decide" THEN iteration + 1 ELSE iteration

\* The gaps at hand are those of the last measurement.
GapsInv ==
  pc # "idle" =>
    /\ \A k \in 1 .. Len(history) : history[k].measured => k <= gapsFrom
    /\ gapsFrom > 0 => gapsFrom <= Len(history) /\ history[gapsFrom].measured

\* The diagnostics a prompt shows: written by this run, or, for the local
\* backend, by a model run that left a file for the iteration.
FeedbackOf(i) ==
  \/ feedback = run
  \/ /\ backend = "agentic"
     /\ feedback # 0
     /\ feedback = diagnostics["model"][i]

\* What was read back after the gates stays true until the next prompt.
ReadBackInv ==
  /\ pc \notin {"idle", "generate", "diagnose"} =>
       diagnostics[backend][iteration] = run
  /\ AfterGates => existing = AcceptedTestIds /\ FeedbackOf(iteration)
  /\ pc = "generate" /\ iteration > 0 =>
       existing = AcceptedTestIds /\ FeedbackOf(iteration - 1)

\* The coverage kept for comparison is the baseline of the stopping rule, and
\* the rule has not applied to an earlier iteration.
Known(c) == IF c = NoCoverage THEN 0 ELSE c

\* Of some iterations that passed there is a latest one.
HasLatest(S) == S # {} => \E j \in S : \A i \in S : i <= j

StopInv ==
  pc # "idle" =>
    /\ \A k \in 1 .. Len(history) + 1 : HasLatest(PassedBefore(k))
    /\ Baseline(iteration + 1) = Known(prevCoverage)
    /\ \A k \in 1 .. iteration : ~ StopsAt(k)
    /\ pc = "decide" =>
         history[iteration + 1].pass = passed /\ history[iteration + 1].cov = coverage

CInv ==
  /\ ExactInv
  /\ CountInv
  /\ GapsInv
  /\ ReadBackInv
  /\ StopInv
  /\ ReturnsAtFirstStop
=============================================================================

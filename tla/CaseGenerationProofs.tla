------------------------ MODULE CaseGenerationProofs ------------------------
(***************************************************************************)
(* The audit files of an iteration are in order, the cases of a suite      *)
(* differ and were observed, its diagnostics name them, and every category *)
(* was asked for, whatever the model proposes, for any number of runs,     *)
(* iterations, rounds, categories and proposals.                           *)
(***************************************************************************)
EXTENDS CaseGeneration, FiniteSetTheorems, SequenceTheorems, TLAPS

\* Which of its files the run in progress has written in this iteration.
Judging == pc \in {"judge", "diagnostics"} /\ backend = "model"

PromptWritten  == pc \in {"command", "request", "parse"} \/ Judging
ReplyWritten   == pc \in {"request", "parse"} \/ Judging
RequestWritten == pc = "parse" \/ Judging

FilesType ==
  /\ run \in Nat /\ iteration \in Numbers /\ backend \in {"local", "model"}
  /\ promptOf \in [Numbers -> Nat] /\ replyOf \in [Numbers -> Nat]
  /\ requestOf \in [Numbers -> Nat] /\ verdictOf \in [Numbers -> Nat]

\* No file is of a run to come.
NoLaterRun == \A n \in Numbers : promptOf[n] <= run

RunHasWritten ==
  /\ PromptWritten  => promptOf[iteration] = run
  /\ ReplyWritten   => replyOf[iteration] = run
  /\ RequestWritten => requestOf[iteration] = run

BackendFits ==
  /\ pc \in {"prompt", "command", "request", "parse"} => backend = "model"
  /\ pc = "propose" => backend = "local"

AuditInv ==
  /\ FilesType
  /\ NoLaterRun
  /\ RunHasWritten
  /\ BackendFits
  /\ AuditInOrder
-----------------------------------------------------------------------------
\* The iterations are numbered, and the first is 0.
LEMMA NumbersFromZero == Numbers \subseteq Nat /\ 0 \in Numbers
  BY GenerationAssumption DEF Numbers

\* At the start nothing is written.
LEMMA AuditStarts == Init => AuditInv
<1> SUFFICES ASSUME Init PROVE AuditInv
  OBVIOUS
<1>1. FilesType
  BY NumbersFromZero DEF Init, FilesType
<1>2. NoLaterRun /\ AuditInOrder
  BY NumbersFromZero DEF Init, NoLaterRun, AuditInOrder
<1>3. RunHasWritten /\ BackendFits
  BY DEF Init, RunHasWritten, BackendFits, PromptWritten, ReplyWritten,
         RequestWritten, Judging
<1> QED
  BY <1>1, <1>2, <1>3 DEF AuditInv

\* A step that writes no audit file, and brings the run no further than it
\* was, keeps the order.
LEMMA AuditKept ==
  ASSUME AuditInv, UNCHANGED <<audit, verdictOf, backend, run, iteration>>,
         PromptWritten' => PromptWritten, ReplyWritten' => ReplyWritten,
         RequestWritten' => RequestWritten, BackendFits'
  PROVE  AuditInv'
<1>1. FilesType' /\ NoLaterRun' /\ AuditInOrder'
  BY DEF AuditInv, FilesType, NoLaterRun, AuditInOrder, Numbers, audit
<1>2. RunHasWritten'
  BY DEF AuditInv, RunHasWritten, audit
<1> QED
  BY <1>1, <1>2 DEF AuditInv

\* A run that stops leaves its files in order.
LEMMA AuditStopped == ASSUME AuditInv, Stop PROVE AuditInv'
<1>1. UNCHANGED <<audit, verdictOf, backend, run, iteration>> /\ pc' = "idle"
  BY DEF Stop, frame, store
<1>2. ~PromptWritten' /\ ~ReplyWritten' /\ ~RequestWritten' /\ BackendFits'
  BY <1>1 DEF PromptWritten, ReplyWritten, RequestWritten, Judging, BackendFits
<1> QED
  BY <1>1, <1>2, AuditKept

\* Each step of a run keeps the files in order.
LEMMA AuditSteps == ASSUME AuditInv, [Next]_vars PROVE AuditInv'
<1> USE DEF AuditInv
<1>1. CASE Begin
  <2>1. /\ run' = run + 1 /\ iteration' = 0 /\ UNCHANGED <<audit, verdictOf>>
        /\ pc' = IF backend' = "model" THEN "prompt" ELSE "propose"
        /\ backend' \in {"local", "model"}
    BY <1>1 DEF Begin, store
  <2>2. FilesType'
    BY <2>1, NumbersFromZero DEF FilesType, audit, Numbers
  <2>3. NoLaterRun' /\ AuditInOrder'
    BY <2>1 DEF FilesType, NoLaterRun, AuditInOrder, audit, Numbers
  <2>4. RunHasWritten' /\ BackendFits'
    BY <2>1 DEF RunHasWritten, BackendFits, PromptWritten, ReplyWritten,
                RequestWritten, Judging
  <2> QED
    BY <2>2, <2>3, <2>4
<1>2. CASE Kill \/ CommandFails \/ Raise
  BY <1>2, AuditStopped DEF Kill, CommandFails, Raise
<1>3. CASE Propose
  <2>1. UNCHANGED <<audit, verdictOf, backend, run, iteration>> /\ pc = "propose" /\ pc' = "judge"
    BY <1>3 DEF Propose, Goto, frame, store
  <2>2. ~PromptWritten' /\ ~ReplyWritten' /\ ~RequestWritten' /\ BackendFits'
    BY <2>1 DEF BackendFits, PromptWritten, ReplyWritten, RequestWritten, Judging
  <2> QED
    BY <2>1, <2>2, AuditKept
<1>4. CASE WritePrompt
  <2>1. /\ promptOf' = [promptOf EXCEPT ![iteration] = run] /\ pc = "prompt" /\ pc' = "command"
        /\ UNCHANGED <<replyOf, requestOf, verdictOf, backend, run, iteration>>
    BY <1>4 DEF WritePrompt, Goto, frame, store
  <2>2. FilesType' /\ NoLaterRun'
    BY <2>1 DEF FilesType, NoLaterRun, Numbers
  <2>3. AuditInOrder'
    BY <2>1 DEF FilesType, NoLaterRun, AuditInOrder, Numbers
  <2>4. RunHasWritten' /\ BackendFits'
    BY <2>1 DEF FilesType, RunHasWritten, BackendFits, PromptWritten, ReplyWritten,
                RequestWritten, Judging
  <2> QED
    BY <2>2, <2>3, <2>4
<1>5. CASE AskModel
  <2>1. UNCHANGED <<audit, verdictOf, backend, run, iteration, pc>>
    BY <1>5 DEF AskModel, frame, store
  <2>2. BackendFits' /\ Judging' = Judging
    BY <2>1 DEF BackendFits, Judging
  <2> QED
    BY <2>1, <2>2, AuditKept DEF PromptWritten, ReplyWritten, RequestWritten
<1>6. CASE WriteReply
  <2>1. /\ replyOf' = [replyOf EXCEPT ![iteration] = run] /\ pc = "command" /\ pc' = "request"
        /\ UNCHANGED <<promptOf, requestOf, verdictOf, backend, run, iteration>>
    BY <1>6 DEF WriteReply, frame, store
  <2>2. FilesType' /\ NoLaterRun'
    BY <2>1 DEF FilesType, NoLaterRun, Numbers
  <2>3. promptOf[iteration] = run
    BY <2>1 DEF RunHasWritten, PromptWritten
  <2>4. \A n \in Numbers : requestOf[n] <= run
    BY DEF FilesType, NoLaterRun, AuditInOrder, Numbers
  <2>5. AuditInOrder'
    BY <2>1, <2>3, <2>4 DEF FilesType, AuditInOrder, Numbers
  <2>6. RunHasWritten' /\ BackendFits'
    BY <2>1, <2>3 DEF FilesType, RunHasWritten, BackendFits, PromptWritten,
                      ReplyWritten, RequestWritten, Judging
  <2> QED
    BY <2>2, <2>5, <2>6
<1>7. CASE WriteRequest
  <2>1. /\ requestOf' = [requestOf EXCEPT ![iteration] = run] /\ pc = "request" /\ pc' = "parse"
        /\ UNCHANGED <<promptOf, replyOf, verdictOf, backend, run, iteration>>
    BY <1>7 DEF WriteRequest, Goto, frame, store
  <2>2. FilesType' /\ NoLaterRun'
    BY <2>1 DEF FilesType, NoLaterRun, Numbers
  <2>3. promptOf[iteration] = run /\ replyOf[iteration] = run
    BY <2>1 DEF RunHasWritten, PromptWritten, ReplyWritten
  <2>4. \A n \in Numbers : verdictOf[n] <= run
    BY DEF FilesType, NoLaterRun, AuditInOrder, Numbers
  <2>5. AuditInOrder'
    BY <2>1, <2>3, <2>4 DEF FilesType, AuditInOrder, Numbers
  <2>6. RunHasWritten' /\ BackendFits'
    BY <2>1, <2>3 DEF FilesType, RunHasWritten, BackendFits, PromptWritten,
                      ReplyWritten, RequestWritten, Judging
  <2> QED
    BY <2>2, <2>5, <2>6
<1>8. CASE ParseReply
  <2>1. pc = "parse"
    BY <1>8 DEF ParseReply
  <2>2. CASE Stop
    BY <2>2, AuditStopped
  <2>3. CASE NoCases
    <3>1. /\ verdictOf' = [verdictOf EXCEPT ![iteration] = run] /\ pc' = "idle"
          /\ UNCHANGED <<promptOf, replyOf, requestOf, backend, run, iteration>>
      BY <2>3 DEF NoCases, frame, audit
    <3>2. requestOf[iteration] = run
      BY <2>1 DEF RunHasWritten, RequestWritten
    <3>3. FilesType' /\ NoLaterRun'
      BY <3>1 DEF FilesType, NoLaterRun, Numbers
    <3>4. AuditInOrder'
      BY <3>1, <3>2 DEF FilesType, AuditInOrder, Numbers
    <3>5. RunHasWritten' /\ BackendFits'
      BY <3>1 DEF RunHasWritten, BackendFits, PromptWritten, ReplyWritten,
                  RequestWritten, Judging
    <3> QED
      BY <3>3, <3>4, <3>5
  <2>4. CASE pc' = "judge" /\ UNCHANGED <<adapter, frame, audit, store>>
    <3>1. UNCHANGED <<audit, verdictOf, backend, run, iteration>>
      BY <2>4 DEF frame, store
    <3>2. PromptWritten /\ ReplyWritten /\ RequestWritten /\ BackendFits'
      BY <2>1, <2>4 DEF PromptWritten, ReplyWritten, RequestWritten, BackendFits
    <3> QED
      BY <3>1, <3>2, AuditKept
  <2> QED
    BY <1>8, <2>2, <2>3, <2>4 DEF ParseReply
<1>9. CASE Judge
  <2>1. UNCHANGED <<audit, verdictOf, backend, run, iteration, pc>>
    BY <1>9 DEF Judge, Reject, Observe, NextProposal, frame, store
  <2>2. BackendFits' /\ Judging' = Judging
    BY <2>1 DEF BackendFits, Judging
  <2> QED
    BY <2>1, <2>2, AuditKept DEF PromptWritten, ReplyWritten, RequestWritten
<1>10. CASE JudgeNone \/ JudgeEnd
  <2>1. /\ UNCHANGED <<audit, verdictOf, backend, run, iteration>>
        /\ pc = "judge" /\ pc' = "diagnostics"
    BY <1>10 DEF JudgeNone, JudgeEnd, Goto, frame, store
  <2>2. BackendFits' /\ Judging' = Judging
    BY <2>1 DEF BackendFits, Judging
  <2> QED
    BY <2>1, <2>2, AuditKept DEF PromptWritten, ReplyWritten, RequestWritten
<1>11. CASE WriteDiagnostics
  <2>1. /\ verdictOf' = [verdictOf EXCEPT ![iteration] = IF backend = "model" THEN run ELSE @]
        /\ pc = "diagnostics" /\ pc' = "suite"
        /\ UNCHANGED <<promptOf, replyOf, requestOf, backend, run, iteration>>
    BY <1>11 DEF WriteDiagnostics, Goto, frame, audit
  <2>2. backend = "model" => requestOf[iteration] = run
    BY <2>1 DEF RunHasWritten, RequestWritten, Judging
  <2>3. FilesType' /\ NoLaterRun'
    BY <2>1 DEF FilesType, NoLaterRun, Numbers
  <2>4. AuditInOrder'
    BY <2>1, <2>2 DEF FilesType, AuditInOrder, Numbers
  <2>5. RunHasWritten' /\ BackendFits'
    BY <2>1 DEF RunHasWritten, BackendFits, PromptWritten, ReplyWritten,
                RequestWritten, Judging
  <2> QED
    BY <2>3, <2>4, <2>5
<1>12. CASE WriteSuite
  <2>1. CASE Stop
    BY <2>1, AuditStopped
  <2>2. CASE pc' = "next" /\ UNCHANGED <<frame, audit, verdictOf>>
    <3>1. UNCHANGED <<audit, verdictOf, backend, run, iteration>>
      BY <2>2 DEF frame
    <3>2. ~PromptWritten' /\ ~ReplyWritten' /\ ~RequestWritten' /\ BackendFits'
      BY <2>2 DEF PromptWritten, ReplyWritten, RequestWritten, Judging, BackendFits
    <3> QED
      BY <3>1, <3>2, AuditKept
  <2> QED
    BY <1>12, <2>1, <2>2 DEF WriteSuite, store
<1>13. CASE Continue
  <2>1. CASE Stop
    BY <2>1, AuditStopped
  <2>2. CASE ~Stop
    <3>1. /\ iteration' = iteration + 1 /\ iteration + 1 < Iterations
          /\ pc' = IF backend = "model" THEN "prompt" ELSE "propose"
          /\ UNCHANGED <<audit, verdictOf, backend, run>>
      BY <1>13, <2>2 DEF Continue, store
    <3>2. iteration' \in Numbers
      BY <3>1, GenerationAssumption DEF FilesType, Numbers
    <3>3. FilesType' /\ NoLaterRun' /\ AuditInOrder'
      BY <3>1, <3>2 DEF FilesType, NoLaterRun, AuditInOrder, audit, Numbers
    <3>4. PromptWritten' = FALSE /\ ReplyWritten' = FALSE /\ RequestWritten' = FALSE
      BY <3>1 DEF PromptWritten, ReplyWritten, RequestWritten, Judging
    <3>5. BackendFits'
      BY <3>1 DEF FilesType, BackendFits
    <3> QED
      BY <3>3, <3>4, <3>5 DEF RunHasWritten
  <2> QED
    BY <2>1, <2>2
<1>14. CASE UNCHANGED vars
  <2>1. UNCHANGED <<audit, verdictOf, backend, run, iteration, pc>>
    BY <1>14 DEF vars, frame, store
  <2>2. BackendFits' /\ Judging' = Judging
    BY <2>1 DEF BackendFits, Judging
  <2> QED
    BY <2>1, <2>2, AuditKept DEF PromptWritten, ReplyWritten, RequestWritten
<1> QED
  BY <1>1, <1>2, <1>3, <1>4, <1>5, <1>6, <1>7, <1>8, <1>9, <1>10, <1>11, <1>12,
     <1>13, <1>14 DEF Next, Generate

\* A request, a reply and a prompt of a run, for diagnostics of any later
\* one: the audit files of an iteration are in order.
THEOREM AuditIsOrdered == Spec => []AuditInOrder
<1>1. Spec => []AuditInv
  BY AuditStarts, AuditSteps, PTL DEF Spec
<1> QED
  BY <1>1, PTL DEF AuditInv
-----------------------------------------------------------------------------
(* The cases of a suite.                                                   *)

Listed(cases) == cases \in Seq(ToSet(cases))

Distinct(cases) ==
  \A i, j \in DOMAIN cases : i # j => ~SameCase(cases[i], cases[j])

Observed(cases) ==
  \A i \in DOMAIN cases : cases[i].output \in Outputs[cases[i].input]

\* The gold program of a run is chosen when there are no cases.
NoneBeforeTheRun == pc = "idle" => accepted = <<>>

CasesInv ==
  /\ Listed(accepted)
  /\ Distinct(accepted)
  /\ gold => Observed(accepted)
  /\ NoneBeforeTheRun
  /\ CasesDiffer
  /\ ExpectationsAreObserved

LEMMA EmptyIsFine == Listed(<<>>) /\ Distinct(<<>>) /\ Observed(<<>>)
  BY DEF Listed, Distinct, Observed, ToSet

\* What an appended case changes.
LEMMA AppendedCase ==
  ASSUME NEW cases, NEW c, Listed(cases)
  PROVE  /\ Listed(Append(cases, c))
         /\ DOMAIN Append(cases, c) = 1 .. Len(cases) + 1
         /\ DOMAIN cases = 1 .. Len(cases) /\ Len(cases) \in Nat
         /\ \A i \in 1 .. Len(cases) : Append(cases, c)[i] = cases[i]
         /\ Append(cases, c)[Len(cases) + 1] = c
<1> DEFINE T == ToSet(cases) \cup {c}
<1>1. cases \in Seq(T)
  <2>1. cases \in Seq(ToSet(cases)) /\ ToSet(cases) \subseteq T
    BY DEF Listed
  <2> HIDE DEF T
  <2> QED
    BY <2>1, SeqMonotonic
<1>2. c \in T
  OBVIOUS
<1> HIDE DEF T
<1>3. /\ Append(cases, c) \in Seq(T)
      /\ Len(Append(cases, c)) = Len(cases) + 1
      /\ \A i \in 1 .. Len(cases) : Append(cases, c)[i] = cases[i]
      /\ Append(cases, c)[Len(cases) + 1] = c
  BY <1>1, <1>2, AppendProperties
<1>4. DOMAIN cases = 1 .. Len(cases) /\ Len(cases) \in Nat
  BY <1>1, LenProperties
<1>5. DOMAIN Append(cases, c) = 1 .. Len(cases) + 1
  BY <1>3, LenProperties
<1>6. Append(cases, c) \in Seq(ToSet(Append(cases, c)))
  <2> DEFINE a == Append(cases, c)
             U == ToSet(a)
  <2>1. a \in Seq(T) /\ DOMAIN a = 1 .. Len(a)
    BY <1>3, LenProperties
  <2>2. \A i \in 1 .. Len(a) : a[i] \in U
    BY <2>1 DEF ToSet
  <2>3. Len(a) \in Nat /\ a \in [1 .. Len(a) -> T]
    BY <2>1, LenProperties
  <2> HIDE DEF a, U
  <2>4. a \in [1 .. Len(a) -> U]
    BY <2>2, <2>3
  <2>5. a \in Seq(U)
    BY <2>3, <2>4, SeqDef
  <2> QED
    BY <2>5 DEF a, U
<1> QED
  BY <1>3, <1>4, <1>5, <1>6 DEF Listed

\* A case that no other one is like makes the list no worse.
LEMMA AppendKeeps ==
  ASSUME NEW cases, NEW c, Listed(cases), Distinct(cases),
         \A d \in ToSet(cases) : ~SameCase(c, d)
  PROVE  /\ Distinct(Append(cases, c))
         /\ Observed(cases) /\ c.output \in Outputs[c.input] => Observed(Append(cases, c))
<1>1. \A i \in DOMAIN cases : cases[i] \in ToSet(cases)
  BY DEF ToSet
<1>2. \A i, j \in DOMAIN Append(cases, c) :
        i # j => ~SameCase(Append(cases, c)[i], Append(cases, c)[j])
  <2> SUFFICES ASSUME NEW i \in 1 .. Len(cases) + 1, NEW j \in 1 .. Len(cases) + 1, i # j
               PROVE  ~SameCase(Append(cases, c)[i], Append(cases, c)[j])
    BY AppendedCase
  <2>1. CASE i \in 1 .. Len(cases) /\ j \in 1 .. Len(cases)
    BY <2>1, AppendedCase DEF Distinct
  <2>2. CASE i = Len(cases) + 1
    <3>1. j \in 1 .. Len(cases)
      BY <2>2, AppendedCase
    <3> QED
      BY <2>2, <3>1, <1>1, AppendedCase
  <2>3. CASE j = Len(cases) + 1
    <3>1. i \in 1 .. Len(cases)
      BY <2>3, AppendedCase
    <3>2. ~SameCase(c, cases[i])
      BY <3>1, <1>1, AppendedCase
    <3> QED
      BY <2>3, <3>1, <3>2, AppendedCase DEF SameCase
  <2> QED
    BY <2>1, <2>2, <2>3, AppendedCase
<1>3. ASSUME Observed(cases), c.output \in Outputs[c.input]
      PROVE  Observed(Append(cases, c))
  <2> SUFFICES ASSUME NEW i \in 1 .. Len(cases) + 1
               PROVE  Append(cases, c)[i].output \in Outputs[Append(cases, c)[i].input]
    BY AppendedCase DEF Observed
  <2> QED
    BY <1>3, AppendedCase DEF Observed
<1> QED
  BY <1>2, <1>3 DEF Distinct

\* A step that leaves the suite and the list alone.
LEMMA CasesKept ==
  ASSUME CasesInv, UNCHANGED <<accepted, suite, gold>>, NoneBeforeTheRun'
  PROVE  CasesInv'
  BY DEF CasesInv, Listed, Distinct, Observed, CasesDiffer, ExpectationsAreObserved, SameCase

\* A step that leaves the suite alone and forgets the list.
LEMMA CasesForgotten ==
  ASSUME CasesInv, accepted' = <<>>, suite' = suite
  PROVE  CasesInv'
<1>1. Listed(accepted)' /\ Distinct(accepted)' /\ Observed(accepted)'
  BY EmptyIsFine DEF Listed, Distinct, Observed, SameCase
<1> QED
  BY <1>1 DEF CasesInv, NoneBeforeTheRun, CasesDiffer, ExpectationsAreObserved

LEMMA CasesStart == Init => CasesInv
<1> SUFFICES ASSUME Init PROVE CasesInv
  OBVIOUS
<1>1. accepted = <<>> /\ suite = None
  BY DEF Init
<1>2. Listed(accepted) /\ Distinct(accepted) /\ Observed(accepted)
  BY <1>1, EmptyIsFine
<1> QED
  BY <1>1, <1>2 DEF CasesInv, NoneBeforeTheRun, CasesDiffer, ExpectationsAreObserved

\* A case that is accepted.
LEMMA CasesObserved == ASSUME CasesInv, Judge PROVE CasesInv'
<1>1. suite' = suite /\ gold' = gold /\ pc' = "judge"
  BY DEF Judge, Reject, Observe, NextProposal, frame, store
<1>2. CASE accepted' = accepted
  BY <1>1, <1>2, CasesKept DEF NoneBeforeTheRun
<1>3. CASE accepted' # accepted
  <2>1. Observe
    BY <1>3 DEF Judge, Reject
  <2>2. PICK output \in Observation :
          LET c == CaseOf(answer[index], Trying, output)
          IN  accepted' = IF Duplicate(c) THEN accepted ELSE Append(accepted, c)
    BY <2>1 DEF Observe
  <2> DEFINE c == CaseOf(answer[index], Trying, output)
  <2>3. accepted' = Append(accepted, c) /\ \A d \in ToSet(accepted) : ~SameCase(c, d)
    BY <1>3, <2>2 DEF Duplicate
  <2>4. gold => c.output \in Outputs[c.input]
    BY <2>2 DEF CaseOf, Observation
  <2> HIDE DEF c
  <2>5. Listed(Append(accepted, c)) /\ Distinct(Append(accepted, c))
    BY <2>3, AppendedCase, AppendKeeps DEF CasesInv
  <2>6. gold => Observed(Append(accepted, c))
    BY <2>3, <2>4, AppendKeeps DEF CasesInv
  <2>7. Listed(accepted)' /\ Distinct(accepted)' /\ (gold => Observed(accepted))'
    BY <2>3, <2>5, <2>6, <1>1 DEF Listed, Distinct, Observed, SameCase
  <2> QED
    BY <1>1, <2>7 DEF CasesInv, NoneBeforeTheRun, CasesDiffer, ExpectationsAreObserved
<1> QED
  BY <1>2, <1>3

\* The list becomes the suite.
LEMMA CasesWritten == ASSUME CasesInv, WriteSuite PROVE CasesInv'
<1>1. CASE Stop
  BY <1>1, CasesForgotten DEF Stop, Take, store
<1>2. CASE pc' = "next" /\ UNCHANGED <<frame, memory, store>>
  BY <1>2, CasesKept DEF frame, memory, store, NoneBeforeTheRun
<1>3. CASE /\ suite' = [run |-> run, iteration |-> iteration, cases |-> accepted, observed |-> gold]
           /\ pc' = "next" /\ UNCHANGED <<frame, memory>>
  <2>1. suite'.cases = accepted /\ suite'.observed = gold /\ accepted' = accepted /\ gold' = gold
    BY <1>3 DEF frame, memory
  <2>2. CasesDiffer'
    BY <2>1 DEF CasesInv, Distinct, SameCase, CasesDiffer
  <2>3. ExpectationsAreObserved'
    BY <2>1 DEF CasesInv, Observed, ExpectationsAreObserved
  <2>4. Listed(accepted)' /\ Distinct(accepted)' /\ (gold => Observed(accepted))'
    BY <2>1 DEF CasesInv, Listed, Distinct, Observed, SameCase
  <2> QED
    BY <1>3, <2>2, <2>3, <2>4 DEF CasesInv, NoneBeforeTheRun
<1> QED
  BY <1>1, <1>2, <1>3 DEF WriteSuite

LEMMA CasesSteps == ASSUME CasesInv, [Next]_vars PROVE CasesInv'
<1>1. CASE Begin
  <2>1. accepted' = accepted /\ suite' = suite /\ accepted = <<>>
    BY <1>1 DEF Begin, memory, store, CasesInv, NoneBeforeTheRun
  <2> QED
    BY <2>1, CasesForgotten
<1>2. CASE Kill \/ CommandFails \/ Raise
  <2>1. Stop
    BY <1>2 DEF Kill, CommandFails, Raise
  <2> QED
    BY <2>1, CasesForgotten DEF Stop, Take, store
<1>3. CASE Propose \/ ParseReply
  BY <1>3, CasesForgotten DEF Propose, ParseReply, Stop, NoCases, Take, store
<1>4. CASE WritePrompt \/ AskModel \/ WriteReply \/ WriteRequest
  BY <1>4, CasesKept DEF WritePrompt, AskModel, WriteReply, WriteRequest, Goto, memory,
     store, frame, NoneBeforeTheRun
<1>5. CASE Judge
  BY <1>5, CasesObserved
<1>6. CASE JudgeNone \/ JudgeEnd \/ WriteDiagnostics
  BY <1>6, CasesKept DEF JudgeNone, JudgeEnd, WriteDiagnostics, Goto, memory, store,
     frame, NoneBeforeTheRun
<1>7. CASE WriteSuite
  BY <1>7, CasesWritten
<1>8. CASE Continue
  <2>1. CASE Stop
    BY <2>1, CasesForgotten DEF Stop, Take, store
  <2>2. CASE ~Stop
    BY <1>8, <2>2, CasesKept DEF Continue, memory, store, NoneBeforeTheRun
  <2> QED
    BY <2>1, <2>2
<1>9. CASE UNCHANGED vars
  BY <1>9, CasesKept DEF vars, frame, memory, store, CasesInv, NoneBeforeTheRun
<1> QED
  BY <1>1, <1>2, <1>3, <1>4, <1>5, <1>6, <1>7, <1>8, <1>9 DEF Next, Generate

LEMMA CasesInvariant == Spec => []CasesInv
  BY CasesStart, CasesSteps, PTL DEF Spec

\* Rounds of a model and revisions of proposals may meet: still no two cases
\* of a suite have the same input and the same expectation.
THEOREM SuitesHaveNoTwins == Spec => []CasesDiffer
  BY CasesInvariant, PTL DEF CasesInv

\* What a case expects is what the gold program did with its own input, also
\* when the proposal had to be revised.
THEOREM ExpectationsHold == Spec => []ExpectationsAreObserved
  BY CasesInvariant, PTL DEF CasesInv

\* A written suite has no twins and expects what was observed, whatever rounds
\* and revisions made it (model_backend.py:222-284, test_writer.py:323-390).
THEOREM SuitesAreSound == Spec => []SuiteIsSound
<1>1. CasesDiffer /\ ExpectationsAreObserved => SuiteIsSound
  BY DEF SuiteIsSound
<1> QED
  BY <1>1, SuitesHaveNoTwins, ExpectationsHold, PTL
-----------------------------------------------------------------------------
(* The rounds of the command.                                              *)

\* The categories up to the last chunk have been asked for.
RoundsInv ==
  /\ setting \in Int
  /\ asked \subseteq 1 .. NumCategories
  /\ command = "asking" =>
       /\ round \in Nat /\ round <= Rounds
       /\ \A c \in 1 .. NumCategories : c <= round * ChunkSize(Rounds) => c \in asked
  /\ EveryCategoryIsAsked

\* What a step may do to the command.
LEMMA CommandSteps ==
  ASSUME [Next]_vars
  PROVE  \/ StartCommand \/ NoCommand \/ Exchange \/ FinishCommand
         \/ UNCHANGED adapter
  BY DEF Next, Generate, Begin, Propose, WritePrompt, AskModel, CommandFails,
     WriteReply, WriteRequest, ParseReply, NoCases, Judge, Raise, JudgeNone,
     JudgeEnd, WriteDiagnostics, WriteSuite, Continue, Kill, Stop, vars

\* The chunks are large enough: all rounds together reach every category.
LEMMA ChunksReach ==
  ASSUME NEW rounds \in Nat \ {0}
  PROVE  /\ ChunkSize(rounds) \in Nat \ {0}
         /\ NumCategories <= rounds * ChunkSize(rounds)
<1> DEFINE n == NumCategories + rounds - 1
           size == n \div rounds
<1>1. n \in Nat /\ NumCategories \in Nat \ {0} /\ n >= rounds
  BY AdapterAssumption
<1> HIDE DEF n
<1>2. size \in Nat /\ rounds * size <= n /\ n < rounds * (size + 1)
  BY <1>1
<1>3. rounds * (size + 1) = rounds * size + rounds
  BY <1>2
<1> HIDE DEF size
<1>4. NumCategories <= rounds * size
  BY <1>1, <1>2, <1>3 DEF n
<1>5. size > 0
  <2>1. CASE size = 0
    <3>1. rounds * size = 0
      BY <2>1
    <3> QED
      BY <1>1, <1>4, <3>1
  <2> QED
    BY <1>2, <2>1
<1> QED
  BY <1>2, <1>4, <1>5 DEF ChunkSize, size, n

\* A round reaches the end of its chunk, or the last category.
LEMMA FocusReaches ==
  ASSUME NEW rounds \in Nat \ {0}, NEW r \in Nat, NEW c \in 1 .. NumCategories,
         c > r * ChunkSize(rounds), c <= (r + 1) * ChunkSize(rounds)
  PROVE  c \in Focus(rounds, r)
<1> DEFINE size == ChunkSize(rounds)
<1>1. size \in Nat \ {0} /\ NumCategories \in Nat
  BY ChunksReach, AdapterAssumption
<1> HIDE DEF size
<1>2. (r + 1) * size = r * size + size /\ r * size \in Nat
  BY <1>1
<1>3. c > r * size /\ c <= r * size + size
  BY <1>2 DEF size
<1> QED
  BY <1>1, <1>2, <1>3 DEF Focus, Least, size

LEMMA FocusTypes ==
  ASSUME NEW rounds \in Nat \ {0}, NEW r \in Nat
  PROVE  Focus(rounds, r) \subseteq 1 .. NumCategories
<1> DEFINE size == ChunkSize(rounds)
<1>1. size \in Nat \ {0} /\ NumCategories \in Nat
  BY ChunksReach, AdapterAssumption
<1> HIDE DEF size
<1>2. r * size \in Nat
  BY <1>1
<1> QED
  BY <1>1, <1>2 DEF Focus, Least, size

LEMMA RoundsType == setting \in Int => Rounds \in Nat \ {0}
  BY DEF Rounds

LEMMA RoundsSteps == ASSUME RoundsInv, [Next]_vars PROVE RoundsInv'
<1>1. CASE StartCommand
  <2>1. /\ command' = "asking" /\ round' = 0 /\ asked' = {} /\ setting' = setting
    BY <1>1 DEF StartCommand
  <2>2. Rounds' = Rounds /\ Rounds \in Nat \ {0}
    BY <2>1, RoundsType DEF RoundsInv, Rounds
  <2>3. 0 * ChunkSize(Rounds) = 0
    BY <2>2, ChunksReach
  <2>4. \A c \in 1 .. NumCategories : c <= round' * ChunkSize(Rounds)' => c \in asked'
    BY <2>1, <2>2, <2>3, AdapterAssumption
  <2> QED
    BY <2>1, <2>2, <2>4 DEF RoundsInv, EveryCategoryIsAsked
<1>2. CASE NoCommand
  BY <1>2 DEF NoCommand, RoundsInv, EveryCategoryIsAsked
<1>3. CASE Exchange
  <2>1. /\ command = "asking" /\ round < Rounds /\ setting' = setting
        /\ asked' = asked \cup Focus(Rounds, round)
        /\ \/ command' = "asking" /\ round' = round + 1
           \/ command' = "failed"
    BY <1>3 DEF Exchange, Ask, Answered, Unusable, Unanswered
  <2>2. Rounds' = Rounds /\ Rounds \in Nat \ {0} /\ round \in Nat
    BY <2>1, RoundsType DEF RoundsInv, Rounds
  <2>3. asked' \subseteq 1 .. NumCategories
    BY <2>1, <2>2, FocusTypes DEF RoundsInv
  <2>4. CASE command' = "failed"
    BY <2>1, <2>3, <2>4 DEF RoundsInv, EveryCategoryIsAsked
  <2>5. CASE command' = "asking" /\ round' = round + 1
    <3> DEFINE size == ChunkSize(Rounds)
    <3>1. size \in Nat /\ size' = size
      BY <2>2, ChunksReach
    <3>2. ASSUME NEW c \in 1 .. NumCategories, c <= (round + 1) * size
          PROVE  c \in asked'
      <4>1. CASE c <= round * size
        BY <2>1, <4>1 DEF RoundsInv
      <4>2. CASE c > round * size
        BY <2>1, <2>2, <3>2, <4>2, FocusReaches
      <4> QED
        BY <2>2, <3>1, <4>1, <4>2
    <3> HIDE DEF size
    <3>3. \A c \in 1 .. NumCategories : c <= round' * size' => c \in asked'
      BY <2>5, <3>1, <3>2
    <3>4. round' \in Nat /\ round' <= Rounds'
      BY <2>1, <2>2, <2>5
    <3> QED
      BY <2>1, <2>3, <2>5, <3>3, <3>4 DEF RoundsInv, EveryCategoryIsAsked, size
  <2> QED
    BY <2>1, <2>4, <2>5
<1>4. CASE FinishCommand
  <2>1. /\ command = "asking" /\ round = Rounds /\ command' = "done"
        /\ UNCHANGED <<setting, round, asked>>
    BY <1>4 DEF FinishCommand
  <2>2. Rounds \in Nat \ {0}
    BY RoundsType DEF RoundsInv
  <2>3. \A c \in 1 .. NumCategories : c <= Rounds * ChunkSize(Rounds)
    BY <2>2, ChunksReach, AdapterAssumption
  <2>4. 1 .. NumCategories \subseteq asked
    BY <2>1, <2>3 DEF RoundsInv
  <2> QED
    BY <2>1, <2>4 DEF RoundsInv, EveryCategoryIsAsked
<1>5. CASE UNCHANGED adapter
  BY <1>5 DEF adapter, RoundsInv, EveryCategoryIsAsked, Rounds
<1> QED
  BY <1>1, <1>2, <1>3, <1>4, <1>5, CommandSteps

LEMMA RoundsStart == Init => RoundsInv
  BY AdapterAssumption DEF Init, AdapterInit, RoundsInv, EveryCategoryIsAsked

\* Whatever the number of rounds, and of categories: a command that returns
\* cases has asked the model about each category.
THEOREM CategoriesAsked == Spec => []EveryCategoryIsAsked
<1>1. RoundsInv => EveryCategoryIsAsked
  BY DEF RoundsInv
<1> QED
  BY <1>1, RoundsStart, RoundsSteps, PTL DEF Spec
-----------------------------------------------------------------------------
(* The diagnostics of an iteration.                                        *)

ListsInv ==
  /\ Listed(answer) /\ Listed(merged) /\ Listed(diagnostics)
  /\ index \in 1 .. Len(answer) + 1
  /\ run \in 0 .. MaxRuns

\* In memory the diagnostics name the cases accepted so far, from then on to
\* the suite file those of the iteration on disk do; a local run without a
\* gold program accepts none.
VerdictsInv ==
  /\ verdicts = [b \in {"local", "model"} |-> [n \in Numbers |-> verdicts[b][n]]]
  /\ pc \in {"judge", "diagnostics", "suite"} => NamesAccepted(diagnostics, accepted)
  /\ pc = "judge" /\ backend = "local" /\ ~gold => accepted = <<>>
  /\ pc = "suite" => verdicts[backend][iteration] = diagnostics
  /\ AcceptedAreWritten

\* Functions on an initial segment of the numbers are lists.
LEMMA IndexedIsListed ==
  ASSUME NEW k \in Nat, NEW s, s = [n \in 1 .. k |-> s[n]]
  PROVE  Listed(s)
<1>1. s \in [1 .. k -> ToSet(s)]
  BY DEF ToSet
<1> QED
  BY <1>1, SeqDef DEF Listed

LEMMA BoundedIsListed ==
  ASSUME NEW S, NEW n \in Nat, NEW s \in BoundedSeq(S, n)
  PROVE  Listed(s) /\ IsFiniteSet(DOMAIN s)
<1>1. PICK m \in 0 .. n : s \in [1 .. m -> S]
  BY DEF BoundedSeq, SeqOf
<1>2. m \in Nat /\ s = [i \in 1 .. m |-> s[i]]
  BY <1>1
<1>3. Listed(s)
  BY <1>2, IndexedIsListed
<1> QED
  BY <1>1, <1>3, FS_Interval

\* The list that a reply is merged into stays a list.
LEMMA MergeIsListed ==
  ASSUME Listed(merged), NEW cases \in BoundedSeq(Answers, MaxReply)
  PROVE  Listed(Merge(cases))
<1> DEFINE new == At(Fresh(cases), cases)
           T == ToSet(merged) \cup ToSet(new)
<1>1. IsFiniteSet(Fresh(cases))
  BY BoundedIsListed, AdapterAssumption, FS_Subset DEF Fresh
<1>2. new = [n \in 1 .. Cardinality(Fresh(cases)) |-> new[n]]
  BY DEF At
<1>3. Cardinality(Fresh(cases)) \in Nat
  BY <1>1, FS_CardinalityType
<1> HIDE DEF new
<1>4. Listed(new)
  BY <1>2, <1>3, IndexedIsListed
<1>5. merged \in Seq(T) /\ new \in Seq(T)
  <2>1. ToSet(merged) \subseteq T /\ ToSet(new) \subseteq T
    OBVIOUS
  <2> HIDE DEF T
  <2> QED
    BY <1>4, <2>1, SeqMonotonic DEF Listed
<1> HIDE DEF T
<1>6. merged \o new \in Seq(T)
  BY <1>5, ConcatProperties
<1> DEFINE both == merged \o new
<1> HIDE DEF both
<1>7. Len(both) \in Nat /\ both = [n \in 1 .. Len(both) |-> both[n]]
  BY <1>6, LenProperties DEF both
<1>8. Listed(both)
  BY <1>7, IndexedIsListed
<1> QED
  BY <1>8 DEF Merge, new, both

LEMMA EmptyNames == NamesAccepted(<<>>, <<>>)
  BY FS_EmptySet DEF NamesAccepted

\* A judged proposal: its entry at the end of the diagnostics, and its case
\* at the end of the cases if it was accepted.
LEMMA NamesOneMore ==
  ASSUME NEW entries, NEW cases, NEW entry, Listed(entries), Listed(cases),
         NamesAccepted(entries, cases), entry.accepted \in BOOLEAN
  PROVE  /\ ~entry.accepted => NamesAccepted(Append(entries, entry), cases)
         /\ entry.accepted =>
              NamesAccepted(Append(entries, entry), Append(cases, entry.case))
<1> DEFINE more == Append(entries, entry)
           last == Len(entries) + 1
           named == {i \in DOMAIN entries : entries[i].accepted}
           then == {i \in DOMAIN more : more[i].accepted}
<1>1. /\ DOMAIN more = 1 .. last /\ DOMAIN entries = 1 .. Len(entries)
      /\ Len(entries) \in Nat /\ more[last] = entry
      /\ \A i \in 1 .. Len(entries) : more[i] = entries[i]
  BY AppendedCase
<1>2. /\ Len(cases) = Cardinality(named)
      /\ \A i \in named : cases[Rank(named, i)] = entries[i].case
  BY DEF NamesAccepted
<1>3. named \subseteq 1 .. Len(entries) /\ IsFiniteSet(named)
  <2>1. named \subseteq 1 .. Len(entries)
    BY <1>1
  <2>2. IsFiniteSet(1 .. Len(entries))
    BY <1>1, FS_Interval
  <2> QED
    BY <2>1, <2>2, FS_Subset
<1>4. \A i \in named : more[i] = entries[i]
  BY <1>1
<1>5. ~entry.accepted => then = named
  BY <1>1
<1>6. entry.accepted => then = named \cup {last}
  BY <1>1
<1> HIDE DEF more, named, then
<1>7. ASSUME ~entry.accepted PROVE NamesAccepted(more, cases)
  <2>1. \A i \in then : cases[Rank(then, i)] = more[i].case
    BY <1>2, <1>4, <1>5, <1>7
  <2> QED
    BY <1>2, <1>5, <1>7, <2>1 DEF NamesAccepted, then
<1>8. ASSUME entry.accepted PROVE NamesAccepted(more, Append(cases, entry.case))
  <2> DEFINE longer == Append(cases, entry.case)
  <2>1. last \notin named
    BY <1>1, <1>3
  <2>2. Cardinality(then) = Cardinality(named) + 1 /\ Cardinality(named) \in Nat
    BY <1>3, <1>6, <1>8, <2>1, FS_AddElement, FS_CardinalityType
  <2>3. /\ Len(longer) = Len(cases) + 1
        /\ \A n \in 1 .. Len(cases) : longer[n] = cases[n]
        /\ longer[Len(cases) + 1] = entry.case
    BY AppendedCase, LenProperties DEF Listed
  <2> HIDE DEF longer
  <2>4. ASSUME NEW i \in named
        PROVE  longer[Rank(then, i)] = more[i].case
    <3>1. {j \in then : j <= i} = {j \in named : j <= i}
      BY <1>1, <1>3, <1>6, <1>8
    <3>2. Rank(then, i) = Rank(named, i)
      BY <3>1 DEF Rank
    <3>3. Rank(named, i) \in 1 .. Len(cases)
      <4> DEFINE upto == {j \in named : j <= i}
      <4>1. i \in upto /\ upto \in SUBSET named
        BY <1>3
      <4> HIDE DEF upto
      <4>2. /\ IsFiniteSet(upto) /\ Cardinality(upto) <= Cardinality(named)
            /\ Cardinality(upto) \in Nat /\ Cardinality(upto) # 0
        BY <1>3, <4>1, FS_Subset, FS_CardinalityType, FS_EmptySet
      <4>3. Cardinality(upto) \in 1 .. Len(cases)
        BY <1>2, <2>2, <4>2
      <4> QED
        BY <4>3 DEF Rank, upto
    <3> QED
      BY <1>2, <1>4, <2>3, <3>2, <3>3
  <2>5. longer[Rank(then, last)] = more[last].case
    <3>1. {j \in then : j <= last} = then
      <4>1. ASSUME NEW j \in then PROVE j <= last
        <5>1. j \in 1 .. Len(entries) \/ j = last
          BY <1>3, <1>6, <1>8
        <5>2. Len(entries) \in Nat
          BY <1>1
        <5> QED
          BY <5>1, <5>2
      <4> HIDE DEF last
      <4> QED
        BY <4>1
    <3>2. Rank(then, last) = Len(cases) + 1
      BY <1>2, <2>2, <3>1 DEF Rank
    <3> QED
      BY <1>1, <2>3, <3>2
  <2>6. \A i \in then : longer[Rank(then, i)] = more[i].case
    BY <1>6, <1>8, <2>4, <2>5
  <2>7. Len(longer) = Cardinality(then)
    BY <1>2, <2>2, <2>3
  <2> QED
    BY <2>6, <2>7 DEF NamesAccepted, then, longer
<1> QED
  BY <1>7, <1>8 DEF more

\* What a step may do to the lists in memory.
LEMMA MemorySteps ==
  ASSUME [Next]_vars
  PROVE  \/ UNCHANGED <<answer, index, diagnostics, accepted>>
         \/ Take(<<>>)
         \/ Take(merged)
         \/ \E p \in BoundedSeq({q \in Derived : q.kind # "unsafe"}, MaxDerived) : Take(p)
         \/ Judge
         \/ JudgeNone
  BY DEF Next, Generate, Begin, Propose, WritePrompt, AskModel, CommandFails,
     WriteReply, WriteRequest, ParseReply, NoCases, Raise, JudgeEnd,
     WriteDiagnostics, WriteSuite, Continue, Kill, Stop, vars, memory

LEMMA TakenLists ==
  ASSUME NEW p, Listed(p), Take(p)
  PROVE  /\ Listed(answer)' /\ Listed(diagnostics)'
         /\ index' \in 1 .. Len(answer') + 1
<1>1. answer' = p /\ index' = 1 /\ diagnostics' = <<>>
  BY DEF Take
<1>2. Len(p) \in Nat
  BY LenProperties DEF Listed
<1> QED
  BY <1>1, <1>2, EmptyIsFine DEF Listed

LEMMA RunSteps == ASSUME [Next]_vars, run \in 0 .. MaxRuns PROVE run' \in 0 .. MaxRuns
<1>1. CASE Begin
  BY <1>1, GenerationAssumption DEF Begin
<1>2. CASE ~Begin
  <2>1. run' = run
    BY <1>2 DEF Next, Generate, Propose, WritePrompt, AskModel, CommandFails,
       WriteReply, WriteRequest, ParseReply, NoCases, Judge, Raise, JudgeNone,
       JudgeEnd, WriteDiagnostics, WriteSuite, Continue, Kill, Stop, vars, frame
  <2> QED
    BY <2>1
<1> QED
  BY <1>1, <1>2

\* An entry is added for a proposal that is done with, and for no other.
LEMMA JudgedLists ==
  ASSUME ListsInv, Judge
  PROVE  /\ Listed(answer)' /\ Listed(diagnostics)'
         /\ index' \in 1 .. Len(answer') + 1
<1>1. Len(answer) \in Nat /\ index \in 1 .. Len(answer) + 1 /\ index <= Len(answer)
  BY LenProperties DEF ListsInv, Listed, Judge
<1>2. answer' = answer /\ index' \in {index, index + 1}
  BY DEF Judge, Reject, Observe, NextProposal
<1>3. index' \in 1 .. Len(answer') + 1
  BY <1>1, <1>2
<1>4. diagnostics' = diagnostics \/ \E d : diagnostics' = Append(diagnostics, d)
  BY DEF Judge, Reject, Observe, Diagnose
<1>5. Listed(diagnostics')
  <2>1. CASE diagnostics' = diagnostics
    BY <2>1 DEF ListsInv
  <2>2. ASSUME NEW d, diagnostics' = Append(diagnostics, d)
        PROVE  Listed(diagnostics')
    <3>1. Listed(Append(diagnostics, d))
      BY AppendedCase DEF ListsInv
    <3> QED
      BY <2>2, <3>1
  <2> QED
    BY <1>4, <2>1, <2>2
<1> QED
  BY <1>2, <1>3, <1>5 DEF ListsInv, Listed

LEMMA ListsSteps == ASSUME ListsInv, [Next]_vars PROVE ListsInv'
<1>1. Listed(merged)'
  <2>1. \/ merged' = <<>> \/ merged' = merged
        \/ \E cases \in BoundedSeq(Answers, MaxReply) : merged' = Merge(cases)
    BY CommandSteps DEF StartCommand, NoCommand, Exchange, Answered, Unusable,
       Unanswered, FinishCommand, adapter
  <2>2. Listed(merged')
    BY <2>1, EmptyIsFine, MergeIsListed DEF ListsInv
  <2> QED
    BY <2>2 DEF Listed
<1>2. run' \in 0 .. MaxRuns
  BY RunSteps DEF ListsInv
<1>3. /\ Listed(answer)' /\ Listed(diagnostics)'
      /\ index' \in 1 .. Len(answer') + 1
  <2>1. CASE UNCHANGED <<answer, index, diagnostics, accepted>>
    BY <2>1 DEF ListsInv, Listed
  <2>2. CASE Take(<<>>)
    BY <2>2, EmptyIsFine, TakenLists
  <2>3. CASE Take(merged)
    BY <2>3, TakenLists DEF ListsInv
  <2>4. CASE \E p \in BoundedSeq({q \in Derived : q.kind # "unsafe"}, MaxDerived) : Take(p)
    <3>1. PICK p \in BoundedSeq({q \in Derived : q.kind # "unsafe"}, MaxDerived) : Take(p)
      BY <2>4
    <3>2. Listed(p)
      BY BoundedIsListed, GenerationAssumption
    <3> QED
      BY <3>1, <3>2, TakenLists
  <2>5. CASE Judge
    BY <2>5, JudgedLists
  <2>6. CASE JudgeNone
    <3> DEFINE entry == [accepted |-> FALSE, case |-> None]
    <3>1. diagnostics' = <<entry>> /\ UNCHANGED <<answer, index>>
      BY <2>6 DEF JudgeNone
    <3> HIDE DEF entry
    <3>2. Listed(Append(<<>>, entry)) /\ Append(<<>>, entry) = <<entry>>
      <4>1. Append(<<>>, entry) = <<entry>>
        OBVIOUS
      <4>2. Listed(Append(<<>>, entry))
        BY EmptyIsFine, AppendedCase, Zenon
      <4> QED
        BY <4>1, <4>2
    <3> QED
      BY <3>1, <3>2 DEF ListsInv, Listed
  <2> QED
    BY <2>1, <2>2, <2>3, <2>4, <2>5, <2>6, MemorySteps
<1> QED
  BY <1>1, <1>2, <1>3 DEF ListsInv

Shaped(v) == v = [b \in {"local", "model"} |-> [n \in Numbers |-> v[b][n]]]

\* A step after which there is nothing to compare.
LEMMA NothingToName ==
  ASSUME pc' \notin {"judge", "diagnostics", "suite", "next"}, Shaped(verdicts')
  PROVE  VerdictsInv'
  BY DEF VerdictsInv, AcceptedAreWritten, Shaped, Numbers

\* A step that leaves the lists and the files alone, and the run where it is.
LEMMA NamesKept ==
  ASSUME VerdictsInv,
         UNCHANGED <<verdicts, suite, accepted, diagnostics, frame>>,
         \/ pc' = pc
         \/ pc = "judge" /\ pc' = "diagnostics"
         \/ pc' = "next" /\ accepted = <<>>
  PROVE  VerdictsInv'
<1>1. UNCHANGED <<backend, gold, run, iteration>>
  BY DEF frame
<1>2. NamesAccepted(diagnostics, accepted)' = NamesAccepted(diagnostics, accepted)
  BY DEF NamesAccepted, Rank
<1>3. AcceptedAreWritten'
  <2>1. CASE pc' = "next" /\ accepted' # <<>>
    <3>1. pc = "next" /\ accepted # <<>>
      BY <2>1
    <3>2. /\ suite.run = run /\ suite.iteration = iteration
          /\ NamesAccepted(verdicts[backend][iteration], suite.cases)
      BY <3>1 DEF VerdictsInv, AcceptedAreWritten
    <3>3. NamesAccepted(verdicts[backend][iteration], suite.cases)'
      <4> DEFINE entries == verdicts[backend][iteration]
                 cases == suite.cases
      <4>1. entries' = entries /\ cases' = cases
        BY <1>1
      <4>2. NamesAccepted(entries, cases)
        BY <3>2
      <4> HIDE DEF entries, cases
      <4>3. NamesAccepted(entries', cases')
        BY <4>1, <4>2
      <4> QED
        BY <4>3 DEF NamesAccepted, Rank, entries, cases
    <3> QED
      BY <1>1, <3>2, <3>3 DEF AcceptedAreWritten
  <2>2. CASE ~(pc' = "next" /\ accepted' # <<>>)
    BY <2>2 DEF AcceptedAreWritten
  <2> QED
    BY <2>1, <2>2
<1> QED
  BY <1>1, <1>2, <1>3 DEF VerdictsInv, Numbers

\* The lists are empty when the proposals are taken up.
LEMMA NothingNamed ==
  ASSUME VerdictsInv, pc' = "judge", verdicts' = verdicts,
         diagnostics' = <<>>, accepted' = <<>>
  PROVE  VerdictsInv'
<1>1. NamesAccepted(diagnostics', accepted')
  BY EmptyNames
<1>2. NamesAccepted(diagnostics, accepted)'
  BY <1>1 DEF NamesAccepted, Rank
<1> QED
  BY <1>2 DEF VerdictsInv, AcceptedAreWritten, Numbers

LEMMA JudgedIsNamed ==
  ASSUME VerdictsInv, ListsInv, CasesInv, Judge
  PROVE  VerdictsInv'
<1>1. /\ pc = "judge" /\ pc' = "judge" /\ (backend = "model" \/ gold)
      /\ UNCHANGED <<verdicts, backend, gold>>
  BY DEF Judge, Reject, Observe, NextProposal, frame, store
<1>2. NamesAccepted(diagnostics, accepted) /\ Listed(diagnostics) /\ Listed(accepted)
  BY <1>1 DEF VerdictsInv, ListsInv, CasesInv
<1>3. NamesAccepted(diagnostics', accepted')
  <2>1. CASE Reject
    <3> DEFINE entry == [accepted |-> FALSE, case |-> None]
    <3>1. \/ UNCHANGED <<diagnostics, accepted>>
          \/ diagnostics' = Append(diagnostics, entry) /\ accepted' = accepted
      BY <2>1 DEF Reject, Diagnose
    <3>2. entry.accepted = FALSE
      OBVIOUS
    <3> HIDE DEF entry
    <3>3. NamesAccepted(Append(diagnostics, entry), accepted)
      BY <1>2, <3>2, NamesOneMore
    <3> QED
      BY <1>2, <3>1, <3>3
  <2>2. CASE Observe
    <3>1. PICK output \in Observation :
            LET c == CaseOf(answer[index], Trying, output)
            IN  /\ Diagnose(~Duplicate(c), c)
                /\ accepted' = IF Duplicate(c) THEN accepted ELSE Append(accepted, c)
      BY <2>2 DEF Observe
    <3> DEFINE c == CaseOf(answer[index], Trying, output)
               entry == [accepted |-> ~Duplicate(c), case |-> c]
    <3> HIDE DEF c
    <3>2. /\ diagnostics' = Append(diagnostics, entry)
          /\ accepted' = IF Duplicate(c) THEN accepted ELSE Append(accepted, c)
      BY <3>1 DEF Diagnose, c
    <3>3. entry.accepted = ~Duplicate(c) /\ entry.case = c /\ entry.accepted \in BOOLEAN
      BY DEF Duplicate
    <3> HIDE DEF entry
    <3>4. CASE Duplicate(c)
      <4>1. NamesAccepted(Append(diagnostics, entry), accepted)
        BY <1>2, <3>3, <3>4, NamesOneMore
      <4> QED
        BY <3>2, <3>4, <4>1
    <3>5. CASE ~Duplicate(c)
      <4>1. NamesAccepted(Append(diagnostics, entry), Append(accepted, entry.case))
        BY <1>2, <3>3, <3>5, NamesOneMore
      <4> QED
        BY <3>2, <3>3, <3>5, <4>1
    <3> QED
      BY <3>4, <3>5
  <2> QED
    BY <2>1, <2>2 DEF Judge
<1>4. NamesAccepted(diagnostics, accepted)'
  BY <1>3 DEF NamesAccepted, Rank
<1> QED
  BY <1>1, <1>4 DEF VerdictsInv, AcceptedAreWritten, Numbers

\* One entry that accepts nothing.
LEMMA NoneIsNamed ==
  ASSUME VerdictsInv, JudgeNone
  PROVE  VerdictsInv'
<1> DEFINE entry == [accepted |-> FALSE, case |-> None]
<1>1. /\ pc = "judge" /\ pc' = "diagnostics" /\ accepted = <<>> /\ accepted' = <<>>
      /\ diagnostics' = <<entry>> /\ verdicts' = verdicts
  BY DEF JudgeNone, Goto, VerdictsInv, store
<1>2. entry.accepted = FALSE
  OBVIOUS
<1> HIDE DEF entry
<1>3. NamesAccepted(Append(<<>>, entry), <<>>)
  BY <1>2, EmptyNames, EmptyIsFine, NamesOneMore
<1>4. Append(<<>>, entry) = <<entry>>
  OBVIOUS
<1>5. NamesAccepted(diagnostics, accepted)'
  BY <1>1, <1>3, <1>4 DEF NamesAccepted, Rank
<1> QED
  BY <1>1, <1>5 DEF VerdictsInv, AcceptedAreWritten, Numbers

LEMMA DiagnosticsWritten ==
  ASSUME VerdictsInv, FilesType, WriteDiagnostics
  PROVE  VerdictsInv'
<1>1. /\ pc = "diagnostics" /\ pc' = "suite"
      /\ verdicts' = [verdicts EXCEPT ![backend][iteration] = diagnostics]
      /\ UNCHANGED <<backend, gold, iteration, diagnostics, accepted>>
  BY DEF WriteDiagnostics, Goto, frame, memory
<1>2. backend \in {"local", "model"} /\ iteration \in Numbers
  BY DEF FilesType
<1>3. Shaped(verdicts)
  BY DEF VerdictsInv, Shaped
<1>4. Shaped(verdicts') /\ verdicts'[backend][iteration] = diagnostics
  BY <1>1, <1>2, <1>3 DEF Shaped
<1>5. NamesAccepted(diagnostics, accepted)'
  BY <1>1 DEF VerdictsInv, NamesAccepted, Rank
<1> QED
  BY <1>1, <1>4, <1>5 DEF VerdictsInv, AcceptedAreWritten, Shaped, Numbers

\* The cases named so far become the suite.
LEMMA SuiteIsNamed ==
  ASSUME VerdictsInv, WriteSuite
  PROVE  VerdictsInv'
<1>1. CASE Stop
  BY <1>1, NothingToName DEF Stop, store, VerdictsInv, Shaped
<1>2. CASE accepted = <<>> /\ pc' = "next" /\ UNCHANGED <<frame, memory, store>>
  BY <1>2, NamesKept DEF memory, store
<1>3. CASE /\ suite' = [run |-> run, iteration |-> iteration, cases |-> accepted, observed |-> gold]
           /\ pc' = "next" /\ UNCHANGED <<frame, memory, verdicts>>
  <2>1. /\ pc = "suite" /\ verdicts[backend][iteration] = diagnostics
        /\ NamesAccepted(diagnostics, accepted)
    BY DEF WriteSuite, VerdictsInv
  <2>2. UNCHANGED <<backend, gold, run, iteration, verdicts>>
    BY <1>3 DEF frame
  <2>3. suite'.run = run /\ suite'.iteration = iteration /\ suite'.cases = accepted
    BY <1>3
  <2>4. NamesAccepted(verdicts'[backend'][iteration'], suite'.cases)
    BY <2>1, <2>2, <2>3
  <2>5. AcceptedAreWritten'
    BY <2>2, <2>3, <2>4 DEF AcceptedAreWritten, NamesAccepted, Rank
  <2> QED
    BY <1>3, <2>2, <2>5 DEF VerdictsInv, Numbers
<1> QED
  BY <1>1, <1>2, <1>3 DEF WriteSuite

LEMMA VerdictsSteps ==
  ASSUME VerdictsInv, ListsInv, CasesInv, AuditInv, [Next]_vars
  PROVE  VerdictsInv'
<1> USE DEF Shaped
<1>1. CASE Begin
  BY <1>1, NothingToName DEF Begin, store, VerdictsInv
<1>2. CASE Kill \/ CommandFails \/ Raise
  BY <1>2, NothingToName DEF Kill, CommandFails, Raise, Stop, store, VerdictsInv
<1>3. CASE Propose
  BY <1>3, NothingNamed DEF Propose, Goto, Take, store
<1>4. CASE WritePrompt \/ AskModel \/ WriteReply \/ WriteRequest
  BY <1>4, NothingToName DEF WritePrompt, AskModel, WriteReply, WriteRequest, Goto, store,
     VerdictsInv
<1>5. CASE ParseReply
  <2>1. CASE Stop
    BY <2>1, NothingToName DEF Stop, store, VerdictsInv
  <2>2. CASE NoCases
    <3>1. /\ verdicts' = [verdicts EXCEPT !.model[iteration] = <<[accepted |-> FALSE, case |-> None]>>]
          /\ pc' = "idle"
      BY <2>2 DEF NoCases
    <3>2. verdicts' = [b \in {"local", "model"} |-> [n \in Numbers |-> verdicts'[b][n]]]
      BY <3>1 DEF VerdictsInv
    <3> QED
      BY <3>1, <3>2, NothingToName
  <2>3. CASE pc' = "judge" /\ Take(merged) /\ UNCHANGED <<frame, store>>
    BY <2>3, NothingNamed DEF Take, store
  <2> QED
    BY <1>5, <2>1, <2>2, <2>3 DEF ParseReply
<1>6. CASE Judge
  BY <1>6, JudgedIsNamed
<1>7. CASE JudgeNone
  BY <1>7, NoneIsNamed
<1>8. CASE JudgeEnd
  BY <1>8, NamesKept DEF JudgeEnd, Goto, memory, store
<1>9. CASE WriteDiagnostics
  BY <1>9, DiagnosticsWritten DEF AuditInv
<1>10. CASE WriteSuite
  BY <1>10, SuiteIsNamed
<1>11. CASE Continue
  <2>1. CASE Stop
    BY <2>1, NothingToName DEF Stop, store, VerdictsInv
  <2>2. CASE ~Stop
    BY <1>11, <2>2, NothingToName DEF Continue, store, VerdictsInv
  <2> QED
    BY <2>1, <2>2
<1>12. CASE UNCHANGED vars
  BY <1>12, NamesKept DEF vars, memory, store
<1> QED
  BY <1>1, <1>2, <1>3, <1>4, <1>5, <1>6, <1>7, <1>8, <1>9, <1>10, <1>11, <1>12
     DEF Next, Generate

DiagnosticsInv == VerdictsInv /\ ListsInv /\ CasesInv /\ AuditInv

LEMMA DiagnosticsStart == Init => DiagnosticsInv
<1> SUFFICES ASSUME Init PROVE DiagnosticsInv
  OBVIOUS
<1>1. VerdictsInv
  BY DEF Init, VerdictsInv, AcceptedAreWritten
<1>2. ListsInv
  BY EmptyIsFine, GenerationAssumption DEF Init, AdapterInit, ListsInv
<1> QED
  BY <1>1, <1>2, CasesStart, AuditStarts DEF DiagnosticsInv

\* A file of an iteration is of a run that has begun.
LEMMA AuditTypes == ListsInv /\ AuditInv => TypeOK
<1> SUFFICES ASSUME ListsInv, AuditInv PROVE TypeOK
  OBVIOUS
<1>1. run \in 0 .. MaxRuns /\ MaxRuns \in Nat
  BY GenerationAssumption DEF ListsInv
<1>2. ASSUME NEW n \in Numbers
      PROVE  /\ promptOf[n] \in 0 .. MaxRuns /\ replyOf[n] \in 0 .. MaxRuns
             /\ requestOf[n] \in 0 .. MaxRuns /\ verdictOf[n] \in 0 .. MaxRuns
  BY <1>1 DEF AuditInv, FilesType, NoLaterRun, AuditInOrder
<1>3. /\ promptOf \in [Numbers -> 0 .. MaxRuns] /\ replyOf \in [Numbers -> 0 .. MaxRuns]
      /\ requestOf \in [Numbers -> 0 .. MaxRuns] /\ verdictOf \in [Numbers -> 0 .. MaxRuns]
  BY <1>2 DEF AuditInv, FilesType
<1> QED
  BY <1>1, <1>3 DEF TypeOK, ListsInv, AuditInv, FilesType

LEMMA DiagnosticsSteps == DiagnosticsInv /\ [Next]_vars => DiagnosticsInv'
  BY VerdictsSteps, ListsSteps, CasesSteps, AuditSteps DEF DiagnosticsInv

\* Once a suite is written, the diagnostics of its iteration on disk name its
\* cases in their order and no others, wherever earlier runs stopped.
THEOREM DiagnosticsMatch == Spec => []DiagnosticsAreOfTheSuite
<1>1. DiagnosticsInv => DiagnosticsAreOfTheSuite
  BY AuditTypes DEF DiagnosticsInv, VerdictsInv, DiagnosticsAreOfTheSuite
<1> QED
  BY <1>1, DiagnosticsStart, DiagnosticsSteps, PTL DEF Spec
=============================================================================

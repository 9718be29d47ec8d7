--------------------------- MODULE HostedAdapter ---------------------------
(***************************************************************************)
(* The command that asks a hosted model for test cases, and the process    *)
(* that waits for it: one request per round, each about some of the        *)
(* behaviour categories, whose cases are merged.  A reply that cannot be   *)
(* used ends the command, and with it what earlier rounds brought; so does *)
(* the time limit, which the backend sets for the whole command and the    *)
(* adapter for each request.  The model is external: it answers anything.  *)
(***************************************************************************)
EXTENDS Integers, Sequences, FiniteSets, FiniteSetsExt, SequencesExt

CONSTANTS
  Proposals,     \* cases that may be proposed, see ProposalType
  Answers,       \* those a model may reply with
  Inputs, Categories, \* of proposals
  NumCategories, \* REQUIRED_BEHAVIOR_CATEGORIES, numbered
  RoundSettings, \* values of PBGEN_HOSTED_MODEL_ROUNDS
  MaxReply,      \* bound on the cases of a reply
  Delays,        \* that a reply may take
  Timeout,       \* PBGEN_MODEL_TIMEOUT_SECONDS
  None           \* no file

\* input: args, stdin, environment and fixtures, as one value; kind: what the
\* backend will do with it.
ProposalType == [input : Inputs, category : Categories,
                 kind : {"safe", "unsafe", "hangs", "raises"}]

ASSUME AdapterAssumption ==
  /\ Proposals \subseteq ProposalType /\ Answers \subseteq Proposals
  /\ NumCategories \in Nat \ {0} /\ RoundSettings \subseteq Int
  /\ MaxReply \in Nat /\ Timeout \in Nat /\ Delays \subseteq Nat

VARIABLES
  setting,  \* PBGEN_HOSTED_MODEL_ROUNDS
  command,  \* the state of the command: "off", "asking", "done" or "failed"
  round,    \* replies merged
  asked,    \* categories that requests were about
  paid,     \* replies received
  elapsed,  \* time since the command began
  merged,   \* cases of the rounds so far, in their order
  sidecar   \* the metadata file: the replies it accounts for

adapter == <<setting, command, round, asked, paid, elapsed, merged, sidecar>>

AdapterInit ==
  /\ setting \in RoundSettings /\ command = "off" /\ round = 0 /\ asked = {}
  /\ paid = 0 /\ elapsed = 0 /\ merged = <<>> /\ sidecar = None
-----------------------------------------------------------------------------
(* Rounds.                                                                 *)

Least(a, b)  == IF a < b THEN a ELSE b
Rounds       == IF setting > 1 THEN setting ELSE 1

\* Mutant: the categories are divided and the rest is dropped.
ChunkRoundedDown(rounds) ==
  IF NumCategories \div rounds > 1 THEN NumCategories \div rounds ELSE 1

ChunkSize(rounds) == (NumCategories + rounds - 1) \div rounds

\* _category_rounds: the categories in chunks, and all of them in the rounds
\* for which none is left.
Focus(rounds, r) ==
  LET size  == ChunkSize(rounds)
      first == r * size + 1
  IN  IF first > NumCategories THEN 1 .. NumCategories
      ELSE first .. Least(first + size - 1, NumCategories)

\* _case_key: the input and the category, not what is expected of it.
Key(p) == <<p.input, p.category>>

\* Those whose key neither an earlier round nor an earlier case of the reply has.
Fresh(cases) ==
  {i \in DOMAIN cases : Key(cases[i]) \notin
     {Key(p) : p \in ToSet(merged) \cup {cases[j] : j \in 1 .. i - 1}}}

\* The place of i among the indices I, and what cases holds at them.
Rank(I, i) == Cardinality({j \in I : j <= i})
At(I, cases) ==
  [n \in 1 .. Cardinality(I) |-> cases[CHOOSE i \in I : Rank(I, i) = n]]

Merge(cases) == merged \o At(Fresh(cases), cases)

Within(delay) == elapsed + delay <= Timeout

StartCommand ==
  /\ command' = "asking" /\ round' = 0 /\ asked' = {} /\ paid' = 0
  /\ elapsed' = 0 /\ merged' = <<>> /\ sidecar' = None
  /\ UNCHANGED setting

\* The command is no longer there, nor the directory of its sidecar.
NoCommand ==
  /\ command' = "off" /\ round' = 0 /\ asked' = {} /\ paid' = 0 /\ elapsed' = 0
  /\ merged' = <<>> /\ sidecar' = None /\ UNCHANGED setting

Ask == asked' = asked \cup Focus(Rounds, round)

\* The cases of a round are merged.
Answered ==
  \E delay \in Delays, cases \in BoundedSeq(Answers, MaxReply) :
    /\ Within(delay) /\ elapsed' = elapsed + delay
    /\ round' = round + 1 /\ paid' = paid + 1 /\ merged' = Merge(cases)
    /\ UNCHANGED <<command, sidecar>>

\* No text, no JSON, no test_cases array, or a case that is no object.
Unusable ==
  \E delay \in Delays :
    /\ Within(delay) /\ elapsed' = elapsed + delay
    /\ command' = "failed" /\ paid' = paid + 1
    /\ UNCHANGED <<round, merged, sidecar>>

\* The request is refused, or the command is killed when its time is over.
Unanswered ==
  /\ command' = "failed" /\ elapsed' \in {elapsed, Timeout}
  /\ UNCHANGED <<round, paid, merged, sidecar>>

Exchange ==
  /\ command = "asking" /\ round < Rounds
  /\ Ask /\ (Answered \/ Unusable \/ Unanswered)
  /\ UNCHANGED setting

\* _write_metadata, and the cases on standard output.
FinishCommand ==
  /\ command = "asking" /\ round = Rounds
  /\ command' = "done" /\ sidecar' = paid
  /\ UNCHANGED <<setting, round, asked, paid, elapsed, merged>>
-----------------------------------------------------------------------------
\* A command that returns cases has asked about every category, whatever the
\* number of rounds.
EveryCategoryIsAsked == command = "done" => asked = 1 .. NumCategories
=============================================================================

----------------------------- MODULE TestStore -----------------------------
(***************************************************************************)
(* The directory generated_tests/ of one task, as test_writer.py fills it. *)
(*                                                                         *)
(* A backend's cases go to a canonical suite file                          *)
(* test_cases_iteration_<i>[_NN].json, then to a pytest rendering          *)
(* test_behavior_iter_<i>[_NN].py, then an artifact record is written that *)
(* says which rendering belongs to which suite.  The three writes are not  *)
(* atomic and the two file names are numbered independently, each with the *)
(* first number that is free: files of earlier runs are never replaced.    *)
(* A model may instead answer with bare pytest files, which have no suite. *)
(***************************************************************************)
EXTENDS Naturals, FiniteSets

CONSTANTS
  Cases,          \* executable test cases a backend may come up with
  TestIds,        \* the names they carry
  IdOf,           \* test_id of each case; two cases may share one
  MaxIterations,  \* config.max_generation_iterations
  MaxCopies,      \* bound: files per iteration number (one more per run)
  NoFile          \* absence of a file

Iterations == 0 .. (MaxIterations - 1)
Copies     == 0 .. (MaxCopies - 1)

\* <<i, 0>> is test_cases_iteration_i.json, <<i, n>> its nth copy _0n.
Slots == Iterations \X Copies

ASSUME StoreAssumption ==
  /\ IsFiniteSet(Cases)
  /\ IdOf \in [Cases -> TestIds]
  /\ MaxIterations \in Nat \ {0}
  /\ MaxCopies \in Nat \ {0}
  /\ NoFile \notin Slots

VARIABLES
  written,   \* suite files that exist
  suite,     \* cases listed in each suite file
  drawn,     \* pytest renderings that exist
  rendered,  \* cases each rendering holds a test function for
  link,      \* artifact record of a suite: its rendering, or NoFile
  legacy,    \* tests in bare pytest files, known to no suite
  open,      \* suite file the writer or the filter is working on
  page       \* rendering the writer has just written

storeVars == <<written, suite, drawn, rendered, link, legacy, open, page>>

StoreTypeOK ==
  /\ written \subseteq Slots
  /\ suite \in [Slots -> SUBSET Cases]
  /\ drawn \subseteq Slots
  /\ rendered \in [Slots -> SUBSET Cases]
  /\ link \in [Slots -> Slots \cup {NoFile}]
  /\ legacy \subseteq Cases
  /\ open \in Slots \cup {NoFile}
  /\ page \in Slots \cup {NoFile}

StoreInit ==
  /\ written = {}
  /\ suite = [s \in Slots |-> {}]
  /\ drawn = {}
  /\ rendered = [s \in Slots |-> {}]
  /\ link = [s \in Slots |-> NoFile]
  /\ legacy = {}
  /\ open = NoFile
  /\ page = NoFile

----------------------------------------------------------------------------
(* What a run of the tests sees.                                           *)

\* Every case of every suite file: the same case in two files runs twice.
Instances ==
  {x \in Slots \X Cases : x[1] \in written /\ x[2] \in suite[x[1]]}

\* run_generated_suite: the canonical suites when there is a suite file,
\* even an empty one, and the bare pytest files otherwise.
UnderTest == IF written = {} THEN {NoFile} \X legacy ELSE Instances

WithId(P, id) == {x \in P : IdOf[x[2]] = id}
IdsIn(P)      == {IdOf[x[2]] : x \in P}

\* No other instance of P carries the same test_id.
Alone(x, P) == \A y \in P : IdOf[y[2]] = IdOf[x[2]] => y = x

\* _accepted_test_ids of the controller.
AcceptedTestIds == IdsIn(Instances)

\* The first file number of iteration i that is still free.
FirstFree(files, i, n) ==
  /\ <<i, n>> \notin files
  /\ \A m \in Copies : m < n => <<i, m>> \in files

----------------------------------------------------------------------------
(* write_executable_test_suite, one write at a time.                       *)

WriteSuite(i, C) ==
  \E n \in Copies :
    /\ FirstFree(written, i, n)
    /\ written' = written \cup {<<i, n>>}
    /\ suite' = [suite EXCEPT ![<<i, n>>] = C]
    /\ open' = <<i, n>>
    /\ UNCHANGED <<drawn, rendered, link, legacy, page>>

\* Mutant: renderings are not numbered.
OverwriteRendering(i) ==
  /\ drawn' = drawn \cup {<<i, 0>>}
  /\ rendered' = [rendered EXCEPT ![<<i, 0>>] = suite[open]]
  /\ page' = <<i, 0>>
  /\ UNCHANGED <<written, suite, link, legacy, open>>

WriteRendering(i) ==
  \E n \in Copies :
    /\ FirstFree(drawn, i, n)
    /\ drawn' = drawn \cup {<<i, n>>}
    /\ rendered' = [rendered EXCEPT ![<<i, n>>] = suite[open]]
    /\ page' = <<i, n>>
    /\ UNCHANGED <<written, suite, link, legacy, open>>

WriteArtifactRecord ==
  /\ link' = [link EXCEPT ![open] = page]
  /\ open' = NoFile
  /\ page' = NoFile
  /\ UNCHANGED <<written, suite, drawn, rendered, legacy>>

\* _generate_legacy_pytest_tests: the bare files of one answer.
WriteLegacyTests(L) ==
  /\ legacy' = legacy \cup L
  /\ UNCHANGED <<written, suite, drawn, rendered, link, open, page>>
=============================================================================

--------------------------- MODULE SuiteAcceptance ---------------------------
(***************************************************************************)
(* What test generation promises of the pool of tests it leaves behind,    *)
(* without files, runs on executables, or a loop: tests are only taken     *)
(* out by a judgement, a judgement is about the whole pool at one moment,  *)
(* it spares every test that has nothing against it, and once all it       *)
(* condemned is gone what remains is beyond suspicion.                     *)
(***************************************************************************)
CONSTANTS
  Tests,      \* everything that can be in the pool
  NameOf,     \* the name under which a test's results are filed
  Faultless,  \* tests no gate can object to while they are alone
  Hollow      \* tests some dummy executable passes

VARIABLES
  phase,   \* "open" to new tests, "judged", or "accepted"
  pool,    \* the tests that exist
  doomed   \* condemned, and not removed yet

absVars == <<phase, pool, doomed>>

AloneIn(x, P) == \A y \in P : NameOf[y] = NameOf[x] => y = x

AbsTypeOK ==
  /\ phase \in {"open", "judged", "accepted"}
  /\ pool \subseteq Tests
  /\ doomed \subseteq pool

AbsInit == phase = "open" /\ pool = {} /\ doomed = {}

Add ==
  /\ phase = "open"
  /\ pool' \in SUBSET Tests
  /\ pool \subseteq pool'
  /\ UNCHANGED <<phase, doomed>>

Judge ==
  /\ phase = "open"
  /\ phase' = "judged"
  /\ doomed' \in SUBSET pool
  /\ \A x \in pool : x \in Faultless /\ AloneIn(x, pool) => x \notin doomed'
  /\ \A x \in pool \ doomed' : x \notin Hollow /\ AloneIn(x, pool)
  /\ UNCHANGED pool

Sweep ==
  /\ phase = "judged"
  /\ doomed' \in SUBSET doomed
  /\ pool' = pool \ (doomed \ doomed')
  /\ UNCHANGED phase

Accept ==
  /\ phase = "judged"
  /\ doomed = {}
  /\ phase' = "accepted"
  /\ UNCHANGED <<pool, doomed>>

\* The next iteration, the next run, or an end before all is swept.
Reopen ==
  /\ phase # "open"
  /\ phase' = "open"
  /\ doomed' = {}
  /\ UNCHANGED pool

AbsNext == Add \/ Judge \/ Sweep \/ Accept \/ Reopen

AbsSpec == AbsInit /\ [][AbsNext]_absVars

\* An accepted pool has one test for each name, and none a dummy passes.
AcceptedIsSound ==
  phase = "accepted" =>
    \A x \in pool : x \notin Hollow /\ AloneIn(x, pool)
=============================================================================

------------------------- MODULE AcceptanceRefinement -------------------------
(***************************************************************************)
(* The generation loop implements SuiteAcceptance.  The pool is what the   *)
(* suite files list; the judgement is the moment rejection_reasons is      *)
(* computed; the files are swept one after the other.                      *)
(***************************************************************************)
EXTENDS GenerationController

AcceptancePhase ==
  CASE pc \in {"filter", "rerender"} -> "judged"
    [] pc \in {"rerun", "coverage", "decide"} -> "accepted"
    [] OTHER -> "open"

StillDoomed ==
  IF pc \in {"filter", "rerender"}
    THEN {x \in Instances : IdOf[x[2]] \in rejected}
    ELSE {}

\* A name is never flagged by the linter if no case that has it is weak.
FaultlessCases ==
  {c \in Cases : /\ c \in Stable \ FoolsSome
                 /\ \A e \in HighLint : IdOf[e] # IdOf[c]}

Acceptance ==
  INSTANCE SuiteAcceptance WITH
    Tests     <- Slots \X Cases,
    NameOf    <- [x \in Slots \X Cases |-> IdOf[x[2]]],
    Faultless <- {x \in Slots \X Cases : x[2] \in FaultlessCases},
    Hollow    <- {x \in Slots \X Cases : x[2] \in FoolsSome},
    phase     <- AcceptancePhase,
    pool      <- Instances,
    doomed    <- StillDoomed

\* The loop, with all its files and all its ways to die, is an acceptance
\* process: no sound, uniquely named test is ever taken out of a suite,
\* nothing but a judged test is, and survivors are sound.
ImplementsAcceptance == Acceptance!AbsSpec
=============================================================================

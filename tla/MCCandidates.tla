----------------------------- MODULE MCCandidates -----------------------------
(***************************************************************************)
(* A candidate is evaluated, or the runners meet its tests, or a solver    *)
(* makes one.  These share no file here: a behaviour is of one of them,    *)
(* and the others stay where they start.                                   *)
(***************************************************************************)
EXTENDS MCCandidateEvaluation, CandidateSolver

CandidatesInit == MCInit /\ SolverInit

\* What is released does not matter to the solver.
Unevaluated == id = 0 /\ cases = << >> /\ hidden = {} /\ canonical

CandidatesNext ==
  \/ call = 0 /\ MCNext /\ UNCHANGED solverVars
  \/ Unevaluated /\ SolverNext /\ UNCHANGED <<vars, testVars>>

CandidatesSpec ==
  CandidatesInit /\ [][CandidatesNext]_<<vars, testVars, solverVars>>
=============================================================================

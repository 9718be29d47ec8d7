----------------------------- MODULE SuiteScore -----------------------------
(***************************************************************************)
(* The arithmetic of score_suite.  Rates are in units of 1 / One, with One *)
(* divisible by what the suites of an instance divide by; the efficiency   *)
(* multiplier, which the configuration keeps in 0.75 .. 1.25, in quarters. *)
(***************************************************************************)
EXTENDS Naturals

CONSTANTS
  One,          \* the rate 1
  Gate,         \* config.correctness_gate_for_efficiency
  None          \* no such value

ASSUME ScoreAssumption ==
  One \in Nat \ {0} /\ Gate \in 0 .. One /\ None \notin Nat

Smaller(m, n) == IF m <= n THEN m ELSE n
Larger(m, n)  == IF m >= n THEN m ELSE n

\* k of n, 0 if there are none.
Share(k, n) == IF n = 0 THEN 0 ELSE (One * k) \div n

\* Flags are counted, not the tests that have them: a test may draw several.
\* A suite without tests has no weak assertions.
AssertionStrength(n, high, medium) ==
  LET Part(k) == Smaller(One, (One * k) \div Larger(n, 1))
      loss    == Part(high) + Part(medium) \div 4
  IN  IF loss >= One THEN 0 ELSE One - loss

\* Mutant: the penalty is the other way round.
RewardRedundancy(m) ==
  Smaller(One, (45 * m.correct + 25 * m.strength
                + 10 * (IF m.coverage = None THEN 0 ELSE m.coverage)
                + 10 * m.steady + 10 * m.rejecting + 5 * m.redundant) \div 100)

\* m: the measures of a suite.
Quality(m) ==
  LET coverage == IF m.coverage = None THEN 0 ELSE m.coverage
      gain     == 45 * m.correct + 25 * m.strength + 10 * coverage
                    + 10 * m.steady + 10 * m.rejecting
  IN  IF gain <= 5 * m.redundant THEN 0
      ELSE Smaller(One, (gain - 5 * m.redundant) \div 100)

\* MISSING_COVERAGE_FINAL_SCORE_CAP
Cap == (9 * One) \div 10

Final(quality, multiplier, measured) ==
  LET product == Smaller(One, (quality * multiplier) \div 4)
  IN  IF measured THEN product ELSE Smaller(product, Cap)

PassesGate(correct) == correct >= Gate

\* The score, the multiplier reported with it, and whether the note on
\* missing coverage is.  Below the gate the score is the correctness; without
\* a multiplier of the efficiency report it is 1.
Reward(m, multiplier) ==
  LET passed == PassesGate(m.correct)
      times  == IF multiplier = None THEN 4 ELSE multiplier
  IN  [passed     |-> passed,
       multiplier |-> IF passed THEN times ELSE None,
       score      |-> IF passed THEN Final(Quality(m), times, m.coverage # None)
                      ELSE m.correct,
       noted      |-> m.coverage = None]
=============================================================================

------------------------- MODULE MCSuiteEvaluation -------------------------
(***************************************************************************)
(* Two evaluations of a small suite, or one suite that is drawn by its     *)
(* counts and scored: more tests and flags than an evaluation of two tests *)
(* has.  A behaviour is of one of them; the other stays where it starts.   *)
(***************************************************************************)
EXTENDS SuiteEvaluation

CONSTANTS
  t1, t2,
  Sizes,       \* numbers of tests drawn
  Failing,     \* of them
  FlagCounts,  \* lint flags of either severity
  Coverages    \* line coverages

ASSUME DrawAssumption ==
  /\ Sizes \subseteq Nat /\ Failing \subseteq Nat /\ FlagCounts \subseteq Nat
  /\ Coverages \subseteq 0 .. One

VARIABLES drawn, factor, reward

drawnVars == <<drawn, factor, reward>>

Kind(flag, form, sure, fooling, surviving) ==
  [lint |-> flag, shape |-> form, stable |-> sure, fools |-> fooling,
   survives |-> surviving, safe |-> sure]

\* A good test and one of the same signature, a flaky one, one with a weak
\* assertion that is kept and one that is not, one that a dummy passes, and
\* one that a mutant survives.
TraitsMC ==
  {Kind("no", 1, TRUE, FALSE, FALSE), Kind("no", 2, FALSE, FALSE, FALSE),
   Kind("medium", 3, TRUE, FALSE, FALSE), Kind("high", 4, TRUE, TRUE, FALSE),
   Kind("no", 5, TRUE, FALSE, TRUE)}

\* Of every two tests one is the copy of another.
Half == One \div 2

\* failed: tests that failed on gold; high, medium: flags; shaky, passable:
\* tests that failed a determinism run, or that a dummy passed.
Suites ==
  {s \in [n : Sizes, failed : Failing, high : FlagCounts, medium : FlagCounts,
          shaky : {0, 1}, passable : {0, 1}, redundant : {0, Half},
          cover : Coverages \cup {None}] :
     s.failed <= s.n /\ s.shaky <= s.n /\ s.passable <= s.n}

MeasuresOf(s) ==
  [correct   |-> Share(s.n - s.failed, s.n),
   strength  |-> AssertionStrength(s.n, s.high, s.medium),
   coverage  |-> s.cover,
   steady    |-> Share(s.n - s.shaky, s.n),
   rejecting |-> One - Share(s.passable, s.n),
   redundant |-> s.redundant]

ScoreOf(s) == Reward(MeasuresOf(s), factor).score

NothingDrawn == drawn = None /\ factor = None /\ reward = None

Draw ==
  /\ suite = {} /\ coverage = None /\ \A s, t \in Tests : trait[s] = trait[t]
  /\ trait[t1] = Kind("no", 1, TRUE, FALSE, FALSE)
  /\ drawn \in Suites /\ factor \in Multipliers \cup {None} /\ reward = None

MCInit == Init /\ (NothingDrawn \/ Draw)

ScoreDrawn ==
  /\ drawn # None /\ reward = None
  /\ reward' = Reward(MeasuresOf(drawn), factor)
  /\ UNCHANGED <<drawn, factor>>

MCNext ==
  \/ drawn = None /\ Next /\ UNCHANGED drawnVars
  \/ ScoreDrawn /\ UNCHANGED vars

MCSpec == MCInit /\ [][MCNext]_<<vars, drawnVars>>
-----------------------------------------------------------------------------
\* One more test that passes everywhere and draws no flag; no redundancy; one
\* failure, one flag, one unsteady or one fooled test less; coverage where
\* there was none.
Improvements(s) ==
  {[s EXCEPT !.n = @ + 1], [s EXCEPT !.redundant = 0]}
    \cup {[s EXCEPT ![f] = @ - 1] :
            f \in {g \in {"failed", "high", "medium", "shaky", "passable"} : s[g] > 0}}
    \cup {[s EXCEPT !.cover = 0] : x \in {s.cover} \cap {None}}

\* The formula of suite_scorer.py and its gate together: an improvement never
\* lowers the score.  It may only where it takes the suite through the gate:
\* there a weighted mean that is scaled and capped replaces the pass rate
\* (suite_scorer.py:48-78).
BetterIsNotWorse ==
  reward # None =>
    \A s \in Improvements(drawn) :
      PassesGate(MeasuresOf(s).correct) = reward.passed => ScoreOf(s) >= reward.score
=============================================================================

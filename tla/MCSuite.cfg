\* Two evaluations of a suite of two tests of any two kinds, or the score of a
\* suite of up to four tests with up to two flags of either severity.
SPECIFICATION MCSpec
CONSTANTS
  t1 = t1
  t2 = t2
  None = None
  Tests = {t1, t2}
  Traits <- TraitsMC
  One = 24000
  Rates = {0, 24000}
  DeterminismRuns = 2
  Gate = 24000
  Multipliers = {3, 5}
  MaxCalls = 2
  Sizes = {0, 1, 2, 3, 4}
  Failing = {0, 1, 2}
  FlagCounts = {0, 1, 2}
  Coverages = {0, 24000}
INVARIANTS
  ReportsAreConsistent
  BetterIsNotWorse
PROPERTIES
  ReadyMeansUnflagged
\* The number of evaluations is bounded, and a suite is scored once.
CHECK_DEADLOCK FALSE

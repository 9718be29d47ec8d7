\* One evaluation of a release with one hidden test.
SPECIFICATION Spec
CONSTANTS
  None = None
  Tests = {t1}
  MaxEvaluations = 1
INVARIANT UnavailableMeansBlocked
\* The number of evaluations is bounded.
CHECK_DEADLOCK FALSE

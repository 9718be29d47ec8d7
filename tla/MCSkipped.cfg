\* One evaluation of a release with up to two hidden tests.
SPECIFICATION Spec
CONSTANTS
  None = None
  Tests = {t1, t2}
  MaxEvaluations = 1
INVARIANT ResolvedNeedsAll
\* The number of evaluations is bounded.
CHECK_DEADLOCK FALSE

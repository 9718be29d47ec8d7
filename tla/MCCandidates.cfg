\* Two evaluations in one directory, at most two hidden tests; or at most two
\* cases, with time for one case that does not end in a pytest run; or two calls
\* of a solver of up to three rounds in one output directory.
SPECIFICATION CandidatesSpec
CONSTANTS
  None = None
  Tests = {t1, t2}
  MaxEvaluations = 2
  Names = {a, b}
  Uncollected = Uncollected
  MaxCases = 2
  CaseSeconds = 20
  PytestSeconds = 30
  Raised = Raised
  MaxRounds = 3
  MaxCalls = 2
  Nothing = Nothing
  SmokeFailed = SmokeFailed
  NoCandidate = NoCandidate
INVARIANTS
  ReportsAreConsistent
  ResolvedMeansPassed
  NetworkReportIsTrue
  RunnersAgree
  ReportDescribesCandidate
  PromptsRepair
  RoundsAreAccounted
\* Evaluations and calls are bounded, and each runner runs once.
CHECK_DEADLOCK FALSE

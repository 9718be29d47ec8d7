\* The same suite written by two runs: are its tests called unstable?
SPECIFICATION Spec
CONSTANTS
  good = good
  twin = twin
  flaky = flaky
  hollow = hollow
  weak = weak
  a = a
  b = b
  c = c
  d = d
  NoFile = NoFile
  NoCoverage = NoCoverage
  Cases = {good}
  TestIds = {a, b, c, d}
  IdOf <- IdOfMC
  MaxIterations = 1
  MaxCopies = 2
  DeterminismRuns = 2
  Stable <- StableMC
  Dummies <- DummiesMC
  Fools <- FoolsMC
  HighLint <- HighLintMC
  MaxRuns = 2
  Backends = {"agentic", "model"}
  CoverageModes = {FALSE}
  CoverageValues = {3}
  CoverageTarget = 8
  MinDelta = 2
INVARIANTS
  UnstableMeansFailed
\* The number of runs is bounded.
CHECK_DEADLOCK FALSE

\* Two runs of up to three iterations each, with either backend and all the
\* ways coverage can go.
SPECIFICATION FairSpec
CONSTANTS
  good = good
  twin = twin
  flaky = flaky
  hollow = hollow
  weak = weak
  a = a
  b = b
  c = c
  d = d
  NoFile = NoFile
  NoCoverage = NoCoverage
  Cases = {flaky}
  TestIds = {a, b, c, d}
  IdOf <- IdOfMC
  MaxIterations = 3
  MaxCopies = 1
  DeterminismRuns = 1
  Stable <- StableMC
  Dummies <- DummiesMC
  Fools <- FoolsMC
  HighLint <- HighLintMC
  MaxRuns = 2
  Backends = {"agentic", "model"}
  CoverageModes = {TRUE}
  CoverageValues = {3, 5, 9}
  CoverageTarget = 8
  MinDelta = 2
INVARIANTS
  ReturnsAtFirstStop
  PromptsAreCurrent
PROPERTIES
  RunEnds
\* The number of runs is bounded.
CHECK_DEADLOCK FALSE
